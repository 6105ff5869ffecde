------------------------------ MODULE CallPaths ------------------------------
(***************************************************************************)
(* Calls on the RtpProxy server: the table of TransformInfos, the paths a  *)
(* transit call is built from, and the failures the relay client reports.  *)
(*                                                                         *)
(* Worker threads handle start, build, stop and offline requests while the *)
(* relay client's thread runs on_channel_keep_alive.  A step is one        *)
(* critical section (a table's lock, or the lock of one TransformInfo      *)
(* reached through a counted pointer).  The relay client is external: it   *)
(* keeps the channels, session keep-alives and short links it was told to. *)
(* Its own BuildChannel callback never comes; asyn_build_path_inner calls  *)
(* on_build_path itself, with reason 0, for every path.                    *)
(*                                                                         *)
(* A call is started once, so it also names its TransformInfo and session. *)
(* Packet statistics, which decide nothing here, are left out.             *)
(***************************************************************************)
EXTENDS Integers, Sequences, FiniteSets

CONSTANTS
  Call,       \* call ids
  CallType,   \* call -> "CT_TRANSFORM", "CT_DIRECT" or "CT_RTPDIRECT"
  Cids,       \* call -> the cids in its path_info, at most three
  Pair,       \* port pairs; a pair stands for its receiving port
  Worker,     \* threads that handle requests
  None        \* null pointer, no entry

TypeName == {"CT_TRANSFORM", "CT_DIRECT", "CT_RTPDIRECT"}
Cid == UNION {{Cids[c][i] : i \in 1 .. Len(Cids[c])} : c \in Call}

ASSUME CallAssumption == CallType \in [Call -> TypeName]
ASSUME CidsAssumption ==
  /\ Cids \in [Call -> Seq(Nat \ {0})]
  /\ \A c \in Call : /\ Len(Cids[c]) <= 3
                     /\ \A i, j \in 1 .. Len(Cids[c]) :
                          Cids[c][i] = Cids[c][j] => i = j
                     /\ CallType[c] # "CT_TRANSFORM" => Cids[c] = << >>
ASSUME NullAssumption == None \notin Call \cup Pair
ASSUME PairAssumption == IsFiniteSet(Pair)

VARIABLES
  m_call_ids,         \* SipProxyCallManager: the call ids of the SipProxy
  m_recv_info,        \* TransformInfo at a pair's receiving port, or None
  m_sent_info,        \* TransformInfo at its sending port, or None
  m_num,              \* call type -> m_transform_num, m_direct_num, ...
  m_cid,              \* TransformInfo -> m_path_info.m_cid, 0 when removed
  m_path_status,      \* TransformInfo -> its PathStatus
  m_session_to_port_map,          \* session -> pair, or None
  channels, kept, short_links,    \* the relay client (external)
  pc, call, path, target, todo,   \* workers: step and locals
  r_pc, r_session, r_port, r_info, r_path_num,  \* relay thread: the same
  phase, ports,       \* the SipProxy: where each call is, on which pair
  failed, notified    \* history: failed sessions, calls reported as failed

tableVars == <<m_recv_info, m_sent_info, m_num>>
infoVars == <<m_cid, m_path_status>>
relayVars == <<channels, kept, short_links>>
workerVars == <<pc, call, path, target, todo>>
threadVars == <<r_pc, r_session, r_port, r_info, r_path_num>>
clientVars == <<phase, ports>>
history == <<failed, notified>>
vars == <<m_call_ids, tableVars, infoVars, m_session_to_port_map, relayVars,
          workerVars, threadVars, clientVars, history>>

Session == Call \X Cid
Phase == {"new", "starting", "up", "building", "stopping", "over"}
Live == {"starting", "up", "building", "stopping"}
Label == {"idle", "add_recv", "add_sent", "short_link", "build", "keep_alive",
          "modify_find", "modify", "answer", "del_info", "sweep"}
Listed(c) == {m_cid[c][i] : i \in 1 .. Len(m_cid[c])} \ {0}

TypeOK ==
  /\ m_call_ids \subseteq Call
  /\ m_recv_info \in [Pair -> Call \cup {None}]
  /\ m_sent_info \in [Pair -> Call \cup {None}]
  /\ m_num \in [TypeName -> Nat]
  /\ m_cid \in [Call -> Seq(Cid \cup {0})]
  /\ m_path_status \in [Call -> {"PS_BUILDING", "PS_SUC"}]
  /\ m_session_to_port_map \in [Session -> Pair \cup {None}]
  /\ channels \subseteq Session /\ short_links \subseteq Call
  /\ kept \in [Session -> Pair \cup {None}]
  /\ pc \in [Worker -> Label] /\ call \in [Worker -> Call \cup {None}]
  /\ path \in [Worker -> 1 .. 4] /\ target \in [Worker -> Call \cup {None}]
  /\ todo \in [Worker -> SUBSET Pair]
  /\ r_pc \in {"idle", "find", "remove_cid", "session", "channel", "notify"}
  /\ r_session \in Session \cup {None} /\ r_port \in Pair \cup {None}
  /\ r_info \in Call \cup {None} /\ r_path_num \in 0 .. 3
  /\ phase \in [Call -> Phase] /\ ports \in [Call -> Pair \cup {None}]
  /\ failed \subseteq Session /\ notified \subseteq Call

Init ==
  /\ m_call_ids = {}
  /\ m_recv_info = [p \in Pair |-> None] /\ m_sent_info = [p \in Pair |-> None]
  /\ m_num = [t \in TypeName |-> 0]
  /\ m_cid = Cids /\ m_path_status = [c \in Call |-> "PS_BUILDING"]
  /\ m_session_to_port_map = [s \in Session |-> None]
  /\ channels = {} /\ kept = [s \in Session |-> None] /\ short_links = {}
  /\ pc = [w \in Worker |-> "idle"] /\ call = [w \in Worker |-> None]
  /\ path = [w \in Worker |-> 1] /\ target = [w \in Worker |-> None]
  /\ todo = [w \in Worker |-> {}]
  /\ r_pc = "idle" /\ r_session = None /\ r_port = None /\ r_info = None
  /\ r_path_num = 0
  /\ phase = [c \in Call |-> "new"] /\ ports = [c \in Call |-> None]
  /\ failed = {} /\ notified = {}

-----------------------------------------------------------------------------
Goto(w, label) == pc' = [pc EXCEPT ![w] = label]

\* The handler has answered: its locals go out of scope.
Return(w) ==
  /\ Goto(w, "idle")
  /\ call' = [call EXCEPT ![w] = None] /\ path' = [path EXCEPT ![w] = 1]
  /\ target' = [target EXCEPT ![w] = None]

OnPort(w) == ports[call[w]]   \* the pair in the worker's request

(* asyn_start_call.  The SipProxy starts a call on a pair it holds, when    *)
(* no other call of its is on the pair.                                     *)
ReceiveStart(w, c, p) ==
  /\ pc[w] = "idle" /\ phase[c] = "new"
  /\ \A d \in Call : phase[d] \in Live => ports[d] # p
  /\ m_call_ids' = m_call_ids \cup {c}
  /\ phase' = [phase EXCEPT ![c] = "starting"]
  /\ ports' = [ports EXCEPT ![c] = p]
  /\ call' = [call EXCEPT ![w] = c] /\ Goto(w, "add_recv")
  /\ UNCHANGED <<tableVars, infoVars, m_session_to_port_map, relayVars, path,
                 target, todo, threadVars, history>>

\* The map's insert: an entry that is there already stays.
Inserted(map, key, value) ==
  IF map[key] = None THEN [map EXCEPT ![key] = value] ELSE map

\* Wrong variant: the new entry is not counted.
AddRecvInfoUncounted(w) ==
  /\ pc[w] = "add_recv"
  /\ m_recv_info' = Inserted(m_recv_info, OnPort(w), call[w])
  /\ Goto(w, "add_sent")
  /\ UNCHANGED <<m_call_ids, m_num, m_sent_info, infoVars, m_session_to_port_map,
                 relayVars, call, path, target, todo, threadVars, clientVars,
                 history>>

\* The new TransformInfo of the receiving port; only it is counted.
AddRecvInfo(w) ==
  /\ pc[w] = "add_recv"
  /\ m_num' = [m_num EXCEPT ![CallType[call[w]]] = @ + 1]
  /\ m_recv_info' = Inserted(m_recv_info, OnPort(w), call[w])
  /\ Goto(w, "add_sent")
  /\ UNCHANGED <<m_call_ids, m_sent_info, infoVars, m_session_to_port_map,
                 relayVars, call, path, target, todo, threadVars, clientVars,
                 history>>

\* The sending port's; a call that is not transit is answered at once.
AddSentInfo(w) ==
  /\ pc[w] = "add_sent"
  /\ m_sent_info' = Inserted(m_sent_info, OnPort(w), call[w])
  /\ Goto(w, IF CallType[call[w]] = "CT_TRANSFORM" THEN "short_link" ELSE "answer")
  /\ UNCHANGED <<m_call_ids, m_recv_info, m_num, infoVars, m_session_to_port_map,
                 relayVars, call, path, target, todo, threadVars, clientVars,
                 history>>

\* AddShortLinkKeepAlive, then the paths.  A transit call without a path
\* leaves the handler here, and nobody answers it.
AddShortLink(w) ==
  /\ pc[w] = "short_link"
  /\ short_links' = short_links \cup {call[w]}
  /\ IF Cids[call[w]] = << >>
       THEN Return(w)
       ELSE Goto(w, "build") /\ UNCHANGED <<call, path, target>>
  /\ UNCHANGED <<m_call_ids, tableVars, infoVars, m_session_to_port_map, channels,
                 kept, todo, threadVars, clientVars, history>>

(* deal_build_path: more paths for a call that has been answered, with the  *)
(* same path_info.  Without a path it is refused.                           *)
ReceiveBuild(w, c) ==
  /\ pc[w] = "idle" /\ phase[c] = "up"
  /\ phase' = [phase EXCEPT ![c] = "building"]
  /\ call' = [call EXCEPT ![w] = c]
  /\ Goto(w, IF Cids[c] = << >> THEN "answer" ELSE "build")
  /\ UNCHANGED <<m_call_ids, tableVars, infoVars, m_session_to_port_map, relayVars,
                 path, target, todo, threadVars, ports, history>>

PathSession(w) == <<call[w], Cids[call[w]][path[w]]>>

\* BuildChannel and, in the callback, SessionID2PortMap::add.
BuildChannel(w) ==
  /\ pc[w] = "build"
  /\ channels' = channels \cup {PathSession(w)}
  /\ m_session_to_port_map' =
       Inserted(m_session_to_port_map, PathSession(w), OnPort(w))
  /\ Goto(w, "keep_alive")
  /\ UNCHANGED <<m_call_ids, tableVars, infoVars, kept, short_links, call, path,
                 target, todo, threadVars, clientVars, history>>

\* AddSessionKeepAlive; the last path's callback ends the building.
AddKeepAlive(w) ==
  /\ pc[w] = "keep_alive"
  /\ kept' = [kept EXCEPT ![PathSession(w)] = OnPort(w)]
  /\ path' = [path EXCEPT ![w] = @ + 1]
  /\ Goto(w, IF path[w] = Len(Cids[call[w]]) THEN "modify_find" ELSE "build")
  /\ UNCHANGED <<m_call_ids, tableVars, infoVars, m_session_to_port_map, channels,
                 short_links, call, target, todo, threadVars, clientVars, history>>

\* modify_transform_info finds the TransformInfo of the receiving port and
\* lets the table go ...
ModifyFind(w) ==
  /\ pc[w] = "modify_find"
  /\ target' = [target EXCEPT ![w] = m_recv_info[OnPort(w)]]
  /\ Goto(w, IF m_recv_info[OnPort(w)] = None THEN "answer" ELSE "modify")
  /\ UNCHANGED <<m_call_ids, tableVars, infoVars, m_session_to_port_map, relayVars,
                 call, path, todo, threadVars, clientVars, history>>

\* ... before it stores the cids built, whatever has failed since.
Modify(w) ==
  /\ pc[w] = "modify"
  /\ m_cid' = [m_cid EXCEPT ![target[w]] = Cids[call[w]]]
  /\ m_path_status' = [m_path_status EXCEPT ![target[w]] = "PS_SUC"]
  /\ Goto(w, "answer")
  /\ UNCHANGED <<m_call_ids, tableVars, m_session_to_port_map, relayVars, call,
                 path, target, todo, threadVars, clientVars, history>>

\* BuildPathTaskCB::on_build_path sends the answer.
Answer(w) ==
  /\ pc[w] = "answer"
  /\ phase' = [phase EXCEPT ![call[w]] = "up"]
  /\ Return(w)
  /\ UNCHANGED <<m_call_ids, tableVars, infoVars, m_session_to_port_map, relayVars,
                 todo, threadVars, ports, history>>

-----------------------------------------------------------------------------
(* stop_call and the sweep of an offline SipProxy.                          *)

\* Wrong variants of del_transform_info: the channels stay; the counter
\* stays; the sending port's entry stays.
DelTransformInfoKeepChannels(p) ==
  LET c == m_recv_info[p] IN
  /\ IF c = None
       THEN UNCHANGED <<m_num, relayVars>>
       ELSE /\ m_num' = [m_num EXCEPT ![CallType[c]] = @ - 1]
            /\ short_links' = short_links \ {c}
            /\ UNCHANGED <<channels, kept>>
  /\ m_recv_info' = [m_recv_info EXCEPT ![p] = None]
  /\ m_sent_info' = [m_sent_info EXCEPT ![p] = None]
DelTransformInfoUncounted(p) ==
  LET c == m_recv_info[p] IN
  /\ IF c = None
       THEN UNCHANGED relayVars
       ELSE /\ channels' = channels \ {<<c, cid>> : cid \in Listed(c)}
            /\ short_links' = short_links \ {c}
            /\ UNCHANGED kept
  /\ m_recv_info' = [m_recv_info EXCEPT ![p] = None]
  /\ m_sent_info' = [m_sent_info EXCEPT ![p] = None]
  /\ UNCHANGED m_num
DelTransformInfoRecvOnly(p) ==
  LET c == m_recv_info[p] IN
  /\ IF c = None
       THEN UNCHANGED <<m_num, relayVars>>
       ELSE /\ m_num' = [m_num EXCEPT ![CallType[c]] = @ - 1]
            /\ channels' = channels \ {<<c, cid>> : cid \in Listed(c)}
            /\ short_links' = short_links \ {c}
            /\ UNCHANGED kept
  /\ m_recv_info' = [m_recv_info EXCEPT ![p] = None]
  /\ UNCHANGED m_sent_info

\* Under the table's lock: DestoryChannel of every cid left in the info (its
\* own lock is not taken; the cids are read here at one instant),
\* DelShortLinkKeepAlive, the counter, then both entries go.  The session
\* keep-alives and the session's port stay.
DelTransformInfo(p) ==
  LET c == m_recv_info[p] IN
  /\ IF c = None
       THEN UNCHANGED <<m_num, relayVars>>
       ELSE /\ m_num' = [m_num EXCEPT ![CallType[c]] = @ - 1]
            /\ channels' = channels \ {<<c, cid>> : cid \in Listed(c)}
            /\ short_links' = short_links \ {c}
            /\ UNCHANGED kept
  /\ m_recv_info' = [m_recv_info EXCEPT ![p] = None]
  /\ m_sent_info' = [m_sent_info EXCEPT ![p] = None]

ReceiveStop(w, c) ==
  /\ pc[w] = "idle" /\ phase[c] = "up"
  /\ m_call_ids' = m_call_ids \ {c}
  /\ phase' = [phase EXCEPT ![c] = "stopping"]
  /\ call' = [call EXCEPT ![w] = c] /\ Goto(w, "del_info")
  /\ UNCHANGED <<tableVars, infoVars, m_session_to_port_map, relayVars, path,
                 target, todo, threadVars, ports, history>>

StopCall(w) ==
  /\ pc[w] = "del_info"
  /\ DelTransformInfo(OnPort(w))
  /\ phase' = [phase EXCEPT ![call[w]] = "over"]
  /\ Return(w)
  /\ UNCHANGED <<m_call_ids, infoVars, m_session_to_port_map, todo, threadVars,
                 ports, history>>

\* The SipProxy goes offline with no request under way; deal_dead_sipproxy
\* clears its call ids, then takes its users' pairs one by one.
ReceiveOffline(w) ==
  /\ \A v \in Worker : pc[v] = "idle"
  /\ \A c \in Call : phase[c] \in {"new", "up", "over"}
  /\ m_call_ids' = {}
  /\ phase' = [c \in Call |-> IF phase[c] = "up" THEN "stopping" ELSE phase[c]]
  /\ todo' = [todo EXCEPT ![w] = {ports[c] : c \in {d \in Call : phase[d] = "up"}}]
  /\ Goto(w, "sweep")
  /\ UNCHANGED <<tableVars, infoVars, m_session_to_port_map, relayVars, call, path,
                 target, threadVars, ports, history>>

Sweep(w) ==
  /\ pc[w] = "sweep"
  /\ \/ \E p \in todo[w] :
          /\ DelTransformInfo(p)
          /\ todo' = [todo EXCEPT ![w] = @ \ {p}]
          /\ phase' = [c \in Call |-> IF phase[c] = "stopping" /\ ports[c] = p
                                        THEN "over" ELSE phase[c]]
          /\ UNCHANGED pc
     \/ /\ todo[w] = {}
        /\ Goto(w, "idle")
        /\ UNCHANGED <<tableVars, relayVars, todo, phase>>
  /\ UNCHANGED <<m_call_ids, infoVars, m_session_to_port_map, call, path, target,
                 threadVars, ports, history>>

-----------------------------------------------------------------------------
(* The relay client's thread: a session's keep-alive fails.  It was         *)
(* registered with the port the call had then.                              *)

RGoto(label) == r_pc' = label

KeepAliveFails(s) ==
  /\ r_pc = "idle" /\ kept[s] # None
  /\ r_session' = s /\ r_port' = kept[s] /\ RGoto("find")
  /\ failed' = failed \cup {s}
  /\ UNCHANGED <<m_call_ids, tableVars, infoVars, m_session_to_port_map, relayVars,
                 workerVars, r_info, r_path_num, clientVars, notified>>

\* TransformInfoManager::remove_cid looks the port up.  When nothing is
\* there, path_num keeps the 0 it was initialised with.
FindInfo ==
  /\ r_pc = "find"
  /\ r_info' = m_recv_info[r_port]
  /\ r_path_num' = 0
  /\ RGoto(IF m_recv_info[r_port] = None THEN "session" ELSE "remove_cid")
  /\ UNCHANGED <<m_call_ids, tableVars, infoVars, m_session_to_port_map, relayVars,
                 workerVars, r_session, r_port, clientVars, history>>

\* The cid's place in the info, if it is listed.
Places(c, cid) == {i \in 1 .. Len(m_cid[c]) : m_cid[c][i] = cid}

\* Wrong variant: the number of paths handed out is not decremented.
RemoveCidUncounted ==
  /\ r_pc = "remove_cid"
  /\ LET found == Places(r_info, r_session[2]) IN
       /\ r_path_num' = Len(m_cid[r_info])
       /\ m_cid' = [m_cid EXCEPT ![r_info] =
                      [i \in DOMAIN @ |-> IF i \in found THEN 0 ELSE @[i]]]
  /\ RGoto("session")
  /\ UNCHANGED <<m_call_ids, tableVars, m_path_status, m_session_to_port_map,
                 relayVars, workerVars, r_session, r_port, r_info, clientVars,
                 history>>

\* Wrong variant: it is decremented although the cid is not found.
RemoveCidAnyway ==
  /\ r_pc = "remove_cid"
  /\ LET found == Places(r_info, r_session[2]) IN
       /\ r_path_num' = IF m_cid[r_info] = << >> THEN 0 ELSE Len(m_cid[r_info]) - 1
       /\ m_cid' = [m_cid EXCEPT ![r_info] =
                      [i \in DOMAIN @ |-> IF i \in found THEN 0 ELSE @[i]]]
  /\ RGoto("session")
  /\ UNCHANGED <<m_call_ids, tableVars, m_path_status, m_session_to_port_map,
                 relayVars, workerVars, r_session, r_port, r_info, clientVars,
                 history>>

\* TransformInfo::remove_cid: path_num is a copy of m_path_num, one less when
\* the cid is found; m_path_num itself stays.
RemoveCid ==
  /\ r_pc = "remove_cid"
  /\ LET found == Places(r_info, r_session[2]) IN
       /\ r_path_num' = Len(m_cid[r_info]) - Cardinality(found)
       /\ m_cid' = [m_cid EXCEPT ![r_info] =
                      [i \in DOMAIN @ |-> IF i \in found THEN 0 ELSE @[i]]]
  /\ RGoto("session")
  /\ UNCHANGED <<m_call_ids, tableVars, m_path_status, m_session_to_port_map,
                 relayVars, workerVars, r_session, r_port, r_info, clientVars,
                 history>>

\* SessionID2PortMap::del.
ForgetSession ==
  /\ r_pc = "session"
  /\ m_session_to_port_map' = [m_session_to_port_map EXCEPT ![r_session] = None]
  /\ RGoto("channel")
  /\ UNCHANGED <<m_call_ids, tableVars, infoVars, relayVars, workerVars, r_session,
                 r_port, r_info, r_path_num, clientVars, history>>

\* DelSessionKeepAlive and DestoryChannel.
DropChannel ==
  /\ r_pc = "channel"
  /\ kept' = [kept EXCEPT ![r_session] = None]
  /\ channels' = channels \ {r_session}
  /\ RGoto("notify")
  /\ UNCHANGED <<m_call_ids, tableVars, infoVars, m_session_to_port_map,
                 short_links, workerVars, r_session, r_port, r_info, r_path_num,
                 clientVars, history>>

\* deal_error_session.  Without a TransformInfo its call id is empty and the
\* SipProxy id uninitialised, and no call is named.
NotifySipProxy ==
  /\ r_pc = "notify"
  /\ notified' = notified \cup (IF r_path_num = 0 THEN {r_info} \ {None} ELSE {})
  /\ r_pc' = "idle" /\ r_session' = None /\ r_port' = None /\ r_info' = None
  /\ r_path_num' = 0
  /\ UNCHANGED <<m_call_ids, tableVars, infoVars, m_session_to_port_map, relayVars,
                 workerVars, clientVars, failed>>

-----------------------------------------------------------------------------
Receive(w) ==
  \/ \E c \in Call, p \in Pair : ReceiveStart(w, c, p)
  \/ \E c \in Call : ReceiveBuild(w, c) \/ ReceiveStop(w, c)
  \/ ReceiveOffline(w)

Handle(w) ==
  \/ AddRecvInfo(w) \/ AddSentInfo(w) \/ AddShortLink(w)
  \/ BuildChannel(w) \/ AddKeepAlive(w)
  \/ ModifyFind(w) \/ Modify(w) \/ Answer(w)
  \/ StopCall(w) \/ Sweep(w)

Failure == \/ FindInfo \/ RemoveCid \/ ForgetSession \/ DropChannel
           \/ NotifySipProxy

Next ==
  \/ \E w \in Worker : Receive(w) \/ Handle(w)
  \/ \E s \in Session : KeepAliveFails(s)
  \/ Failure

Spec == Init /\ [][Next]_vars

-----------------------------------------------------------------------------
HasPath(c) == Cids[c] # << >>

\* The counters of transit, direct and RTP-direct calls count the entries of
\* their type, whatever starts, stops and sweeps are under way.  (An insert
\* that finds an entry is counted too: see StartedCallServed.)
CountersExact ==
  \A t \in TypeName :
    m_num[t] = Cardinality({p \in Pair : /\ m_recv_info[p] # None
                                         /\ CallType[m_recv_info[p]] = t})

\* A call the SipProxy was told is up is the one its ports serve, on both
\* ports, and its paths carry packets: no entry of an earlier call is left.
\* deal_build_path relies on it (rtpproxy.cpp:171, "build_path comes after
\* start_call, so there is a TransformInfo").
StartedCallServed ==
  \A c \in Call : phase[c] \in {"up", "building"} =>
    /\ m_recv_info[ports[c]] = c /\ m_sent_info[ports[c]] = c
    /\ HasPath(c) => m_path_status[c] = "PS_SUC"

\* Cids of different calls differ: a failed session of an old call cannot be
\* taken for a path of the call that has its port now.
CidsDiffer ==
  \A c, d \in Call : c # d =>
    \A i \in 1 .. Len(Cids[c]), j \in 1 .. Len(Cids[d]) : Cids[c][i] # Cids[d][j]

\* Every channel belongs to a live call that still lists it and will destroy
\* it, or is about to be listed or destroyed.
ChannelsAccounted ==
  CidsDiffer =>
    \A s \in channels :
      \/ /\ phase[s[1]] \in Live
         /\ s[2] \in Listed(s[1])
      \/ \E w \in Worker : /\ call[w] = s[1]
                           /\ pc[w] \in {"build", "keep_alive", "modify_find",
                                         "modify"}
      \/ r_session = s

\* All paths of call c, which is up, have failed, and the relay thread has
\* nothing left to do about it.
AllPathsGone(c) ==
  phase[c] = "up" /\ HasPath(c) /\ Listed(c) = {} /\ r_info # c

\* A call whose only path has failed is reported to its SipProxy.
OnePathFailureReported ==
  \A p \in Pair : \A c \in {m_recv_info[p]} \ {None} :
    AllPathsGone(c) /\ Len(Cids[c]) = 1 => c \in notified

\* So is a call all of whose paths have failed: rtpproxy.cpp:39-41 says the
\* handler updates m_path_num and, if every cid has failed, tells the SipProxy.
AllPathsFailureReported ==
  \A p \in Pair : \A c \in {m_recv_info[p]} \ {None} :
    AllPathsGone(c) => c \in notified

OwnPathsFailed(c) ==
  \A i \in 1 .. Len(Cids[c]) : <<c, Cids[c][i]>> \in failed

\* No call with paths is reported as failed unless each of them has failed,
\* although the failures of an earlier call on its port arrive while it runs.
PathCallReportedRightly ==
  CidsDiffer => \A c \in notified : HasPath(c) => OwnPathsFailed(c)

\* rtpproxy.cpp:63 reports a call when all its paths have failed: a call is
\* never reported for a failure of another call's session.
ReportedCallHasFailed ==
  \A c \in notified : HasPath(c) /\ OwnPathsFailed(c)

\* What the forwarding of media relies on: whatever the threads do, entries,
\* cids and sessions change only as in CallTable.
Table == INSTANCE CallTable WITH over <- {c \in Call : phase[c] = "over"}
KeepsTable == Table!TableSpec
=============================================================================
