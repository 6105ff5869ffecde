------------------------------ MODULE CallTable ------------------------------
(***************************************************************************)
(* What the calls on the server look like to the threads that forward      *)
(* media: the TransformInfo at each port, the cids in it, and the port of  *)
(* each relay session.  CallPaths, with its threads and the relay client,  *)
(* implements it (KeepsTable); MediaForward is built on it.                *)
(***************************************************************************)
EXTENDS Integers, Sequences

CONSTANTS
  Call,       \* call ids; a call is started once and names its TransformInfos
  CallType,   \* call -> "CT_TRANSFORM", "CT_DIRECT" or "CT_RTPDIRECT"
  Cids,       \* call -> the cids in its path_info
  Pair,       \* port pairs
  None        \* null pointer, no entry

Cid == UNION {{Cids[c][i] : i \in 1 .. Len(Cids[c])} : c \in Call}
Session == Call \X Cid

ASSUME TableAssumption == /\ Cids \in [Call -> Seq(Nat \ {0})]
                          /\ None \notin Call \cup Pair
                          /\ Call \cap Pair = {}

VARIABLES
  ports,                        \* call -> the pair it was started on
  m_recv_info, m_sent_info,     \* pair -> call whose TransformInfo is there
  m_cid, m_path_status,         \* the TransformInfo of a receiving port
  m_session_to_port_map,        \* session -> pair, or None
  failed,                       \* sessions whose keep-alive has failed
  over                          \* calls that were stopped

tableVars == <<ports, m_recv_info, m_sent_info, m_cid, m_path_status,
               m_session_to_port_map, failed, over>>

TableInit ==
  /\ ports = [c \in Call |-> None]
  /\ m_recv_info = [p \in Pair |-> None] /\ m_sent_info = [p \in Pair |-> None]
  /\ m_cid = Cids /\ m_path_status = [c \in Call |-> "PS_BUILDING"]
  /\ m_session_to_port_map = [s \in Session |-> None]
  /\ failed = {} /\ over = {}

\* A SipProxy asks for a call on a pair none of its calls is on.
Request(c, p) ==
  /\ ports[c] = None /\ \A d \in Call : ports[d] = p => d \in over
  /\ ports' = [ports EXCEPT ![c] = p]
  /\ UNCHANGED <<m_recv_info, m_sent_info, m_cid, m_path_status,
                 m_session_to_port_map, failed, over>>

\* The entries come one after the other, the receiving port's first.
AddRecv(c) ==
  /\ ports[c] # None /\ c \notin over /\ m_recv_info[ports[c]] = None
  /\ m_recv_info' = [m_recv_info EXCEPT ![ports[c]] = c]
  /\ UNCHANGED <<ports, m_sent_info, m_cid, m_path_status, m_session_to_port_map,
                 failed, over>>

AddSent(c) ==
  /\ ports[c] # None /\ m_recv_info[ports[c]] = c /\ m_sent_info[ports[c]] = None
  /\ m_sent_info' = [m_sent_info EXCEPT ![ports[c]] = c]
  /\ UNCHANGED <<ports, m_recv_info, m_cid, m_path_status, m_session_to_port_map,
                 failed, over>>

\* A path of a started call that is relayed.
HasPath(s) ==
  /\ ports[s[1]] # None /\ CallType[s[1]] = "CT_TRANSFORM"
  /\ \E i \in DOMAIN Cids[s[1]] : Cids[s[1]][i] = s[2]

\* A path has been built: its session gets the pair, unless it has one.
AddSession(s) ==
  /\ HasPath(s) /\ m_sent_info[ports[s[1]]] = s[1]
  /\ m_session_to_port_map[s] = None
  /\ m_session_to_port_map' = [m_session_to_port_map EXCEPT ![s] = ports[s[1]]]
  /\ UNCHANGED <<ports, m_recv_info, m_sent_info, m_cid, m_path_status, failed, over>>

\* All paths have been built, for the first time or once more.
SetPaths(c) ==
  /\ ports[c] # None /\ m_sent_info[ports[c]] = c /\ Cids[c] # << >>
  /\ m_cid' = [m_cid EXCEPT ![c] = Cids[c]]
  /\ m_path_status' = [m_path_status EXCEPT ![c] = "PS_SUC"]
  /\ UNCHANGED <<ports, m_recv_info, m_sent_info, m_session_to_port_map, failed, over>>

\* The keep-alive of a session fails, now or again ...
Fail(s) ==
  /\ HasPath(s)
  /\ failed' = failed \cup {s}
  /\ UNCHANGED <<ports, m_recv_info, m_sent_info, m_cid, m_path_status,
                 m_session_to_port_map, over>>

\* ... its cid is removed from the call found at the port ...
RemoveFailed(c, s) ==
  /\ s \in failed
  /\ m_cid' = [m_cid EXCEPT ![c] =
                 [i \in DOMAIN @ |-> IF @[i] = s[2] THEN 0 ELSE @[i]]]
  /\ UNCHANGED <<ports, m_recv_info, m_sent_info, m_path_status,
                 m_session_to_port_map, failed, over>>

\* ... and the session is forgotten.
Forget(s) ==
  /\ s \in failed
  /\ m_session_to_port_map' = [m_session_to_port_map EXCEPT ![s] = None]
  /\ UNCHANGED <<ports, m_recv_info, m_sent_info, m_cid, m_path_status, failed, over>>

\* stop_call or the sweep of an offline SipProxy: both entries go at once.
\* The sessions keep their pair.
Stop(c) ==
  /\ ports[c] # None /\ c \notin over /\ m_sent_info[ports[c]] = c
  /\ m_recv_info' = [m_recv_info EXCEPT ![ports[c]] = None]
  /\ m_sent_info' = [m_sent_info EXCEPT ![ports[c]] = None]
  /\ over' = over \cup {c}
  /\ UNCHANGED <<ports, m_cid, m_path_status, m_session_to_port_map, failed>>

TableNext ==
  \/ \E c \in Call : AddRecv(c) \/ AddSent(c) \/ SetPaths(c) \/ Stop(c)
  \/ \E c \in Call, p \in Pair : Request(c, p)
  \/ \E s \in Session : AddSession(s) \/ Fail(s) \/ Forget(s)
  \/ \E c \in Call, s \in Session : RemoveFailed(c, s)

TableSpec == TableInit /\ [][TableNext]_tableVars
=============================================================================
