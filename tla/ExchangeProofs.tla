---------------------------- MODULE ExchangeProofs ----------------------------
(***************************************************************************)
(* Theorems about Exchange for any number of SipProxies, connections,      *)
(* calls of the API, port pairs, buffers and worker threads, and whatever  *)
(* the SipProxies do.                                                      *)
(***************************************************************************)
EXTENDS Exchange, FiniteSetTheorems, SequenceTheorems, TLAPS

-----------------------------------------------------------------------------
(* The inductive invariant. *)

IsSeq(q) == q \in Seq({q[i] : i \in DOMAIN q})

Issued == {t \in Task : cmd[t].m_cmd_id # 0}

\* What a connection carries to the server: keep-alives, and requests of the
\* tasks of its SipProxy.
RequestOK(c, r) ==
  \/ r.m_cmd_type = "RA_KEEP_ALIVE_REQ" /\ r.m_cmd_id = 0
  \/ \E t \in Issued : Ask[t].sip = ConnOf[c] /\ r = cmd[t]

Codes == {"RA_SUC", "RA_FAIL", "RA_BAD_PARAMETER", "RA_VERSION_INCONFORMITY"}

\* What it carries back: errors of calls, and answers to tasks of its SipProxy.
AnswerOK(c, r) ==
  r.m_cmd_type # "RA_ERROR_CALL_RESP" =>
    \E t \in Issued :
      /\ Ask[t].sip = ConnOf[c] /\ cmd[t].m_cmd_id = r.m_cmd_id /\ answers[t] = 1
      /\ "m_ec" \in DOMAIN r => r.m_ec \in Codes
      /\ r.m_cmd_type = "RA_GET_PORTS_RESP" =>
           /\ Ask[t].type = "RA_GET_PORTS_REQ" /\ "m_ec" \in DOMAIN r
           /\ r.m_ec = "RA_SUC" => r.m_portpair \in Pair

ServerTypes ==
  /\ conn \in [Conn -> {"new", "open", "closed"}]
  /\ posted \subseteq Conn /\ \A c \in posted : conn[c] # "new"
  /\ free \in Nat /\ writing \in Nat /\ lost \in Nat
  /\ holder \in [Pair -> (Sip \X Nat) \cup {None}] /\ call_at \in [Pair -> DOMAIN Ask \cup {None}]
  /\ m_cid \in [Sip -> Conn \cup {None}] /\ reported \subseteq Task
  /\ handled \subseteq Task

ClientTypes ==
  /\ script \in Script /\ g_cmdid \in [Sip -> Nat]
  /\ stage \in [Task -> {"new", "doing", "done"}] /\ outcome \in [Task -> Outcomes]
  /\ told \in [Sip -> Pair \cup {None}] /\ answers \in [Task -> {0, 1}]
  /\ DOMAIN cmd = Task

JobOK(w) ==
  /\ DOMAIN job = Worker
  /\ job[w] = [pc |-> job[w].pc, conn |-> job[w].conn, req |-> job[w].req]
  /\ job[w].pc \in {"idle", "handle", "update"}
  /\ job[w].pc # "idle" => job[w].conn \in Conn /\ job[w].req.m_cmd_type \in DOMAIN Class
  /\ job[w].pc = "handle" => RequestOK(job[w].conn, job[w].req)

LinksOK ==
  /\ DOMAIN up = Conn /\ DOMAIN down = Conn
  /\ \A c \in Conn :
       /\ IsSeq(up[c]) /\ IsSeq(down[c])
       /\ conn[c] # "open" => up[c] = << >> /\ down[c] = << >>
       /\ \A i \in 1 .. Len(up[c]) : RequestOK(c, up[c][i])
       /\ \A i \in 1 .. Len(down[c]) : AnswerOK(c, down[c][i])

TaskOK(t) ==
  /\ stage[t] = "new" => t \notin Issued /\ outcome[t] = None
  /\ stage[t] = "doing" => t \in Issued
  /\ outcome[t] # None => stage[t] = "done"
  /\ t \notin Issued => answers[t] = 0
  /\ t \in Issued =>
       /\ t \in DOMAIN Ask /\ cmd[t].m_cmd_type = Ask[t].type
       /\ cmd[t].m_cmd_id \in 1 .. g_cmdid[Ask[t].sip]
       /\ \A u \in script.before[t] : stage[u] = "done"
       /\ Ask[t].type \in GivesBack \cup {"RA_GET_PORTS_REQ"} =>
            cmd[t].m_sipproxy_id = Ask[t].sip
       /\ Ask[t].type = "RA_GET_PORTS_REQ" => cmd[t].m_user_id = Ask[t].user
       /\ Ask[t].type = "RA_START_CALL_REQ" => cmd[t].m_call_id = Ask[t].call

\* A SipProxy numbers its requests.
IdsDiffer ==
  /\ \A t, u \in Issued :
       Ask[t].sip = Ask[u].sip /\ cmd[t].m_cmd_id = cmd[u].m_cmd_id => t = u
  /\ \A s \in Sip : g_cmdid[s] <= Cardinality({t \in Task : stage[t] # "new"})

\* A request is on its way at one place of one connection, or with one worker,
\* and has not been answered then.
WaitsAt(t, c, i) == i \in 1 .. Len(up[c]) /\ t \in TaskOf(c, up[c][i])
InHand(t, w) == job[w].pc = "handle" /\ t \in TaskOf(job[w].conn, Req(w))
OnItsWay(t) == \/ \E c \in Conn : \E i \in 1 .. Len(up[c]) : WaitsAt(t, c, i)
               \/ \E w \in Worker : InHand(t, w)
RequestInOnePlace(t) ==
  /\ \A c, d \in Conn : \A i, j \in Nat :
       WaitsAt(t, c, i) /\ WaitsAt(t, d, j) => c = d /\ i = j
  /\ \A w, v \in Worker : InHand(t, w) /\ InHand(t, v) => w = v
  /\ \A c \in Conn, i \in Nat, w \in Worker : ~ (WaitsAt(t, c, i) /\ InHand(t, w))
  /\ OnItsWay(t) => answers[t] = 0

IInv ==
  /\ ServerTypes /\ ClientTypes /\ LinksOK /\ IdsDiffer
  /\ \A w \in Worker : JobOK(w)
  /\ \A t \in Task : TaskOK(t) /\ RequestInOnePlace(t)
  /\ RequestBufferInOnePlace

-----------------------------------------------------------------------------
(* The pair of a SipProxy that follows the rules. *)

TimedOut(s) == \E t \in DOMAIN Ask : Ask[t].sip = s /\ outcome[t] = "RA_TIMEOUT"
Follows(s) == script.told[s] = None /\ ~ TimedOut(s) /\ ~ AsksWhileGivingBack(s)
KeptFor(s, p) == holder[p] # None /\ holder[p][1] = s

\* Its tasks wait while their requests are on their way.
WaitsForAnswers(s) == \A t \in Issued : Ask[t].sip = s /\ OnItsWay(t) => stage[t] = "doing"

\* What it has been told of is kept for it, and not about to be given back.
HasItsPair(s) ==
  told[s] # None =>
    /\ KeptFor(s, told[s])
    /\ \A t \in Issued : Ask[t].sip = s /\ Ask[t].type \in GivesBack => ~ OnItsWay(t)

\* What it will be told of is kept for it.
PairComes(s) ==
  \A c \in Conn : \A i \in 1 .. Len(down[c]) :
    /\ ConnOf[c] = s /\ down[c][i].m_cmd_type = "RA_GET_PORTS_RESP"
    /\ down[c][i].m_ec = "RA_SUC"
    => \A t \in TaskOf(c, down[c][i]) :
         stage[t] = "doing" => KeptFor(s, down[c][i].m_portpair)

PairInv ==
  \A s \in Sip : Follows(s) => WaitsForAnswers(s) /\ HasItsPair(s) /\ PairComes(s)


-----------------------------------------------------------------------------
(* Commands. *)

LEMMA HeadFields ==
  \A type : {"m_cmd_type", "m_cmd_id", "m_version", "m_passwd"}
              \subseteq ToSet(CmdHead.ser) \cup ToSet(Class[type].ser)
<1> DEFINE ser == CmdHead.ser
<1>1. /\ ser[2] = "m_cmd_type" /\ ser[3] = "m_version" /\ ser[4] = "m_cmd_id"
      /\ ser[5] = "m_passwd" /\ {2, 3, 4, 5} \subseteq DOMAIN ser
  BY DEF CmdHead
<1>2. {"m_cmd_type", "m_cmd_id", "m_version", "m_passwd"} \subseteq ToSet(ser)
  BY <1>1 DEF ToSet
<1> QED BY <1>2

LEMMA ConcatToSet ==
  ASSUME NEW S, NEW s \in Seq(S), NEW t \in Seq(S)
  PROVE  s \o t \in Seq(S) /\ ToSet(s) \subseteq ToSet(s \o t) /\ ToSet(t) \subseteq ToSet(s \o t)
<1>1. /\ s \o t \in Seq(S) /\ DOMAIN (s \o t) = 1 .. Len(s) + Len(t)
      /\ \A i \in 1 .. Len(s) + Len(t) :
           (s \o t)[i] = IF i <= Len(s) THEN s[i] ELSE t[i - Len(s)]
  BY ConcatProperties, LenProperties
<1>2. /\ Len(s) \in Nat /\ DOMAIN s = 1 .. Len(s)
      /\ Len(t) \in Nat /\ DOMAIN t = 1 .. Len(t)
  BY LenProperties
<1>3. ASSUME NEW i \in DOMAIN s
      PROVE  i \in DOMAIN (s \o t) /\ (s \o t)[i] = s[i]
  BY <1>1, <1>2
<1>4. ASSUME NEW i \in DOMAIN t
      PROVE  Len(s) + i \in DOMAIN (s \o t) /\ (s \o t)[Len(s) + i] = t[i]
  BY <1>1, <1>2
<1>5. ToSet(s) \subseteq ToSet(s \o t)
  BY <1>3 DEF ToSet
<1>6. ToSet(t) \subseteq ToSet(s \o t)
  <2> SUFFICES ASSUME NEW i \in DOMAIN t
               PROVE  \E j \in DOMAIN (s \o t) : (s \o t)[j] = t[i]
    BY DEF ToSet
  <2> QED BY <1>4
<1> QED BY <1>1, <1>5, <1>6

\* A new command has its type, and the number it is given.
LEMMA NewCmdHead ==
  \A type, fields : "m_cmd_type" \notin DOMAIN fields =>
         /\ NewCmd(type, fields).m_cmd_type = type
         /\ NewCmd(type, fields).m_cmd_id =
              IF "m_cmd_id" \in DOMAIN fields THEN fields["m_cmd_id"] ELSE 0
         /\ DOMAIN NewCmd(type, fields) = ToSet(CmdHead.ser) \cup ToSet(Class[type].ser)
         /\ \A f \in DOMAIN NewCmd(type, fields) : f \in DOMAIN fields =>
              NewCmd(type, fields)[f] = fields[f]
<1>1. "m_cmd_id" \notin ListFields
  BY DEF ListFields, PathInfoInner, ShortLinkInfo
<1> QED BY HeadFields, <1>1 DEF NewCmd

\* An answer has the number of its request, and the fields of its class.
LEMMA RespToAll ==
  ASSUME NEW req, NEW type, NEW fields,
         "m_cmd_type" \notin DOMAIN fields, "m_cmd_id" \notin DOMAIN fields
  PROVE  /\ RespTo(req, type, fields).m_cmd_type = type
         /\ RespTo(req, type, fields).m_cmd_id = req.m_cmd_id
         /\ \A f : f \in DOMAIN RespTo(req, type, fields) <=>
                   f \in ToSet(CmdHead.ser) \cup ToSet(Class[type].ser)
         /\ \A f \in DOMAIN RespTo(req, type, fields) : f \in DOMAIN fields =>
              RespTo(req, type, fields)[f] = fields[f]
<1> DEFINE all == [f \in {"m_passwd", "m_version", "m_cmd_id"} \cup DOMAIN fields |->
                     IF f \in DOMAIN fields THEN fields[f] ELSE req[f]]
           r == NewCmd(type, all)
<1>1. "m_cmd_type" \notin DOMAIN all
  OBVIOUS
<1>2. /\ r.m_cmd_type = type
      /\ r.m_cmd_id = IF "m_cmd_id" \in DOMAIN all THEN all["m_cmd_id"] ELSE 0
      /\ DOMAIN r = ToSet(CmdHead.ser) \cup ToSet(Class[type].ser)
      /\ \A f \in DOMAIN r : f \in DOMAIN all => r[f] = all[f]
  <2> HIDE DEF all
  <2>1. \A g : "m_cmd_type" \notin DOMAIN g =>
          /\ NewCmd(type, g).m_cmd_type = type
          /\ NewCmd(type, g).m_cmd_id = IF "m_cmd_id" \in DOMAIN g THEN g["m_cmd_id"] ELSE 0
          /\ DOMAIN NewCmd(type, g) = ToSet(CmdHead.ser) \cup ToSet(Class[type].ser)
          /\ \A f \in DOMAIN NewCmd(type, g) : f \in DOMAIN g => NewCmd(type, g)[f] = g[f]
    BY NewCmdHead
  <2> QED BY <1>1, <2>1
<1>3. "m_cmd_id" \in DOMAIN all /\ all["m_cmd_id"] = req["m_cmd_id"]
      /\ \A f \in DOMAIN fields : f \in DOMAIN all /\ all[f] = fields[f]
  OBVIOUS
<1>4. RespTo(req, type, fields) = r
  BY DEF RespTo
<1> HIDE DEF all, r
<1> QED BY <1>2, <1>3, <1>4

\* What the classes carry that the proofs look at.
LEMMA ClassFields ==
  /\ \A type \in GivesBack \cup {"RA_GET_PORTS_REQ"} :
       "m_sipproxy_id" \in ToSet(Class[type].ser)
  /\ "m_user_id" \in ToSet(Class["RA_GET_PORTS_REQ"].ser)
  /\ "m_call_id" \in ToSet(Class["RA_START_CALL_REQ"].ser)
  /\ "m_ec" \in ToSet(Class["RA_GET_PORTS_RESP"].ser)
  /\ "m_portpair" \in ToSet(Class["RA_GET_PORTS_RESP"].ser)
  /\ "m_ec" \notin ToSet(CmdHead.ser) \cup ToSet(Class["RA_SHAKE_HAND_RESP"].ser)
  /\ ReqTypes \cup {"RA_KEEP_ALIVE_REQ"} \subseteq DOMAIN Class
<1>1. /\ Class["RA_GET_PORTS_REQ"] = GetPortsReq
      /\ Class["RA_FREE_PORTS_REQ"] = FreePortsReq
      /\ Class["RA_SIPPROXY_OFFLINE_REQ"] = SipproxyOfflineReq
      /\ Class["RA_START_CALL_REQ"] = StartCallReq
      /\ Class["RA_GET_PORTS_RESP"] = GetPortsResp
      /\ Class["RA_SHAKE_HAND_RESP"] = ShakeHandResp
      /\ ReqTypes \cup {"RA_KEEP_ALIVE_REQ"} \subseteq DOMAIN Class
  BY DEF Class, ReqTypes
<1>2. /\ "m_sipproxy_id" \in ToSet(GetPortsReq.ser)
      /\ "m_user_id" \in ToSet(GetPortsReq.ser)
  <2>1. /\ 1 \in DOMAIN GetPortsReq.ser /\ GetPortsReq.ser[1] = "m_user_id"
        /\ 2 \in DOMAIN GetPortsReq.ser /\ GetPortsReq.ser[2] = "m_sipproxy_id"
    BY DEF GetPortsReq
  <2> QED BY <2>1 DEF ToSet
<1>3. "m_sipproxy_id" \in ToSet(FreePortsReq.ser)
  <2>1. 3 \in DOMAIN FreePortsReq.ser /\ FreePortsReq.ser[3] = "m_sipproxy_id"
    BY DEF FreePortsReq
  <2> QED BY <2>1 DEF ToSet
<1>4. "m_sipproxy_id" \in ToSet(SipproxyOfflineReq.ser)
  <2>1. 1 \in DOMAIN SipproxyOfflineReq.ser /\ SipproxyOfflineReq.ser[1] = "m_sipproxy_id"
    BY DEF SipproxyOfflineReq
  <2> QED BY <2>1 DEF ToSet
<1>5. "m_call_id" \in ToSet(StartCallReq.ser)
  <2> DEFINE a == <<"m_sipproxy_id", "m_sipproxy_fake_id", "m_user_id", "m_portpair">>
             b == CallInfoInner.ser
             d == <<"m_path_info", "m_short_link_info">>
             S == {a[i] : i \in 1 .. 4} \cup {b[i] : i \in 1 .. 11} \cup {d[i] : i \in 1 .. 2}
  <2>1. a \in Seq(S) /\ Len(a) = 4 /\ d \in Seq(S) /\ Len(d) = 2
    OBVIOUS
  <2>2. b \in Seq(S) /\ Len(b) = 11 /\ b[7] = "m_call_id"
    BY DEF CallInfoInner
  <2>3. StartCallReq.ser = (a \o b) \o d
    BY DEF StartCallReq
  <2> HIDE DEF a, b, d, S
  <2>4. "m_call_id" \in ToSet(b)
    <3>1. 7 \in DOMAIN b
      BY <2>2
    <3> QED BY <2>2, <3>1 DEF ToSet
  <2>5. a \o b \in Seq(S) /\ ToSet(b) \subseteq ToSet(a \o b)
    BY <2>1, <2>2, ConcatToSet
  <2>6. ToSet(a \o b) \subseteq ToSet((a \o b) \o d)
    BY <2>1, <2>5, ConcatToSet
  <2> QED BY <2>3, <2>4, <2>5, <2>6
<1>6. "m_ec" \in ToSet(GetPortsResp.ser) /\ "m_portpair" \in ToSet(GetPortsResp.ser)
  <2>1. /\ 1 \in DOMAIN GetPortsResp.ser /\ GetPortsResp.ser[1] = "m_ec"
        /\ 3 \in DOMAIN GetPortsResp.ser /\ GetPortsResp.ser[3] = "m_portpair"
    BY DEF GetPortsResp
  <2> QED BY <2>1 DEF ToSet
<1>7. "m_ec" \notin ToSet(CmdHead.ser)
  BY DEF CmdHead, ToSet
<1>8. "m_ec" \notin ToSet(ShakeHandResp.ser)
  BY DEF ShakeHandResp, ToSet
<1>9. \A type \in GivesBack : type \in {"RA_FREE_PORTS_REQ", "RA_SIPPROXY_OFFLINE_REQ"}
  BY DEF GivesBack
<1> QED BY <1>1, <1>2, <1>3, <1>4, <1>5, <1>6, <1>7, <1>8, <1>9

-----------------------------------------------------------------------------
(* Queues. *)

LEMMA SeqIsSeq ==
  ASSUME NEW S, NEW q \in Seq(S)
  PROVE  IsSeq(q)
<1>1. Len(q) \in Nat /\ DOMAIN q = 1 .. Len(q) /\ q \in [1 .. Len(q) -> S]
  BY LenProperties
<1> QED BY <1>1 DEF IsSeq

LEMMA SeqFacts ==
  ASSUME NEW q, IsSeq(q)
  PROVE  /\ Len(q) \in Nat /\ (q = << >> <=> Len(q) = 0)
         /\ \A r : /\ IsSeq(Append(q, r)) /\ Len(Append(q, r)) = Len(q) + 1
                   /\ \A i \in 1 .. Len(q) : Append(q, r)[i] = q[i]
                   /\ Append(q, r)[Len(q) + 1] = r
         /\ q # << >> => /\ IsSeq(Tail(q)) /\ Len(Tail(q)) = Len(q) - 1
                         /\ \A i \in 1 .. Len(q) - 1 : Tail(q)[i] = q[i + 1]
                         /\ Head(q) = q[1] /\ Len(q) >= 1
<1> DEFINE S == {q[i] : i \in DOMAIN q}
<1>1. q \in Seq(S)
  BY DEF IsSeq
<1> HIDE DEF S
<1>2. Len(q) \in Nat /\ (q = << >> <=> Len(q) = 0)
  BY <1>1, LenProperties, EmptySeq
<1>3. ASSUME NEW r
      PROVE  /\ IsSeq(Append(q, r)) /\ Len(Append(q, r)) = Len(q) + 1
             /\ \A i \in 1 .. Len(q) : Append(q, r)[i] = q[i]
             /\ Append(q, r)[Len(q) + 1] = r
  <2>1. q \in Seq(S \cup {r})
    BY <1>1, LenProperties
  <2>2. /\ Append(q, r) \in Seq(S \cup {r}) /\ Len(Append(q, r)) = Len(q) + 1
        /\ \A i \in 1 .. Len(q) : Append(q, r)[i] = q[i]
        /\ Append(q, r)[Len(q) + 1] = r
    BY <2>1, AppendProperties
  <2> QED BY <2>2, SeqIsSeq
<1>4. ASSUME q # << >>
      PROVE  /\ IsSeq(Tail(q)) /\ Len(Tail(q)) = Len(q) - 1
             /\ \A i \in 1 .. Len(q) - 1 : Tail(q)[i] = q[i + 1]
             /\ Head(q) = q[1] /\ Len(q) >= 1
  <2>1. /\ Head(q) = q[1] /\ Tail(q) \in Seq(S) /\ Len(Tail(q)) = Len(q) - 1
        /\ \A i \in 1 .. Len(Tail(q)) : Tail(q)[i] = q[i + 1]
    BY <1>1, <1>4, HeadTailProperties
  <2>2. IsSeq(Tail(q))
    BY <2>1, SeqIsSeq
  <2>3. Len(q) >= 1
    BY <1>2, <1>4
  <2> QED BY <2>1, <2>2, <2>3
<1> QED BY <1>2, <1>3, <1>4

LEMMA EmptyIsSeq == IsSeq(<< >>) /\ Len(<< >>) = 0
BY SeqIsSeq, EmptySeq

LEMMA OneIsSeq == \A r : IsSeq(<<r>>) /\ Len(<<r>>) = 1 /\ <<r>>[1] = r
<1> SUFFICES ASSUME NEW r PROVE IsSeq(<<r>>) /\ Len(<<r>>) = 1 /\ <<r>>[1] = r
  OBVIOUS
<1>1. <<r>> \in Seq({r}) /\ Len(<<r>>) = 1 /\ <<r>>[1] = r
  OBVIOUS
<1> QED BY <1>1, SeqIsSeq

-----------------------------------------------------------------------------
(* Tasks. *)

LEMMA AskFacts ==
  ASSUME script \in Script
  PROVE  /\ DOMAIN Ask \subseteq Task /\ script.told \in [Sip -> Pair \cup {None}]
         /\ \A t \in DOMAIN Ask : /\ Ask[t].sip \in Sip /\ Ask[t].type \in ReqTypes
                                  /\ Ask[t].user \in Nat /\ Ask[t].call \in DOMAIN Ask
                                  /\ script.before[t] \subseteq Task
BY ScriptAssumption DEF Ask

LEMMA TaskOfFacts ==
  ASSUME IInv, NEW c, NEW r
  PROVE  /\ TaskOf(c, r) = {t \in Issued : /\ Ask[t].sip = ConnOf[c]
                                           /\ cmd[t].m_cmd_id = r.m_cmd_id}
         /\ \A t, u \in TaskOf(c, r) : t = u
         /\ r.m_cmd_id = 0 => TaskOf(c, r) = {}
<1>1. TaskOf(c, r) = {t \in Issued : /\ Ask[t].sip = ConnOf[c]
                                     /\ cmd[t].m_cmd_id = r.m_cmd_id}
  BY DEF TaskOf, Issued
<1>2. \A t, u \in TaskOf(c, r) : t = u
  BY <1>1 DEF IInv, IdsDiffer
<1> QED BY <1>1, <1>2 DEF Issued

\* A request on its way is a keep-alive, of no task, or the one of a task.
LEMMA TaskOfRequest ==
  ASSUME IInv, NEW c \in Conn, NEW r, RequestOK(c, r)
  PROVE  /\ r.m_cmd_type = "RA_KEEP_ALIVE_REQ" => TaskOf(c, r) = {}
         /\ r.m_cmd_type # "RA_KEEP_ALIVE_REQ" =>
              \E t \in Issued : TaskOf(c, r) = {t} /\ Ask[t].sip = ConnOf[c] /\ r = cmd[t]
         /\ r.m_cmd_type \in DOMAIN Class
<1>1. CASE r.m_cmd_type = "RA_KEEP_ALIVE_REQ" /\ r.m_cmd_id = 0
  BY <1>1, TaskOfFacts, ClassFields
<1>2. CASE \E t \in Issued : Ask[t].sip = ConnOf[c] /\ r = cmd[t]
  <2>1. PICK t \in Issued : Ask[t].sip = ConnOf[c] /\ r = cmd[t]
    BY <1>2
  <2>2. t \in TaskOf(c, r) /\ TaskOf(c, r) = {t}
    BY <2>1, TaskOfFacts
  <2>3. t \in DOMAIN Ask /\ r.m_cmd_type = Ask[t].type /\ Ask[t].type \in ReqTypes
    BY <2>1, AskFacts DEF IInv, ClientTypes, TaskOK, Issued
  <2>4. r.m_cmd_type # "RA_KEEP_ALIVE_REQ"
    BY <2>3 DEF ReqTypes
  <2> QED BY <2>1, <2>2, <2>3, <2>4, ClassFields
<1> QED BY <1>1, <1>2 DEF RequestOK

-----------------------------------------------------------------------------
(* What a step leaves alone. *)

LEMMA TasksKept ==
  ASSUME IInv, UNCHANGED <<script, taskVars, answers>>
  PROVE  ClientTypes' /\ IdsDiffer' /\ \A t \in Task : TaskOK(t)'
<1> USE DEF IInv, taskVars
<1>1. ClientTypes'
  BY DEF ClientTypes
<1>2. IdsDiffer'
  BY DEF IdsDiffer, Issued, Ask
<1>3. \A t \in Task : TaskOK(t)'
  BY DEF TaskOK, Issued, Ask
<1> QED BY <1>1, <1>2, <1>3

LEMMA JobsKept ==
  ASSUME IInv, UNCHANGED <<job, cmd, script>>
  PROVE  \A w \in Worker : JobOK(w)'
BY DEF IInv, JobOK, RequestOK, Issued, Ask

\* A request that is at fewer places than before is at one at most.
LEMMA FewerPlaces ==
  ASSUME NEW t \in Task, RequestInOnePlace(t),
         \A c \in Conn : \A i \in Nat : WaitsAt(t, c, i)' => WaitsAt(t, c, i),
         \A w \in Worker : InHand(t, w)' => InHand(t, w),
         OnItsWay(t)' => answers'[t] = 0
  PROVE  RequestInOnePlace(t)'
BY DEF RequestInOnePlace

LEMMA PlacesKept ==
  ASSUME IInv, UNCHANGED <<up, job, cmd, script, answers>>
  PROVE  \A t \in Task : RequestInOnePlace(t)'
<1> SUFFICES ASSUME NEW t \in Task PROVE RequestInOnePlace(t)'
  OBVIOUS
<1>1. \A c \in Conn : \A i \in Nat : WaitsAt(t, c, i)' <=> WaitsAt(t, c, i)
  BY DEF WaitsAt, TaskOf, Ask
<1>2. \A w \in Worker : InHand(t, w)' <=> InHand(t, w)
  BY DEF InHand, TaskOf, Ask, Req
<1>3. OnItsWay(t)' => OnItsWay(t)
  BY DEF OnItsWay, WaitsAt, InHand, TaskOf, Ask, Req
<1> QED BY <1>1, <1>2, <1>3, FewerPlaces DEF IInv, RequestInOnePlace

LEMMA UpKept ==
  ASSUME IInv, UNCHANGED <<up, cmd, script>>
  PROVE  \A c \in Conn : \A i \in 1 .. Len(up'[c]) : RequestOK(c, up[c][i])'
<1>1. \A c \in Conn : \A i \in 1 .. Len(up[c]) : RequestOK(c, up[c][i])
  BY DEF IInv, LinksOK
<1> QED BY <1>1 DEF RequestOK, Issued, Ask

LEMMA DownKept ==
  ASSUME IInv, UNCHANGED <<down, cmd, script, answers>>
  PROVE  \A c \in Conn : \A i \in 1 .. Len(down'[c]) : AnswerOK(c, down[c][i])'
<1>1. \A c \in Conn : \A i \in 1 .. Len(down[c]) : AnswerOK(c, down[c][i])
  BY DEF IInv, LinksOK
<1> QED BY <1>1 DEF AnswerOK, Issued, Ask

\* A request of its own or of a SipProxy stays one of an issued task.
LEMMA LinksKept ==
  ASSUME IInv, UNCHANGED <<up, down, cmd, script, answers>>,
         \A c \in Conn : conn'[c] # "open" => up[c] = << >> /\ down[c] = << >>
  PROVE  LinksOK'
<1> QED BY UpKept, DownKept DEF IInv, LinksOK

LEMMA CountingBuffers ==
  ASSUME IInv
  PROVE  /\ Cardinality(posted) \in Nat /\ Cardinality(Handling) \in Nat
         /\ \A c \in Conn : /\ c \notin posted => Cardinality(posted \cup {c}) = Cardinality(posted) + 1
                            /\ c \in posted => Cardinality(posted \ {c}) = Cardinality(posted) - 1
         /\ \A w \in Worker :
              /\ w \notin Handling => Cardinality(Handling \cup {w}) = Cardinality(Handling) + 1
              /\ w \in Handling => Cardinality(Handling \ {w}) = Cardinality(Handling) - 1
<1>1. IsFiniteSet(posted) /\ IsFiniteSet(Handling)
  BY ConnAssumption, ServerAssumption, FS_Subset DEF IInv, ServerTypes, Handling
<1> QED BY <1>1, FS_CardinalityType, FS_AddElement, FS_RemoveElement

\* Where the buffers are is all a step of the server's connections changes.
LEMMA OnlyBuffers ==
  ASSUME IInv, UNCHANGED <<script, taskVars, answers, up, down, job>>,
         ServerTypes', RequestBufferInOnePlace',
         \A c \in Conn : conn'[c] # "open" => up[c] = << >> /\ down[c] = << >>
  PROVE  IInv'
<1>1. LinksOK'
  BY LinksKept DEF taskVars
<1>2. \A w \in Worker : JobOK(w)'
  BY JobsKept DEF taskVars
<1>3. \A t \in Task : RequestInOnePlace(t)'
  BY PlacesKept DEF taskVars
<1> QED BY <1>1, <1>2, <1>3, TasksKept DEF IInv

LEMMA HandlingKept ==
  ASSUME UNCHANGED job
  PROVE  Handling' = Handling
BY DEF Handling

LEMMA OpenStep ==
  ASSUME IInv, NEW c \in Conn, Open(c)
  PROVE  IInv'
<1> USE DEF Open, portVars
<1>1. c \notin posted /\ free \in Nat
  BY DEF IInv, ServerTypes
<1>2. ServerTypes'
  BY <1>1 DEF IInv, ServerTypes, Ask
<1>3. RequestBufferInOnePlace'
  BY <1>1, CountingBuffers, HandlingKept DEF RequestBufferInOnePlace, IInv, ServerTypes
<1>4. \A d \in Conn : conn'[d] # "open" => up[d] = << >> /\ down[d] = << >>
  BY DEF IInv, LinksOK, ServerTypes
<1> QED BY <1>2, <1>3, <1>4, OnlyBuffers

LEMMA ReadFailsStep ==
  ASSUME IInv, NEW c \in Conn, ReadFails(c)
  PROVE  IInv'
<1> USE DEF ReadFails, portVars
<1>1. ServerTypes'
  BY DEF IInv, ServerTypes, Ask
<1>2. RequestBufferInOnePlace'
  BY CountingBuffers, HandlingKept DEF RequestBufferInOnePlace, IInv, ServerTypes
<1>3. \A d \in Conn : conn'[d] # "open" => up[d] = << >> /\ down[d] = << >>
  BY DEF IInv, LinksOK
<1> QED BY <1>1, <1>2, <1>3, OnlyBuffers

LEMMA WriteDoneStep ==
  ASSUME IInv, WriteDone
  PROVE  IInv'
<1> USE DEF WriteDone, portVars
<1>1. ServerTypes'
  BY DEF IInv, ServerTypes, Ask
<1>2. RequestBufferInOnePlace'
  BY CountingBuffers, HandlingKept DEF RequestBufferInOnePlace, IInv, ServerTypes
<1>3. \A d \in Conn : conn'[d] # "open" => up[d] = << >> /\ down[d] = << >>
  BY DEF IInv, LinksOK
<1> QED BY <1>1, <1>2, <1>3, OnlyBuffers

\* A connection that is closed loses what it carries.
LEMMA CloseLinks ==
  ASSUME IInv, NEW c \in Conn, Close(c), UNCHANGED <<script, cmd, job, answers>>
  PROVE  /\ LinksOK' /\ \A t \in Task : RequestInOnePlace(t)'
         /\ conn' \in [Conn -> {"new", "open", "closed"}]
         /\ conn'[c] = "closed" /\ \A d \in Conn : d # c => conn'[d] = conn[d]
<1>1. /\ DOMAIN up = Conn /\ DOMAIN down = Conn
      /\ conn \in [Conn -> {"new", "open", "closed"}]
  BY DEF IInv, LinksOK, ServerTypes
<1>2. /\ DOMAIN up' = Conn /\ DOMAIN down' = Conn
      /\ \A d \in Conn : d # c => up'[d] = up[d] /\ down'[d] = down[d] /\ conn'[d] = conn[d]
      /\ up'[c] = << >> /\ down'[c] = << >> /\ conn'[c] = "closed"
      /\ conn' \in [Conn -> {"new", "open", "closed"}]
  BY <1>1 DEF Close
<1>3. ASSUME NEW d \in Conn
      PROVE  /\ IsSeq(up'[d]) /\ IsSeq(down'[d])
             /\ conn'[d] # "open" => up'[d] = << >> /\ down'[d] = << >>
             /\ \A i \in 1 .. Len(up'[d]) : RequestOK(d, up[d][i])'
             /\ \A i \in 1 .. Len(down'[d]) : AnswerOK(d, down[d][i])'
  <2>1. CASE d = c
    BY <2>1, <1>2, EmptyIsSeq
  <2>2. CASE d # c
    <3>1. \A i \in 1 .. Len(up[d]) : RequestOK(d, up[d][i])
      BY DEF IInv, LinksOK
    <3>2. \A i \in 1 .. Len(down[d]) : AnswerOK(d, down[d][i])
      BY DEF IInv, LinksOK
    <3>3. \A i \in 1 .. Len(up'[d]) : RequestOK(d, up[d][i])'
      BY <3>1, <2>2, <1>2 DEF RequestOK, Issued, Ask
    <3>4. \A i \in 1 .. Len(down'[d]) : AnswerOK(d, down[d][i])'
      BY <3>2, <2>2, <1>2 DEF AnswerOK, Issued, Ask
    <3> QED BY <3>3, <3>4, <2>2, <1>2 DEF IInv, LinksOK
  <2> QED BY <2>1, <2>2
<1>4. LinksOK'
  BY <1>2, <1>3 DEF LinksOK
<1>5. ASSUME NEW t \in Task
      PROVE  RequestInOnePlace(t)'
  <2>1. \A d \in Conn : \A i \in Nat : WaitsAt(t, d, i)' => WaitsAt(t, d, i)
    <3> SUFFICES ASSUME NEW d \in Conn, NEW i \in Nat, WaitsAt(t, d, i)'
                 PROVE  WaitsAt(t, d, i)
      OBVIOUS
    <3>1. d # c
      BY <1>2, EmptyIsSeq DEF WaitsAt
    <3> QED BY <3>1, <1>2 DEF WaitsAt, TaskOf, Ask
  <2>2. \A w \in Worker : InHand(t, w)' <=> InHand(t, w)
    BY DEF InHand, TaskOf, Ask, Req
  <2>3. OnItsWay(t)' => OnItsWay(t)
    <3>1. ASSUME NEW d \in Conn, NEW i \in 1 .. Len(up'[d]), WaitsAt(t, d, i)'
          PROVE  OnItsWay(t)
      BY <3>1, <2>1 DEF OnItsWay, WaitsAt
    <3> QED BY <3>1, <2>2 DEF OnItsWay
  <2> QED BY <2>1, <2>2, <2>3, FewerPlaces DEF IInv, RequestInOnePlace
<1> QED BY <1>2, <1>4, <1>5

LEMMA DisconnectStep ==
  ASSUME IInv, NEW c \in Conn, Disconnect(c)
  PROVE  IInv'
<1> USE DEF Disconnect, portVars, bufVars, taskVars
<1>1. /\ LinksOK' /\ \A t \in Task : RequestInOnePlace(t)'
      /\ conn' \in [Conn -> {"new", "open", "closed"}]
      /\ conn'[c] = "closed" /\ \A d \in Conn : d # c => conn'[d] = conn[d]
  BY CloseLinks
<1>2. ServerTypes'
  BY <1>1 DEF IInv, ServerTypes, Ask
<1>3. RequestBufferInOnePlace'
  BY HandlingKept DEF IInv, RequestBufferInOnePlace
<1> QED BY <1>1, <1>2, <1>3, TasksKept, JobsKept DEF IInv

LEMMA KeepAliveStep ==
  ASSUME IInv, NEW c \in Conn, KeepAlive(c)
  PROVE  IInv'
<1> USE DEF KeepAlive, portVars, bufVars, taskVars
<1>1. PICK r : /\ up' = [up EXCEPT ![c] = <<r>>]
               /\ r.m_cmd_type = "RA_KEEP_ALIVE_REQ" /\ r.m_cmd_id = 0
  <2> DEFINE s == ConnOf[c]
             fields == [m_sipproxy_id |-> s, m_sipproxy_fake_id |-> s,
                        m_version |-> script.version[s]]
  <2>1. "m_cmd_type" \notin DOMAIN fields /\ "m_cmd_id" \notin DOMAIN fields
    OBVIOUS
  <2>2. up' = [up EXCEPT ![c] = <<NewCmd("RA_KEEP_ALIVE_REQ", fields)>>]
    OBVIOUS
  <2> HIDE DEF fields
  <2>3. \A g : "m_cmd_type" \notin DOMAIN g =>
          /\ NewCmd("RA_KEEP_ALIVE_REQ", g).m_cmd_type = "RA_KEEP_ALIVE_REQ"
          /\ NewCmd("RA_KEEP_ALIVE_REQ", g).m_cmd_id = IF "m_cmd_id" \in DOMAIN g THEN g["m_cmd_id"] ELSE 0
    BY NewCmdHead
  <2> QED BY <2>1, <2>2, <2>3
<1>2. /\ DOMAIN up' = Conn /\ up'[c] = <<r>>
      /\ \A d \in Conn : d # c => up'[d] = up[d]
  BY <1>1 DEF IInv, LinksOK
<1>3. IsSeq(up'[c]) /\ Len(up'[c]) = 1 /\ up'[c][1] = r
  BY <1>2, OneIsSeq
<1>4. LinksOK'
  <2>1. ASSUME NEW d \in Conn, NEW i \in 1 .. Len(up'[d])
        PROVE  RequestOK(d, up[d][i])'
    <3>1. CASE d = c
      BY <3>1, <1>1, <1>3 DEF RequestOK
    <3>2. CASE d # c
      BY <3>2, <1>2 DEF IInv, LinksOK, RequestOK, Issued, Ask
    <3> QED BY <3>1, <3>2
  <2>2. \A d \in Conn : \A i \in 1 .. Len(down'[d]) : AnswerOK(d, down[d][i])'
    BY DownKept
  <2>3. \A d \in Conn : /\ IsSeq(up'[d]) /\ IsSeq(down'[d])
                        /\ conn'[d] # "open" => up'[d] = << >> /\ down'[d] = << >>
    BY <1>2, <1>3 DEF IInv, LinksOK
  <2> QED BY <1>2, <2>1, <2>2, <2>3 DEF LinksOK, IInv
<1>5. ASSUME NEW t \in Task
      PROVE  RequestInOnePlace(t)'
  <2>1. \A d \in Conn : \A i \in Nat : WaitsAt(t, d, i)' => WaitsAt(t, d, i)
    <3> SUFFICES ASSUME NEW d \in Conn, NEW i \in Nat, WaitsAt(t, d, i)'
                 PROVE  WaitsAt(t, d, i)
      OBVIOUS
    <3>1. d # c
      <4>1. SUFFICES ASSUME d = c PROVE FALSE
        OBVIOUS
      <4>2. i = 1 /\ up'[d][i] = r
        BY <4>1, <1>3 DEF WaitsAt
      <4> QED BY <4>2, <1>1 DEF WaitsAt, TaskOf
    <3> QED BY <3>1, <1>2 DEF WaitsAt, TaskOf, Ask
  <2>2. \A w \in Worker : InHand(t, w)' <=> InHand(t, w)
    BY DEF InHand, TaskOf, Ask, Req
  <2>3. OnItsWay(t)' => OnItsWay(t)
    <3>1. ASSUME NEW d \in Conn, NEW i \in 1 .. Len(up'[d]), WaitsAt(t, d, i)'
          PROVE  OnItsWay(t)
      <4>1. i \in Nat
        BY <1>2, <1>3, SeqFacts DEF IInv, LinksOK
      <4> QED BY <4>1, <3>1, <2>1 DEF OnItsWay, WaitsAt
    <3> QED BY <3>1, <2>2 DEF OnItsWay
  <2> QED BY <2>1, <2>2, <2>3, FewerPlaces DEF IInv, RequestInOnePlace
<1>6. ServerTypes'
  BY DEF IInv, ServerTypes, Ask
<1>7. RequestBufferInOnePlace'
  BY HandlingKept DEF IInv, RequestBufferInOnePlace
<1> QED BY <1>4, <1>5, <1>6, <1>7, TasksKept, JobsKept DEF IInv

-----------------------------------------------------------------------------
(* The read of a command. *)

LEMMA IdleWorkerIsIdle ==
  ASSUME NEW w \in Worker, w = IdleWorker
  PROVE  job[w].pc = "idle"
BY NoneAssumption DEF IdleWorker

LEMMA ReadDropped ==
  ASSUME IInv, NEW w \in Worker, NEW c \in Conn, ReadCommand(w, c), free = 0
  PROVE  IInv'
<1> USE DEF ReadCommand, portVars, taskVars
<1>1. /\ LinksOK' /\ \A t \in Task : RequestInOnePlace(t)'
      /\ conn' \in [Conn -> {"new", "open", "closed"}]
      /\ conn'[c] = "closed" /\ \A d \in Conn : d # c => conn'[d] = conn[d]
  BY CloseLinks
<1>2. ServerTypes'
  BY <1>1 DEF IInv, ServerTypes, Ask
<1>3. RequestBufferInOnePlace'
  BY CountingBuffers, HandlingKept DEF IInv, ServerTypes, RequestBufferInOnePlace
<1> QED BY <1>1, <1>2, <1>3, TasksKept, JobsKept DEF IInv

LEMMA ReadHandled ==
  ASSUME IInv, NEW w \in Worker, NEW c \in Conn, ReadCommand(w, c), free # 0
  PROVE  IInv'
<1> DEFINE r == up[c][1]
           n == Len(up[c])
<1>1. /\ job' = [job EXCEPT ![w] = [pc |-> "handle", conn |-> c, req |-> Head(up[c])]]
      /\ up' = [up EXCEPT ![c] = Tail(up[c])]
      /\ free' = free - 1 /\ up[c] # << >> /\ c \in posted
      /\ UNCHANGED <<conn, down, posted, writing, lost, portVars, m_cid, reported, script,
                     taskVars, answers, handled>>
  BY DEF ReadCommand
<1>2. job[w].pc = "idle"
  BY IdleWorkerIsIdle DEF ReadCommand
<1>3. /\ IsSeq(up[c]) /\ n \in Nat /\ n >= 1 /\ Head(up[c]) = r
      /\ IsSeq(Tail(up[c])) /\ Len(Tail(up[c])) = n - 1
      /\ \A i \in 1 .. n - 1 : Tail(up[c])[i] = up[c][i + 1]
  BY <1>1, SeqFacts DEF IInv, LinksOK
<1>4. /\ DOMAIN up' = Conn /\ up'[c] = Tail(up[c])
      /\ \A d \in Conn : d # c => up'[d] = up[d]
  BY <1>1 DEF IInv, LinksOK
<1>5. /\ DOMAIN job' = Worker /\ job'[w] = [pc |-> "handle", conn |-> c, req |-> r]
      /\ \A v \in Worker : v # w => job'[v] = job[v]
  BY <1>1, <1>3 DEF IInv, JobOK
<1>6. RequestOK(c, r)
  BY <1>3 DEF IInv, LinksOK
<1>7. LinksOK'
  <2>1. ASSUME NEW d \in Conn, NEW i \in 1 .. Len(up'[d])
        PROVE  RequestOK(d, up[d][i])'
    <3>1. PICK j \in 1 .. Len(up[d]) : up'[d][i] = up[d][j]
      <4>1. CASE d = c
        BY <4>1, <1>3, <1>4
      <4>2. CASE d # c
        BY <4>2, <1>4
      <4> QED BY <4>1, <4>2
    <3>2. RequestOK(d, up[d][j])
      BY DEF IInv, LinksOK
    <3> QED BY <3>1, <3>2, <1>1 DEF RequestOK, Issued, Ask, taskVars
  <2>2. \A d \in Conn : \A i \in 1 .. Len(down'[d]) : AnswerOK(d, down[d][i])'
    BY <1>1, DownKept DEF taskVars
  <2>3. \A d \in Conn : /\ IsSeq(up'[d]) /\ IsSeq(down'[d])
                        /\ conn'[d] # "open" => up'[d] = << >> /\ down'[d] = << >>
    BY <1>1, <1>3, <1>4 DEF IInv, LinksOK
  <2> QED BY <1>1, <1>4, <2>1, <2>2, <2>3 DEF LinksOK, IInv
<1>8. ASSUME NEW v \in Worker
      PROVE  JobOK(v)'
  <2>1. CASE v = w
    <3>1. r.m_cmd_type \in DOMAIN Class
      BY <1>6, TaskOfRequest
    <3>2. RequestOK(job[v].conn, job[v].req)'
      BY <2>1, <1>1, <1>5, <1>6 DEF RequestOK, Issued, Ask, taskVars
    <3> HIDE DEF r
    <3> QED BY <2>1, <3>1, <3>2, <1>5 DEF JobOK
  <2>2. CASE v # w
    BY <2>2, <1>1, <1>5 DEF IInv, JobOK, RequestOK, Issued, Ask, taskVars
  <2> QED BY <2>1, <2>2
<1>9. ASSUME NEW t \in Task
      PROVE  RequestInOnePlace(t)'
  <2> DEFINE Was(d, i) == IF d = c THEN i + 1 ELSE i
  <2>1. ASSUME NEW d \in Conn, NEW i \in Nat, WaitsAt(t, d, i)'
        PROVE  WaitsAt(t, d, Was(d, i)) /\ (d = c => i >= 1)
    <3>1. CASE d = c
      BY <3>1, <2>1, <1>1, <1>3, <1>4 DEF WaitsAt, TaskOf, Ask, taskVars
    <3>2. CASE d # c
      BY <3>2, <2>1, <1>1, <1>4 DEF WaitsAt, TaskOf, Ask, taskVars
    <3> QED BY <3>1, <3>2
  <2>2. ASSUME NEW v \in Worker, v # w
        PROVE  InHand(t, v)' <=> InHand(t, v)
    BY <2>2, <1>1, <1>5 DEF InHand, TaskOf, Ask, Req, taskVars
  <2>3. InHand(t, w)' => WaitsAt(t, c, 1)
    BY <1>1, <1>3, <1>5 DEF InHand, WaitsAt, TaskOf, Ask, Req, taskVars
  <2>4. ~ InHand(t, w)
    BY <1>2 DEF InHand
  <2>5. RequestInOnePlace(t)
    BY DEF IInv
  <2>6. \A d, e \in Conn : \A i, j \in Nat :
          WaitsAt(t, d, i)' /\ WaitsAt(t, e, j)' => d = e /\ i = j
    <3> SUFFICES ASSUME NEW d \in Conn, NEW e \in Conn, NEW i \in Nat, NEW j \in Nat,
                        WaitsAt(t, d, i)', WaitsAt(t, e, j)'
                 PROVE  d = e /\ i = j
      OBVIOUS
    <3>1. WaitsAt(t, d, Was(d, i)) /\ WaitsAt(t, e, Was(e, j))
      BY <2>1
    <3>2. d = e /\ Was(d, i) = Was(e, j)
      BY <3>1, <2>5 DEF RequestInOnePlace
    <3> QED BY <3>2
  <2>7. \A v, x \in Worker : InHand(t, v)' /\ InHand(t, x)' => v = x
    <3>1. ASSUME NEW v \in Worker, v # w, InHand(t, v)', InHand(t, w)'
          PROVE  FALSE
      BY <3>1, <2>2, <2>3, <2>5 DEF RequestInOnePlace
    <3> QED BY <3>1, <2>2, <2>5 DEF RequestInOnePlace
  <2>8. \A d \in Conn, i \in Nat, v \in Worker : ~ (WaitsAt(t, d, i)' /\ InHand(t, v)')
    <3> SUFFICES ASSUME NEW d \in Conn, NEW i \in Nat, NEW v \in Worker,
                        WaitsAt(t, d, i)', InHand(t, v)'
                 PROVE  FALSE
      OBVIOUS
    <3>1. WaitsAt(t, d, Was(d, i)) /\ (d = c => i >= 1)
      BY <2>1
    <3>2. CASE v = w
      <4>1. d = c /\ Was(d, i) = 1
        BY <3>1, <3>2, <2>3, <2>5 DEF RequestInOnePlace
      <4> QED BY <4>1, <3>1
    <3>3. CASE v # w
      BY <3>1, <3>3, <2>2, <2>5 DEF RequestInOnePlace
    <3> QED BY <3>2, <3>3
  <2>9. OnItsWay(t)' => answers'[t] = 0
    <3>1. ASSUME NEW d \in Conn, NEW i \in 1 .. Len(up'[d]), WaitsAt(t, d, i)'
          PROVE  OnItsWay(t)
      <4>1. i \in Nat
        BY <1>3, <1>4, SeqFacts DEF IInv, LinksOK
      <4>2. WaitsAt(t, d, Was(d, i))
        BY <4>1, <3>1, <2>1
      <4> QED BY <4>2 DEF OnItsWay, WaitsAt
    <3>2. ASSUME NEW v \in Worker, InHand(t, v)'
          PROVE  OnItsWay(t)
      <4>1. CASE v = w
        BY <4>1, <3>2, <2>3 DEF OnItsWay, WaitsAt
      <4>2. CASE v # w
        BY <4>2, <3>2, <2>2 DEF OnItsWay
      <4> QED BY <4>1, <4>2
    <3>3. OnItsWay(t)' => OnItsWay(t)
      BY <3>1, <3>2 DEF OnItsWay
    <3> QED BY <3>3, <2>5, <1>1 DEF RequestInOnePlace
  <2> QED BY <2>6, <2>7, <2>8, <2>9 DEF RequestInOnePlace
<1>10. ServerTypes'
  BY <1>1 DEF IInv, ServerTypes, Ask, portVars
<1>11. RequestBufferInOnePlace'
  <2>1. w \notin Handling /\ Handling' = Handling \cup {w}
    BY <1>2, <1>5 DEF Handling
  <2>2. Cardinality(Handling') = Cardinality(Handling) + 1
    BY <2>1, CountingBuffers
  <2> QED BY <2>2, <1>1, CountingBuffers DEF RequestBufferInOnePlace, IInv, ServerTypes
<1> QED BY <1>1, <1>7, <1>8, <1>9, <1>10, <1>11, TasksKept DEF IInv

-----------------------------------------------------------------------------
(* Answers. *)

\* do_back_chores adds an answer to what the connection carries, if it is open.
LEMMA AnswerSent ==
  ASSUME IInv, NEW c \in Conn, NEW r, DoBackChores(c, r),
         UNCHANGED <<conn, up, cmd, script>>,
         \A t \in TaskOf(c, r) : answers[t] = 0,
         r.m_cmd_type # "RA_ERROR_CALL_RESP" =>
           \E t \in TaskOf(c, r) :
             /\ "m_ec" \in DOMAIN r => r.m_ec \in Codes
             /\ r.m_cmd_type = "RA_GET_PORTS_RESP" =>
                  /\ Ask[t].type = "RA_GET_PORTS_REQ" /\ "m_ec" \in DOMAIN r
                  /\ r.m_ec = "RA_SUC" => r.m_portpair \in Pair
  PROVE  /\ LinksOK' /\ answers' \in [Task -> {0, 1}]
         /\ \A t \in Task : answers'[t] = IF t \in TaskOf(c, r) THEN 1 ELSE answers[t]
<1>1. answers \in [Task -> {0, 1}] /\ TaskOf(c, r) \subseteq Task
  BY DEF IInv, ClientTypes, TaskOf
<1>2. /\ answers' \in [Task -> {0, 1}]
      /\ \A t \in Task : answers'[t] = IF t \in TaskOf(c, r) THEN 1 ELSE answers[t]
  <2>1. answers' = [t \in Task |-> answers[t] + (IF t \in TaskOf(c, r) THEN 1 ELSE 0)]
    BY DEF DoBackChores
  <2>2. ASSUME NEW t \in Task
        PROVE  answers'[t] = IF t \in TaskOf(c, r) THEN 1 ELSE answers[t]
    BY <1>1, <2>1
  <2> QED BY <1>1, <2>1, <2>2
<1>3. AnswerOK(c, r)'
  <2>1. CASE r.m_cmd_type = "RA_ERROR_CALL_RESP"
    BY <2>1 DEF AnswerOK
  <2>2. CASE r.m_cmd_type # "RA_ERROR_CALL_RESP"
    <3>1. PICK t \in TaskOf(c, r) :
             /\ "m_ec" \in DOMAIN r => r.m_ec \in Codes
             /\ r.m_cmd_type = "RA_GET_PORTS_RESP" =>
                  /\ Ask[t].type = "RA_GET_PORTS_REQ" /\ "m_ec" \in DOMAIN r
                  /\ r.m_ec = "RA_SUC" => r.m_portpair \in Pair
      BY <2>2
    <3>2. t \in Issued /\ Ask[t].sip = ConnOf[c] /\ cmd[t].m_cmd_id = r.m_cmd_id
          /\ answers'[t] = 1
      BY <1>1, <1>2 DEF TaskOf, Issued
    <3> QED BY <3>1, <3>2 DEF AnswerOK, Issued, Ask
  <2> QED BY <2>1, <2>2
<1>4. ASSUME NEW d \in Conn, NEW q, AnswerOK(d, q)
      PROVE  AnswerOK(d, q)'
  BY <1>4, <1>2 DEF AnswerOK, Issued, Ask
<1>5. /\ DOMAIN down = Conn /\ \A d \in Conn : IsSeq(down[d])
      /\ \A d \in Conn : \A i \in 1 .. Len(down[d]) : AnswerOK(d, down[d][i])
  BY DEF IInv, LinksOK
<1>6. ASSUME NEW d \in Conn
      PROVE  /\ IsSeq(down'[d]) /\ (conn'[d] # "open" => down'[d] = << >>)
             /\ \A i \in 1 .. Len(down'[d]) : AnswerOK(d, down[d][i])'
  <2>1. CASE d = c /\ conn[c] = "open"
    <3>1. down'[d] = Append(down[d], r)
      BY <2>1, <1>5 DEF DoBackChores
    <3>2. /\ IsSeq(down'[d]) /\ Len(down'[d]) = Len(down[d]) + 1 /\ Len(down[d]) \in Nat
          /\ \A i \in 1 .. Len(down[d]) : down'[d][i] = down[d][i]
          /\ down'[d][Len(down[d]) + 1] = r
      BY <3>1, <1>5, SeqFacts
    <3>3. ASSUME NEW i \in 1 .. Len(down'[d])
          PROVE  AnswerOK(d, down[d][i])'
      <4>1. CASE i = Len(down[d]) + 1
        BY <4>1, <3>2, <1>3, <2>1 DEF AnswerOK
      <4>2. CASE i # Len(down[d]) + 1
        <5>1. i \in 1 .. Len(down[d]) /\ down'[d][i] = down[d][i]
          BY <4>2, <3>2
        <5>2. \A q : q = down[d][i] => AnswerOK(d, q)'
          BY <5>1, <1>4, <1>5
        <5> QED BY <5>1, <5>2 DEF AnswerOK
      <4> QED BY <4>1, <4>2
    <3> QED BY <2>1, <3>2, <3>3
  <2>2. CASE ~ (d = c /\ conn[c] = "open")
    <3>1. down'[d] = down[d]
      BY <2>2, <1>5 DEF DoBackChores
    <3>2. ASSUME NEW i \in 1 .. Len(down'[d])
          PROVE  AnswerOK(d, down[d][i])'
      <4>1. \A q : q = down[d][i] => AnswerOK(d, q)'
        BY <3>1, <1>4, <1>5
      <4> QED BY <3>1, <4>1 DEF AnswerOK
    <3> QED BY <3>1, <3>2, <1>5 DEF IInv, LinksOK
  <2> QED BY <2>1, <2>2
<1>7. \A d \in Conn : \A i \in 1 .. Len(up'[d]) : RequestOK(d, up[d][i])'
  BY UpKept
<1>8. DOMAIN down' = Conn
  BY <1>5 DEF DoBackChores
<1>9. LinksOK'
  BY <1>6, <1>7, <1>8 DEF IInv, LinksOK
<1> QED BY <1>2, <1>9

LEMMA ErrorSessionStep ==
  ASSUME IInv, NEW p \in Pair, ErrorSession(p)
  PROVE  IInv'
<1> USE DEF portVars
<1>1. /\ call_at[p] # None /\ reported' = reported \cup {call_at[p]}
      /\ UNCHANGED <<conn, up, posted, job, lost, portVars, m_cid, script, taskVars, handled>>
  BY DEF ErrorSession
<1>2. call_at[p] \in Task /\ Ask[call_at[p]].sip \in Sip
  BY <1>1, AskFacts DEF IInv, ServerTypes, ClientTypes
<1>3. /\ LinksOK' /\ UNCHANGED answers
      /\ \/ free' = free /\ writing' = writing
         \/ free # 0 /\ free' = free - 1 /\ writing' = writing + 1
  <2>1. CASE UNCHANGED <<down, free, writing, answers>>
    BY <2>1, <1>1, LinksKept DEF IInv, ServerTypes, LinksOK, taskVars
  <2>2. CASE ~ UNCHANGED <<down, free, writing, answers>>
    <3> DEFINE fields == [m_call_id |-> call_at[p]]
    <3>1. /\ m_cid[Ask[call_at[p]].sip] # None /\ free # 0 /\ free' = free - 1
          /\ DoBackChores(m_cid[Ask[call_at[p]].sip], NewCmd("RA_ERROR_CALL_RESP", fields))
      BY <2>2 DEF ErrorSession
    <3>2. PICK c, r : /\ c = m_cid[Ask[call_at[p]].sip] /\ DoBackChores(c, r)
                      /\ r = NewCmd("RA_ERROR_CALL_RESP", fields)
      BY <3>1
    <3>3. r.m_cmd_type = "RA_ERROR_CALL_RESP" /\ r.m_cmd_id = 0
      <4>1. "m_cmd_type" \notin DOMAIN fields /\ "m_cmd_id" \notin DOMAIN fields
        OBVIOUS
      <4> HIDE DEF fields
      <4>2. \A g : "m_cmd_type" \notin DOMAIN g =>
              /\ NewCmd("RA_ERROR_CALL_RESP", g).m_cmd_type = "RA_ERROR_CALL_RESP"
              /\ NewCmd("RA_ERROR_CALL_RESP", g).m_cmd_id =
                   IF "m_cmd_id" \in DOMAIN g THEN g["m_cmd_id"] ELSE 0
        BY NewCmdHead
      <4> QED BY <3>2, <4>1, <4>2
    <3>4. TaskOf(c, r) = {}
      BY <3>3, TaskOfFacts
    <3>5. c \in Conn
      BY <3>1, <3>2, <1>2 DEF IInv, ServerTypes
    <3>6. LinksOK' /\ \A t \in Task : answers'[t] = answers[t]
      BY <3>2, <3>3, <3>4, <3>5, <1>1, AnswerSent DEF taskVars
    <3>7. answers' = answers
      BY <3>2, <3>6 DEF DoBackChores, IInv, ClientTypes
    <3>8. writing' = writing + 1
      BY <3>2 DEF DoBackChores
    <3> QED BY <3>1, <3>6, <3>7, <3>8 DEF IInv, ServerTypes
  <2> QED BY <2>1, <2>2
<1>4. ServerTypes'
  BY <1>1, <1>2, <1>3 DEF IInv, ServerTypes, Ask
<1>5. RequestBufferInOnePlace'
  <2>1. UNCHANGED <<posted, Handling, lost>>
    BY <1>1, HandlingKept
  <2> QED BY <2>1, <1>3, CountingBuffers DEF IInv, ServerTypes, RequestBufferInOnePlace
<1> QED BY <1>1, <1>3, <1>4, <1>5, TasksKept, JobsKept, PlacesKept DEF IInv, taskVars

-----------------------------------------------------------------------------
(* The handlers. *)

\* What every handler does: its worker lets go of the request, which goes into
\* the history, and the buffer goes to the answer, is freed or lost.
LetsGo(w) ==
  /\ job[w].pc = "handle"
  /\ job' = [job EXCEPT ![w] = Idle] \/ job' = [job EXCEPT ![w].pc = "update"]
  /\ handled' = handled \cup TaskOf(job[w].conn, Req(w))
  /\ UNCHANGED <<conn, up, posted, reported, script, taskVars>>

BufferMoves ==
  \/ free' = free /\ writing' = writing + 1 /\ lost' = lost
  \/ free' = free /\ writing' = writing /\ lost' = lost + 1
  \/ free' = free + 1 /\ writing' = writing /\ lost' = lost
  \/ free # 0 /\ free' = free - 1 /\ writing' = writing + 1 /\ lost' = lost + 1

PortTypes ==
  /\ holder \in [Pair -> (Sip \X Nat) \cup {None}]
  /\ call_at \in [Pair -> DOMAIN Ask \cup {None}]
  /\ m_cid \in [Sip -> Conn \cup {None}]

LEMMA HandledRequest ==
  ASSUME IInv, NEW w \in Worker, job[w].pc = "handle"
  PROVE  /\ job[w].conn \in Conn /\ RequestOK(job[w].conn, Req(w))
         /\ \A t \in TaskOf(job[w].conn, Req(w)) : InHand(t, w) /\ answers[t] = 0 /\ t \in Issued
         /\ Req(w).m_cmd_type # "RA_KEEP_ALIVE_REQ" =>
              \E t \in Issued : /\ TaskOf(job[w].conn, Req(w)) = {t}
                                /\ Ask[t].sip = ConnOf[job[w].conn] /\ Req(w) = cmd[t]
                                /\ Req(w).m_cmd_type = Ask[t].type
<1>1. job[w].conn \in Conn /\ RequestOK(job[w].conn, Req(w))
  BY DEF IInv, JobOK, Req
<1>2. ASSUME NEW t \in TaskOf(job[w].conn, Req(w))
      PROVE  InHand(t, w) /\ answers[t] = 0 /\ t \in Issued
  <2>1. t \in Task /\ t \in Issued /\ InHand(t, w)
    BY DEF TaskOf, Issued, InHand
  <2>2. RequestInOnePlace(t)
    BY <2>1 DEF IInv
  <2> QED BY <2>1, <2>2 DEF RequestInOnePlace, OnItsWay
<1>3. ASSUME Req(w).m_cmd_type # "RA_KEEP_ALIVE_REQ"
      PROVE  \E t \in Issued : /\ TaskOf(job[w].conn, Req(w)) = {t}
                               /\ Ask[t].sip = ConnOf[job[w].conn] /\ Req(w) = cmd[t]
                               /\ Req(w).m_cmd_type = Ask[t].type
  <2>1. PICK t \in Issued : /\ TaskOf(job[w].conn, Req(w)) = {t}
                            /\ Ask[t].sip = ConnOf[job[w].conn] /\ Req(w) = cmd[t]
    BY <1>1, <1>3, TaskOfRequest
  <2>2. cmd[t].m_cmd_type = Ask[t].type
    BY DEF IInv, TaskOK, Issued
  <2> QED BY <2>1, <2>2
<1> QED BY <1>1, <1>2, <1>3

LEMMA DealtStep ==
  ASSUME IInv, NEW w \in Worker, LetsGo(w), BufferMoves, PortTypes', LinksOK',
         answers' \in [Task -> {0, 1}],
         \A t \in Task : answers'[t] = answers[t] \/ t \in TaskOf(job[w].conn, Req(w))
  PROVE  IInv'
<1> USE DEF taskVars
<1>1. /\ DOMAIN job = Worker /\ job[w].pc = "handle" /\ job[w].conn \in Conn
      /\ job[w].req.m_cmd_type \in DOMAIN Class
      /\ job[w] = [pc |-> job[w].pc, conn |-> job[w].conn, req |-> job[w].req]
  BY DEF LetsGo, IInv, JobOK
<1>2. /\ DOMAIN job' = Worker /\ \A v \in Worker : v # w => job'[v] = job[v]
      /\ \/ job'[w] = Idle
         \/ job'[w] = [pc |-> "update", conn |-> job[w].conn, req |-> job[w].req]
  BY <1>1 DEF LetsGo
<1>3. UNCHANGED <<conn, up, posted, reported, script, taskVars>>
  BY DEF LetsGo
<1>4. \A t \in TaskOf(job[w].conn, Req(w)) : InHand(t, w) /\ t \in Issued
  BY <1>1, HandledRequest
<1>5. ServerTypes'
  <2>1. handled' \subseteq Task
    BY DEF LetsGo, IInv, ServerTypes, TaskOf
  <2>2. free' \in Nat /\ writing' \in Nat /\ lost' \in Nat
    BY DEF BufferMoves, IInv, ServerTypes
  <2> QED BY <1>3, <2>1, <2>2 DEF IInv, ServerTypes, PortTypes, Ask
<1>6. ClientTypes'
  BY <1>3 DEF IInv, ClientTypes
<1>7. IdsDiffer'
  BY <1>3 DEF IInv, IdsDiffer, Issued, Ask
<1>8. ASSUME NEW v \in Worker
      PROVE  JobOK(v)'
  <2>1. CASE v = w
    BY <2>1, <1>1, <1>2 DEF JobOK, Idle
  <2>2. CASE v # w
    <3>1. JobOK(v) /\ job'[v] = job[v] /\ DOMAIN job' = Worker
      BY <2>2, <1>2 DEF IInv
    <3>2. cmd' = cmd /\ script' = script
      BY <1>3
    <3> QED BY <3>1, <3>2 DEF JobOK, RequestOK, Issued, Ask
  <2> QED BY <2>1, <2>2
<1>9. ASSUME NEW t \in Task
      PROVE  TaskOK(t)'
  <2>1. t \notin Issued => answers'[t] = 0
    BY <1>4 DEF IInv, TaskOK
  <2> QED BY <1>3, <2>1 DEF IInv, TaskOK, Issued, Ask
<1>10. ASSUME NEW t \in Task
       PROVE  RequestInOnePlace(t)'
  <2>1. \A c \in Conn : \A i \in Nat : WaitsAt(t, c, i)' => WaitsAt(t, c, i)
    BY <1>3 DEF WaitsAt, TaskOf, Ask
  <2>2. ASSUME NEW v \in Worker, InHand(t, v)'
        PROVE  v # w /\ InHand(t, v)
    <3>1. v # w
      BY <2>2, <1>2 DEF InHand, Idle
    <3> QED BY <2>2, <3>1, <1>2, <1>3 DEF InHand, TaskOf, Ask, Req
  <2>3. ASSUME OnItsWay(t)'
        PROVE  OnItsWay(t) /\ t \notin TaskOf(job[w].conn, Req(w))
    <3>1. ASSUME NEW c \in Conn, NEW i \in 1 .. Len(up'[c]), WaitsAt(t, c, i)'
          PROVE  OnItsWay(t) /\ ~ InHand(t, w)
      <4>1. WaitsAt(t, c, i)
        BY <3>1, <1>3 DEF WaitsAt, TaskOf, Ask
      <4>2. i \in Nat
        BY <1>3, SeqFacts DEF IInv, LinksOK
      <4> QED BY <4>1, <4>2 DEF OnItsWay, WaitsAt, IInv, RequestInOnePlace
    <3>2. ASSUME NEW v \in Worker, InHand(t, v)'
          PROVE  OnItsWay(t) /\ ~ InHand(t, w)
      BY <3>2, <2>2 DEF OnItsWay, IInv, RequestInOnePlace
    <3> QED BY <2>3, <3>1, <3>2, <1>4 DEF OnItsWay
  <2>4. OnItsWay(t)' => answers'[t] = 0
    BY <2>3 DEF IInv, RequestInOnePlace
  <2> QED BY <2>1, <2>2, <2>4, FewerPlaces DEF IInv
<1>11. RequestBufferInOnePlace'
  <2>1. w \in Handling /\ Handling' = Handling \ {w}
    BY <1>1, <1>2 DEF Handling, Idle
  <2>2. Cardinality(Handling') = Cardinality(Handling) - 1 /\ posted' = posted
    BY <2>1, <1>3, CountingBuffers
  <2>3. PICK p, h \in Nat :
          /\ p = Cardinality(posted) /\ h = Cardinality(Handling)
          /\ p = Cardinality(posted') /\ h - 1 = Cardinality(Handling')
          /\ free \in Nat /\ writing \in Nat /\ lost \in Nat
          /\ free + p + h + writing + lost = NBuf
    BY <2>2, CountingBuffers DEF IInv, ServerTypes, RequestBufferInOnePlace
  <2>4. CASE free' = free /\ writing' = writing + 1 /\ lost' = lost
    BY <2>3, <2>4 DEF RequestBufferInOnePlace
  <2>5. CASE free' = free /\ writing' = writing /\ lost' = lost + 1
    BY <2>3, <2>5 DEF RequestBufferInOnePlace
  <2>6. CASE free' = free + 1 /\ writing' = writing /\ lost' = lost
    BY <2>3, <2>6 DEF RequestBufferInOnePlace
  <2>7. CASE free # 0 /\ free' = free - 1 /\ writing' = writing + 1 /\ lost' = lost + 1
    BY <2>3, <2>7 DEF RequestBufferInOnePlace
  <2> QED BY <2>4, <2>5, <2>6, <2>7 DEF BufferMoves
<1> QED BY <1>5, <1>6, <1>7, <1>8, <1>9, <1>10, <1>11 DEF IInv

\* An answer carries what its class has, a pair if it is one.
AnswerFields(w, type, fields) ==
  /\ "m_cmd_type" \notin DOMAIN fields /\ "m_cmd_id" \notin DOMAIN fields
  /\ "m_ec" \in DOMAIN fields => fields["m_ec"] \in Codes
  /\ "m_ec" \notin DOMAIN fields => type = "RA_SHAKE_HAND_RESP"
  /\ type = "RA_GET_PORTS_RESP" =>
       /\ Req(w).m_cmd_type = "RA_GET_PORTS_REQ"
       /\ fields["m_ec"] = "RA_SUC" =>
            "m_portpair" \in DOMAIN fields /\ fields["m_portpair"] \in Pair

LEMMA AnswerCarries ==
  ASSUME NEW w, NEW type, NEW fields, AnswerFields(w, type, fields),
         NEW r, r = RespTo(Req(w), type, fields)
  PROVE  /\ r.m_cmd_type = type /\ r.m_cmd_id = Req(w).m_cmd_id
         /\ \A f : f \in DOMAIN r <=> f \in ToSet(CmdHead.ser) \cup ToSet(Class[type].ser)
         /\ \A f \in DOMAIN r : f \in DOMAIN fields => r[f] = fields[f]
<1>1. "m_cmd_type" \notin DOMAIN fields /\ "m_cmd_id" \notin DOMAIN fields
  BY DEF AnswerFields
<1>2. PICK q : q = Req(w)
  OBVIOUS
<1>3. /\ RespTo(q, type, fields).m_cmd_type = type
      /\ RespTo(q, type, fields).m_cmd_id = q.m_cmd_id
      /\ \A f : f \in DOMAIN RespTo(q, type, fields) <=>
                f \in ToSet(CmdHead.ser) \cup ToSet(Class[type].ser)
      /\ \A f \in DOMAIN RespTo(q, type, fields) : f \in DOMAIN fields =>
           RespTo(q, type, fields)[f] = fields[f]
  BY <1>1, RespToAll
<1>4. r = RespTo(q, type, fields)
  BY <1>2
<1> QED BY <1>2, <1>3, <1>4

LEMMA AnswerMade ==
  ASSUME IInv, NEW w \in Worker, LetsGo(w), Req(w).m_cmd_type # "RA_KEEP_ALIVE_REQ",
         NEW type, NEW fields, AnswerFields(w, type, fields),
         DoBackChores(job[w].conn, RespTo(Req(w), type, fields))
  PROVE  /\ LinksOK' /\ answers' \in [Task -> {0, 1}]
         /\ \A t \in Task : answers'[t] = answers[t] \/ t \in TaskOf(job[w].conn, Req(w))
<1>1. PICK c, r : /\ c = job[w].conn /\ r = RespTo(Req(w), type, fields)
                  /\ DoBackChores(c, r)
  OBVIOUS
<1>2. /\ r.m_cmd_type = type /\ r.m_cmd_id = Req(w).m_cmd_id
      /\ \A f : f \in DOMAIN r <=> f \in ToSet(CmdHead.ser) \cup ToSet(Class[type].ser)
      /\ \A f \in DOMAIN r : f \in DOMAIN fields => r[f] = fields[f]
  BY <1>1, AnswerCarries
<1>3. TaskOf(c, r) = TaskOf(job[w].conn, Req(w))
  BY <1>1, <1>2 DEF TaskOf
<1>4. PICK t \in Issued : TaskOf(job[w].conn, Req(w)) = {t} /\ Req(w).m_cmd_type = Ask[t].type
  BY HandledRequest DEF LetsGo
<1>5. c \in Conn /\ \A u \in TaskOf(c, r) : answers[u] = 0
  BY <1>1, <1>3, HandledRequest DEF LetsGo
<1>6. "m_ec" \in DOMAIN r => r.m_ec \in Codes
  BY <1>2, ClassFields DEF AnswerFields
<1>7. r.m_cmd_type = "RA_GET_PORTS_RESP" =>
        /\ Ask[t].type = "RA_GET_PORTS_REQ" /\ "m_ec" \in DOMAIN r
        /\ r.m_ec = "RA_SUC" => r.m_portpair \in Pair
  BY <1>2, <1>4, ClassFields DEF AnswerFields
<1>8. UNCHANGED <<conn, up, cmd, script>>
  BY DEF LetsGo, taskVars
<1>9. t \in TaskOf(c, r)
  BY <1>3, <1>4
<1>10. \E u \in TaskOf(c, r) :
         /\ "m_ec" \in DOMAIN r => r.m_ec \in Codes
         /\ r.m_cmd_type = "RA_GET_PORTS_RESP" =>
              /\ Ask[u].type = "RA_GET_PORTS_REQ" /\ "m_ec" \in DOMAIN r
              /\ r.m_ec = "RA_SUC" => r.m_portpair \in Pair
  BY <1>6, <1>7, <1>9
<1>11. /\ LinksOK' /\ answers' \in [Task -> {0, 1}]
       /\ \A u \in Task : answers'[u] = IF u \in TaskOf(c, r) THEN 1 ELSE answers[u]
  BY <1>1, <1>5, <1>8, <1>10, AnswerSent
<1> QED BY <1>3, <1>11

LEMMA PortTypesHold ==
  ASSUME IInv
  PROVE  PortTypes /\ (UNCHANGED <<portVars, m_cid, script>> => PortTypes')
BY DEF IInv, ServerTypes, PortTypes, portVars, Ask

LEMMA ReplyStep ==
  ASSUME IInv, NEW w \in Worker, NEW type, NEW fields,
         job[w].pc = "handle", Req(w).m_cmd_type # "RA_KEEP_ALIVE_REQ",
         AnswerFields(w, type, fields), Reply(w, type, fields), PortTypes'
  PROVE  IInv'
<1>1. LetsGo(w)
  BY DEF Reply, Finished, LetsGo
<1>2. DoBackChores(job[w].conn, RespTo(Req(w), type, fields))
  BY DEF Reply
<1>3. BufferMoves
  BY DEF Reply, DoBackChores, BufferMoves
<1> QED BY <1>1, <1>2, <1>3, AnswerMade, DealtStep

LEMMA RefuseStep ==
  ASSUME IInv, NEW w \in Worker, NEW type, job[w].pc = "handle",
         Req(w).m_cmd_type # "RA_KEEP_ALIVE_REQ",
         type = "RA_GET_PORTS_RESP" => Req(w).m_cmd_type = "RA_GET_PORTS_REQ",
         Refuse(w, type)
  PROVE  IInv'
<1> DEFINE fields == [m_ec |-> "RA_VERSION_INCONFORMITY"]
<1>1. AnswerFields(w, type, fields)
  BY DEF AnswerFields, Codes
<1>2. Reply(w, type, fields) /\ UNCHANGED <<portVars, m_cid>>
  BY DEF Refuse
<1> HIDE DEF fields
<1>3. PortTypes'
  BY <1>2, PortTypesHold DEF Reply
<1> QED BY <1>1, <1>2, <1>3, ReplyStep

LEMMA DealGetPortsStep ==
  ASSUME IInv, NEW w \in Worker, DealGetPorts(w)
  PROVE  IInv'
<1> DEFINE req == Req(w)
           type == "RA_GET_PORTS_RESP"
<1>1. job[w].pc = "handle" /\ req.m_cmd_type = "RA_GET_PORTS_REQ"
  BY DEF DealGetPorts, Handles
<1>2. CASE Refuse(w, type)
  BY <1>1, <1>2, RefuseStep
<1>3. CASE /\ UNCHANGED <<portVars, m_cid>>
           /\ Reply(w, type, [m_ec |-> "RA_FAIL", m_user_id |-> req.m_user_id])
  <2> DEFINE fields == [m_ec |-> "RA_FAIL", m_user_id |-> req.m_user_id]
  <2>1. AnswerFields(w, type, fields)
    BY <1>1 DEF AnswerFields, Codes
  <2>2. Reply(w, type, fields)
    BY <1>3
  <2> HIDE DEF fields
  <2>3. PortTypes'
    BY <1>3, <2>2, PortTypesHold DEF Reply
  <2> QED BY <1>1, <2>1, <2>2, <2>3, ReplyStep
<1>4. ASSUME NEW p \in Pair,
             holder' = [holder EXCEPT ![p] = <<req.m_sipproxy_id, req.m_user_id>>],
             UNCHANGED <<call_at, m_cid>>,
             Reply(w, type, [m_ec |-> "RA_SUC", m_user_id |-> req.m_user_id,
                             m_portpair |-> p])
      PROVE  IInv'
  <2> DEFINE fields == [m_ec |-> "RA_SUC", m_user_id |-> req.m_user_id, m_portpair |-> p]
  <2>1. AnswerFields(w, type, fields)
    BY <1>1 DEF AnswerFields, Codes
  <2>2. Reply(w, type, fields)
    BY <1>4
  <2> HIDE DEF fields
  <2>3. req.m_sipproxy_id \in Sip /\ req.m_user_id \in Nat
    <3>1. PICK t \in Issued : req = cmd[t] /\ Ask[t].type = "RA_GET_PORTS_REQ"
      BY <1>1, HandledRequest
    <3>2. TaskOK(t) /\ script \in Script
      BY DEF IInv, Issued, ClientTypes
    <3> QED BY <3>1, <3>2, AskFacts DEF TaskOK
  <2>4. PortTypes'
    BY <1>4, <2>2, <2>3, PortTypesHold DEF Reply, PortTypes, Ask
  <2> QED BY <1>1, <2>1, <2>2, <2>4, ReplyStep
<1> QED BY <1>2, <1>3, <1>4 DEF DealGetPorts

LEMMA DealFreePortsStep ==
  ASSUME IInv, NEW w \in Worker, DealFreePorts(w)
  PROVE  IInv'
<1> DEFINE type == "RA_FREE_PORTS_RESP"
<1>1. job[w].pc = "handle" /\ Req(w).m_cmd_type = "RA_FREE_PORTS_REQ"
  BY DEF DealFreePorts, Handles
<1>2. CASE Refuse(w, type)
  BY <1>1, <1>2, RefuseStep
<1>3. CASE ~ Refuse(w, type)
  <2> DEFINE fields == [m_ec |-> "RA_SUC"]
  <2>1. AnswerFields(w, type, fields)
    BY DEF AnswerFields, Codes
  <2>2. Reply(w, type, fields) /\ UNCHANGED <<call_at, m_cid>>
    BY <1>3 DEF DealFreePorts
  <2>3. PICK freed : holder' = [p \in Pair |-> IF p \in freed THEN None ELSE holder[p]]
    <3> DEFINE freed == {p \in Pair : /\ p = Req(w).m_portpair
                                      /\ holder[p] = <<Req(w).m_sipproxy_id, Req(w).m_user_id>>}
    <3>1. holder' = [p \in Pair |-> IF p \in freed THEN None ELSE holder[p]]
      BY <1>3 DEF DealFreePorts
    <3> QED BY <3>1
  <2> HIDE DEF fields
  <2>4. PortTypes'
    BY <2>2, <2>3, PortTypesHold DEF Reply, PortTypes, Ask
  <2> QED BY <1>1, <2>1, <2>2, <2>4, ReplyStep
<1> QED BY <1>2, <1>3

LEMMA DealSipproxyOfflineStep ==
  ASSUME IInv, NEW w \in Worker, DealSipproxyOffline(w)
  PROVE  IInv'
<1> DEFINE type == "RA_SIPPROXY_OFFLINE_RESP"
<1>1. job[w].pc = "handle" /\ Req(w).m_cmd_type = "RA_SIPPROXY_OFFLINE_REQ"
  BY DEF DealSipproxyOffline, Handles
<1>2. CASE Refuse(w, type)
  BY <1>1, <1>2, RefuseStep
<1>3. CASE ~ Refuse(w, type)
  <2> DEFINE fields == [m_ec |-> "RA_SUC"]
  <2>1. AnswerFields(w, type, fields)
    BY DEF AnswerFields, Codes
  <2>2. Reply(w, type, fields) /\ UNCHANGED m_cid
    BY <1>3 DEF DealSipproxyOffline
  <2>3. PICK held : /\ holder' = [p \in Pair |-> IF p \in held THEN None ELSE holder[p]]
                    /\ call_at' = [p \in Pair |-> IF p \in held THEN None ELSE call_at[p]]
    BY <1>3 DEF DealSipproxyOffline
  <2> HIDE DEF fields
  <2>4. PortTypes'
    BY <2>2, <2>3, PortTypesHold DEF Reply, PortTypes, Ask
  <2> QED BY <1>1, <2>1, <2>2, <2>4, ReplyStep
<1> QED BY <1>2, <1>3

LEMMA DealStopCallStep ==
  ASSUME IInv, NEW w \in Worker, DealStopCall(w)
  PROVE  IInv'
<1> DEFINE type == "RA_STOP_CALL_RESP"
<1>1. job[w].pc = "handle" /\ Req(w).m_cmd_type = "RA_STOP_CALL_REQ"
  BY DEF DealStopCall, Handles
<1>2. CASE Refuse(w, type)
  BY <1>1, <1>2, RefuseStep
<1>3. CASE ~ Refuse(w, type)
  <2> DEFINE fields == [m_ec |-> "RA_SUC"]
  <2>1. AnswerFields(w, type, fields)
    BY DEF AnswerFields, Codes
  <2>2. /\ Reply(w, type, fields) /\ UNCHANGED holder
        /\ call_at' = [call_at EXCEPT ![Req(w).m_ports] = None]
        /\ m_cid' = [m_cid EXCEPT ![Req(w).m_sipproxy_id] = job[w].conn]
    BY <1>3 DEF DealStopCall
  <2>3. job[w].conn \in Conn
    BY <1>1, HandledRequest
  <2> HIDE DEF fields
  <2>4. PortTypes'
    BY <2>2, <2>3, PortTypesHold DEF Reply, PortTypes, Ask
  <2> QED BY <1>1, <2>1, <2>2, <2>4, ReplyStep
<1> QED BY <1>2, <1>3

LEMMA DealShakeHandStep ==
  ASSUME IInv, NEW w \in Worker, DealShakeHand(w)
  PROVE  IInv'
<1> DEFINE type == "RA_SHAKE_HAND_RESP"
           fields == [m_remoteAddrs |-> <<1>>]
<1>1. job[w].pc = "handle" /\ Req(w).m_cmd_type = "RA_SHAKE_HAND_REQ"
  BY DEF DealShakeHand, Handles
<1>2. AnswerFields(w, type, fields)
  BY DEF AnswerFields
<1>3. Reply(w, type, fields) /\ UNCHANGED <<portVars, m_cid>>
  BY DEF DealShakeHand
<1> HIDE DEF fields
<1>4. PortTypes'
  BY <1>3, PortTypesHold DEF Reply
<1> QED BY <1>1, <1>2, <1>3, <1>4, ReplyStep

\* An answer that is not sent changes nothing a client sees.
LEMMA NotAnswered ==
  ASSUME IInv, NEW w \in Worker, LetsGo(w), BufferMoves, PortTypes',
         UNCHANGED <<down, answers>>
  PROVE  IInv'
<1>1. UNCHANGED <<up, down, cmd, script, answers, conn>>
  BY DEF LetsGo, taskVars
<1>2. LinksOK'
  BY <1>1, LinksKept DEF IInv, LinksOK
<1>3. answers' \in [Task -> {0, 1}] /\ \A t \in Task : answers'[t] = answers[t]
  BY <1>1 DEF IInv, ClientTypes
<1> QED BY <1>2, <1>3, DealtStep

LEMMA DealKeepAliveStep ==
  ASSUME IInv, NEW w \in Worker, DealKeepAlive(w)
  PROVE  IInv'
<1> USE DEF DealKeepAlive
<1>1. LetsGo(w) /\ BufferMoves /\ UNCHANGED <<down, answers>>
  BY DEF LetsGo, Finished, BufferMoves, Handles
<1>2. job[w].conn \in Conn
  BY HandledRequest DEF Handles
<1>3. PortTypes'
  BY <1>2, PortTypesHold DEF PortTypes, portVars, Ask
<1> QED BY <1>1, <1>3, NotAnswered

LEMMA CallbackStep ==
  ASSUME IInv, NEW w \in Worker, LetsGo(w), Req(w).m_cmd_type # "RA_KEEP_ALIVE_REQ",
         NEW type, type # "RA_GET_PORTS_RESP", NEW ec \in Codes,
         CallbackAnswers(w, type, ec), PortTypes'
  PROVE  IInv'
<1>1. CASE free = 0
  <2>1. BufferMoves /\ UNCHANGED <<down, answers>>
    BY <1>1 DEF CallbackAnswers, BufferMoves
  <2> QED BY <2>1, NotAnswered
<1>2. CASE free # 0
  <2> DEFINE fields == [m_ec |-> ec, m_path_suc |-> ec = "RA_SUC"]
  <2>1. AnswerFields(w, type, fields)
    BY DEF AnswerFields
  <2>2. /\ DoBackChores(job[w].conn, RespTo(Req(w), type, fields))
        /\ lost' = lost + 1 /\ free' = free - 1
    BY <1>2 DEF CallbackAnswers
  <2> HIDE DEF fields
  <2>3. BufferMoves
    BY <1>2, <2>2 DEF DoBackChores, BufferMoves
  <2> QED BY <2>1, <2>2, <2>3, AnswerMade, DealtStep
<1> QED BY <1>1, <1>2

LEMMA DealBuildPathStep ==
  ASSUME IInv, NEW w \in Worker, DealBuildPath(w)
  PROVE  IInv'
<1> DEFINE type == "RA_BUILD_PATH_RESP"
           ec == IF Req(w).m_path_info = << >> THEN "RA_BAD_PARAMETER" ELSE "RA_SUC"
<1>1. job[w].pc = "handle" /\ Req(w).m_cmd_type = "RA_BUILD_PATH_REQ"
  BY DEF DealBuildPath, Handles
<1>2. CASE Refuse(w, type)
  BY <1>1, <1>2, RefuseStep
<1>3. CASE ~ Refuse(w, type)
  <2>1. /\ CallbackAnswers(w, type, ec) /\ Finished(w)
        /\ UNCHANGED <<conn, up, posted, portVars, m_cid, reported, script, taskVars>>
    BY <1>3 DEF DealBuildPath
  <2>2. LetsGo(w)
    BY <1>1, <2>1 DEF LetsGo, Finished
  <2>3. PortTypes'
    BY <2>1, PortTypesHold
  <2>4. ec \in Codes
    BY DEF Codes
  <2>5. PICK e \in Codes : e = ec
    BY <2>4
  <2>6. CallbackAnswers(w, type, e)
    BY <2>1, <2>5
  <2> HIDE DEF ec
  <2> QED BY <1>1, <2>2, <2>3, <2>5, <2>6, CallbackStep
<1> QED BY <1>2, <1>3

LEMMA DealStartCallStep ==
  ASSUME IInv, NEW w \in Worker, DealStartCall(w)
  PROVE  IInv'
<1> DEFINE type == "RA_START_CALL_RESP"
           req == Req(w)
<1>1. job[w].pc = "handle" /\ req.m_cmd_type = "RA_START_CALL_REQ"
  BY DEF DealStartCall, Handles
<1>2. CASE Refuse(w, type)
  BY <1>1, <1>2, RefuseStep
<1>3. CASE ~ Refuse(w, type)
  <2>1. /\ call_at' = [call_at EXCEPT ![req.m_portpair] =
                         IF call_at[req.m_portpair] = None THEN req.m_call_id
                         ELSE call_at[req.m_portpair]]
        /\ \/ lost' = lost + 1 /\ UNCHANGED <<down, free, writing, answers>>
           \/ CallbackAnswers(w, type, "RA_SUC")
        /\ job' = [job EXCEPT ![w].pc = "update"]
        /\ handled' = handled \cup TaskOf(job[w].conn, req)
        /\ UNCHANGED <<conn, up, posted, holder, m_cid, reported, script, taskVars>>
    BY <1>3 DEF DealStartCall
  <2>2. LetsGo(w)
    BY <1>1, <2>1 DEF LetsGo
  <2>3. req.m_call_id \in DOMAIN Ask
    <3>1. PICK t \in Issued : req = cmd[t] /\ Ask[t].type = "RA_START_CALL_REQ"
      BY <1>1, HandledRequest
    <3>2. TaskOK(t) /\ script \in Script
      BY DEF IInv, Issued, ClientTypes
    <3> QED BY <3>1, <3>2, AskFacts DEF TaskOK
  <2>4. PortTypes'
    <3>1. call_at' \in [Pair -> DOMAIN Ask \cup {None}]
      BY <2>1, <2>3, PortTypesHold DEF PortTypes
    <3> QED BY <2>1, <3>1, PortTypesHold DEF PortTypes, Ask
  <2>5. CASE lost' = lost + 1 /\ UNCHANGED <<down, free, writing, answers>>
    BY <2>2, <2>4, <2>5, NotAnswered DEF BufferMoves
  <2>6. CASE CallbackAnswers(w, type, "RA_SUC")
    <3>1. "RA_SUC" \in Codes
      BY DEF Codes
    <3> QED BY <1>1, <2>2, <2>4, <2>6, <3>1, CallbackStep
  <2> QED BY <2>1, <2>5, <2>6
<1> QED BY <1>2, <1>3

LEMMA UpdateAfterStartStep ==
  ASSUME IInv, NEW w \in Worker, UpdateAfterStart(w)
  PROVE  IInv'
<1> USE DEF UpdateAfterStart, portVars, bufVars, taskVars
<1>1. /\ DOMAIN job = Worker /\ job[w].conn \in Conn
      /\ DOMAIN job' = Worker /\ job'[w] = Idle
      /\ \A v \in Worker : v # w => job'[v] = job[v]
  BY DEF IInv, JobOK
<1>2. ServerTypes'
  BY <1>1 DEF IInv, ServerTypes, Ask
<1>3. LinksOK'
  BY LinksKept DEF IInv, LinksOK
<1>4. ASSUME NEW v \in Worker
      PROVE  JobOK(v)'
  <2>1. CASE v = w
    BY <2>1, <1>1 DEF JobOK, Idle
  <2>2. CASE v # w
    BY <2>2, <1>1 DEF IInv, JobOK, RequestOK, Issued, Ask
  <2> QED BY <2>1, <2>2
<1>5. ASSUME NEW t \in Task
      PROVE  RequestInOnePlace(t)'
  <2>1. \A c \in Conn : \A i \in Nat : WaitsAt(t, c, i)' <=> WaitsAt(t, c, i)
    BY DEF WaitsAt, TaskOf, Ask
  <2>2. ASSUME NEW v \in Worker
        PROVE  InHand(t, v)' => InHand(t, v)
    BY <1>1 DEF InHand, Idle, TaskOf, Ask, Req
  <2>3. OnItsWay(t)' => OnItsWay(t)
    <3>1. ASSUME NEW c \in Conn, NEW i \in 1 .. Len(up'[c]), WaitsAt(t, c, i)'
          PROVE  OnItsWay(t)
      BY <3>1 DEF OnItsWay, WaitsAt, TaskOf, Ask
    <3> QED BY <3>1, <2>2 DEF OnItsWay
  <2> QED BY <2>1, <2>2, <2>3, FewerPlaces DEF IInv, RequestInOnePlace
<1>6. RequestBufferInOnePlace'
  <2>1. Handling' = Handling
    BY <1>1 DEF Handling, Idle
  <2> QED BY <2>1 DEF IInv, RequestBufferInOnePlace
<1> QED BY <1>2, <1>3, <1>4, <1>5, <1>6, TasksKept DEF IInv

-----------------------------------------------------------------------------
(* The client. *)

\* Tasks are finished: they are done, and have a code.
LEMMA TasksFinish ==
  ASSUME IInv, NEW S, NEW ec \in Outcomes,
         stage' = [t \in Task |-> IF t \in S THEN "done" ELSE stage[t]],
         outcome' = [t \in Task |-> IF t \in S THEN ec ELSE outcome[t]],
         told' \in [Sip -> Pair \cup {None}],
         UNCHANGED <<script, g_cmdid, cmd, answers>>
  PROVE  ClientTypes' /\ IdsDiffer' /\ \A t \in Task : TaskOK(t)'
<1>1. ClientTypes'
  BY DEF IInv, ClientTypes
<1>2. IdsDiffer'
  <2>1. \A t, u \in Issued' :
          Ask'[t].sip = Ask'[u].sip /\ cmd'[t].m_cmd_id = cmd'[u].m_cmd_id => t = u
    BY DEF IInv, IdsDiffer, Issued, Ask
  <2> DEFINE A == {t \in Task : stage[t] # "new"}
             B == {t \in Task : stage'[t] # "new"}
  <2>2. A \subseteq B /\ B \subseteq Task
    OBVIOUS
  <2>3. IsFiniteSet(B) /\ IsFiniteSet(A)
    BY <2>2, ScriptAssumption, FS_Subset
  <2>4. Cardinality(A) <= Cardinality(B) /\ Cardinality(A) \in Nat /\ Cardinality(B) \in Nat
    BY <2>2, <2>3, FS_Subset, FS_CardinalityType
  <2>5. \A s \in Sip : g_cmdid[s] <= Cardinality(A) /\ g_cmdid[s] \in Nat
    BY DEF IInv, IdsDiffer, ClientTypes
  <2>6. \A s \in Sip : g_cmdid'[s] <= Cardinality(B)
    <3> HIDE DEF A, B
    <3> QED BY <2>4, <2>5
  <2> QED BY <2>1, <2>6 DEF IdsDiffer
<1>3. ASSUME NEW t \in Task
      PROVE  TaskOK(t)'
  <2>1. TaskOK(t)
    BY DEF IInv
  <2>2. \A u : stage[u] = "done" /\ u \in Task => stage'[u] = "done"
    OBVIOUS
  <2>3. \A u \in Task : (stage'[u] = stage[u] /\ outcome'[u] = outcome[u]) \/ stage'[u] = "done"
    OBVIOUS
  <2>4. t \in Issued' <=> t \in Issued
    BY DEF Issued
  <2>5. t \in Issued => \A u \in script.before[t] : stage'[u] = "done"
    <3> SUFFICES ASSUME t \in Issued, NEW u \in script.before[t] PROVE stage'[u] = "done"
      OBVIOUS
    <3>1. stage[u] = "done" /\ t \in DOMAIN Ask
      BY <2>1 DEF TaskOK
    <3>2. u \in Task
      BY <3>1, AskFacts DEF IInv, ClientTypes
    <3> QED BY <2>2, <3>1, <3>2
  <2> QED BY <2>1, <2>3, <2>4, <2>5 DEF TaskOK, Ask
<1> QED BY <1>1, <1>2, <1>3

\* A task whose callback is called without an answer.
LEMMA FinishedAlone ==
  ASSUME IInv, NEW t \in Task, NEW ec \in Outcomes,
         stage' = [stage EXCEPT ![t] = "done"], outcome' = [outcome EXCEPT ![t] = ec],
         UNCHANGED <<conn, up, down, posted, job, bufVars, portVars, m_cid, reported, script,
                     g_cmdid, cmd, told, answers, handled>>
  PROVE  IInv'
<1>1. /\ stage' = [u \in Task |-> IF u \in {t} THEN "done" ELSE stage[u]]
      /\ outcome' = [u \in Task |-> IF u \in {t} THEN ec ELSE outcome[u]]
      /\ told' \in [Sip -> Pair \cup {None}]
  BY DEF IInv, ClientTypes
<1>2. ClientTypes' /\ IdsDiffer' /\ \A u \in Task : TaskOK(u)'
  BY <1>1, TasksFinish
<1>3. ServerTypes'
  BY DEF IInv, ServerTypes, Ask, bufVars, portVars
<1>4. LinksOK'
  BY LinksKept DEF IInv, LinksOK
<1>5. RequestBufferInOnePlace'
  BY HandlingKept DEF IInv, RequestBufferInOnePlace, bufVars
<1> QED BY <1>2, <1>3, <1>4, <1>5, JobsKept, PlacesKept DEF IInv

LEMMA IssueRefusedStep ==
  ASSUME IInv, NEW t \in Task, IssueRefused(t)
  PROVE  IInv'
BY FinishedAlone DEF IssueRefused, Outcomes

LEMMA TimeoutStep ==
  ASSUME IInv, NEW t \in Task, Timeout(t)
  PROVE  IInv'
BY FinishedAlone DEF Timeout, Outcomes

LEMMA ClientReadStep ==
  ASSUME IInv, NEW c \in Conn, ClientRead(c)
  PROVE  IInv'
<1> DEFINE n == Len(down[c])
<1>1. /\ down[c] # << >> /\ down' = [down EXCEPT ![c] = Tail(down[c])]
      /\ UNCHANGED <<conn, up, posted, job, bufVars, portVars, m_cid, reported, script,
                     g_cmdid, cmd, answers, handled>>
  BY DEF ClientRead
<1>2. /\ n \in Nat /\ n >= 1 /\ Head(down[c]) = down[c][1]
      /\ IsSeq(Tail(down[c])) /\ Len(Tail(down[c])) = n - 1
      /\ \A i \in 1 .. n - 1 : Tail(down[c])[i] = down[c][i + 1]
  BY <1>1, SeqFacts DEF IInv, LinksOK
<1>3. PICK r : r = Head(down[c]) /\ AnswerOK(c, r)
  BY <1>2 DEF IInv, LinksOK
<1>4. ClientTypes' /\ IdsDiffer' /\ \A t \in Task : TaskOK(t)'
  <2>1. CASE r.m_cmd_type = "RA_ERROR_CALL_RESP"
    <3>1. UNCHANGED <<stage, outcome, told>>
      BY <2>1, <1>3 DEF ClientRead
    <3> QED BY <1>1, <3>1, TasksKept DEF taskVars
  <2>2. CASE r.m_cmd_type # "RA_ERROR_CALL_RESP"
    <3> DEFINE tasks == Doing(ConnOf[c], r)
               ec == IF "m_ec" \in DOMAIN r THEN r.m_ec ELSE "RA_SUC"
    <3>1. /\ stage' = [t \in Task |-> IF t \in tasks THEN "done" ELSE stage[t]]
          /\ outcome' = [t \in Task |-> IF t \in tasks THEN ec ELSE outcome[t]]
          /\ told' = IF /\ r.m_cmd_type = "RA_GET_PORTS_RESP"
                        /\ tasks # {} /\ ec = "RA_SUC"
                       THEN [told EXCEPT ![ConnOf[c]] = r.m_portpair] ELSE told
      BY <2>2, <1>3 DEF ClientRead
    <3>2. /\ "m_ec" \in DOMAIN r => r.m_ec \in Codes
          /\ r.m_cmd_type = "RA_GET_PORTS_RESP" =>
               "m_ec" \in DOMAIN r /\ (r.m_ec = "RA_SUC" => r.m_portpair \in Pair)
      BY <2>2, <1>3 DEF AnswerOK
    <3>3. ec \in Outcomes
      BY <3>2 DEF Codes, Outcomes
    <3>4. told' \in [Sip -> Pair \cup {None}]
      BY <3>1, <3>2 DEF IInv, ClientTypes
    <3>5. PICK S, e : S = tasks /\ e = ec
      OBVIOUS
    <3> HIDE DEF tasks, ec
    <3> QED BY <1>1, <3>1, <3>3, <3>4, <3>5, TasksFinish
  <2> QED BY <2>1, <2>2
<1>5. /\ DOMAIN down' = Conn /\ down'[c] = Tail(down[c])
      /\ \A d \in Conn : d # c => down'[d] = down[d]
  BY <1>1 DEF IInv, LinksOK
<1>6. LinksOK'
  <2>1. ASSUME NEW d \in Conn, NEW i \in 1 .. Len(down'[d])
        PROVE  AnswerOK(d, down[d][i])'
    <3>1. PICK j \in 1 .. Len(down[d]) : down'[d][i] = down[d][j]
      <4>1. CASE d = c
        BY <4>1, <1>2, <1>5
      <4>2. CASE d # c
        BY <4>2, <1>5
      <4> QED BY <4>1, <4>2
    <3>2. AnswerOK(d, down[d][j])
      BY DEF IInv, LinksOK
    <3> QED BY <3>1, <3>2, <1>1 DEF AnswerOK, Issued, Ask
  <2>2. \A d \in Conn : \A i \in 1 .. Len(up'[d]) : RequestOK(d, up[d][i])'
    BY <1>1, UpKept
  <2>3. \A d \in Conn : /\ IsSeq(up'[d]) /\ IsSeq(down'[d])
                        /\ conn'[d] # "open" => up'[d] = << >> /\ down'[d] = << >>
    BY <1>1, <1>2, <1>5 DEF IInv, LinksOK
  <2> QED BY <1>1, <1>5, <2>1, <2>2, <2>3 DEF IInv, LinksOK
<1>7. ServerTypes'
  BY <1>1 DEF IInv, ServerTypes, Ask, bufVars, portVars
<1>8. RequestBufferInOnePlace'
  BY <1>1, HandlingKept DEF IInv, RequestBufferInOnePlace, bufVars
<1> QED BY <1>1, <1>4, <1>6, <1>7, <1>8, JobsKept, PlacesKept DEF IInv

\* What a step that issues a task changes, and what its request looks like.
LEMMA IssueFacts ==
  ASSUME IInv, NEW t \in Task, NEW c \in Conn, Issue(t, c)
  PROVE  \E r, s, id :
    /\ s = Ask[t].sip /\ s \in Sip /\ s = ConnOf[c] /\ id = g_cmdid[s] + 1
    /\ t \in DOMAIN Ask /\ stage[t] = "new" /\ conn[c] = "open" /\ t \notin Issued
    /\ \A u \in script.before[t] : stage[u] = "done"
    /\ r.m_cmd_type = Ask[t].type /\ r.m_cmd_id = id /\ id \in Nat \ {0}
    /\ Ask[t].type \in GivesBack \cup {"RA_GET_PORTS_REQ"} => r.m_sipproxy_id = s
    /\ Ask[t].type = "RA_GET_PORTS_REQ" => r.m_user_id = Ask[t].user
    /\ Ask[t].type = "RA_START_CALL_REQ" => r.m_call_id = Ask[t].call
    /\ g_cmdid' = [g_cmdid EXCEPT ![s] = id]
    /\ cmd' = [cmd EXCEPT ![t] = r] /\ up' = [up EXCEPT ![c] = Append(up[c], r)]
    /\ stage' = [stage EXCEPT ![t] = "doing"]
    /\ told' = IF Ask[t].type \in GivesBack THEN [told EXCEPT ![s] = None] ELSE told
    /\ UNCHANGED <<conn, down, posted, job, bufVars, portVars, m_cid, reported, script,
                   outcome, answers, handled>>
<1>1. PICK s, id : s = Ask[t].sip /\ id = g_cmdid[s] + 1
  OBVIOUS
<1>2. /\ t \in DOMAIN Ask /\ stage[t] = "new" /\ conn[c] = "open" /\ s = ConnOf[c]
      /\ \A u \in script.before[t] : stage[u] = "done"
      /\ g_cmdid' = [g_cmdid EXCEPT ![s] = id]
      /\ stage' = [stage EXCEPT ![t] = "doing"]
      /\ told' = IF Ask[t].type \in GivesBack THEN [told EXCEPT ![s] = None] ELSE told
      /\ UNCHANGED <<conn, down, posted, job, bufVars, portVars, m_cid, reported, script,
                     outcome, answers, handled>>
  BY <1>1 DEF Issue, MayIssue
<1>3. s \in Sip /\ t \notin Issued /\ id \in Nat \ {0}
  <2>1. s \in Sip /\ g_cmdid \in [Sip -> Nat]
    BY <1>1, <1>2, AskFacts DEF IInv, ClientTypes
  <2>2. id \in Nat \ {0}
    BY <1>1, <2>1
  <2> QED BY <2>1, <2>2, <1>2 DEF IInv, TaskOK
<1>4. g_cmdid'[s] = id
  BY <1>2, <1>3 DEF IInv, ClientTypes
<1>5. PICK word : cmd' = [cmd EXCEPT ![t] = [NewCmd(Ask[t].type, ReqFields(t, word))
                                              EXCEPT !.m_cmd_id = id]]
  BY <1>1, <1>4 DEF Issue
<1>6. PICK type, fields : type = Ask[t].type /\ fields = ReqFields(t, word)
  OBVIOUS
<1>7. /\ DOMAIN fields = {"m_sipproxy_id", "m_sipproxy_fake_id", "m_user_id", "m_portpair",
                          "m_ports", "m_call_id", "m_path_info", "m_call_type", "m_version"}
      /\ fields["m_sipproxy_id"] = s /\ fields["m_call_id"] = Ask[t].call
      /\ type = "RA_GET_PORTS_REQ" => fields["m_user_id"] = Ask[t].user
  BY <1>1, <1>6 DEF ReqFields
<1>8. PICK q, r : q = NewCmd(type, fields) /\ r = [q EXCEPT !.m_cmd_id = id]
  OBVIOUS
<1>9. /\ r.m_cmd_type = type /\ r.m_cmd_id = id
      /\ \A f \in ToSet(Class[type].ser) : f \in DOMAIN fields /\ f # "m_cmd_id" =>
           r[f] = fields[f]
  <2>1. \A g : "m_cmd_type" \notin DOMAIN g =>
          /\ NewCmd(type, g).m_cmd_type = type
          /\ NewCmd(type, g).m_cmd_id = IF "m_cmd_id" \in DOMAIN g THEN g["m_cmd_id"] ELSE 0
          /\ DOMAIN NewCmd(type, g) = ToSet(CmdHead.ser) \cup ToSet(Class[type].ser)
          /\ \A f \in DOMAIN NewCmd(type, g) : f \in DOMAIN g => NewCmd(type, g)[f] = g[f]
    BY NewCmdHead
  <2>2. "m_cmd_type" \notin DOMAIN fields
    BY <1>7
  <2>3. /\ q.m_cmd_type = type
        /\ DOMAIN q = ToSet(CmdHead.ser) \cup ToSet(Class[type].ser)
        /\ \A f \in DOMAIN q : f \in DOMAIN fields => q[f] = fields[f]
    BY <2>1, <2>2, <1>8
  <2>4. "m_cmd_id" \in DOMAIN q
    BY <2>3, HeadFields
  <2>5. /\ r.m_cmd_id = id /\ r.m_cmd_type = type
        /\ \A f \in DOMAIN q : f # "m_cmd_id" => r[f] = q[f]
    BY <2>3, <2>4, <1>8, HeadFields
  <2> QED BY <2>3, <2>5
<1>10. /\ type \in GivesBack \cup {"RA_GET_PORTS_REQ"} => r.m_sipproxy_id = s
       /\ type = "RA_GET_PORTS_REQ" => r.m_user_id = Ask[t].user
       /\ type = "RA_START_CALL_REQ" => r.m_call_id = Ask[t].call
  BY <1>7, <1>9, ClassFields
<1>11. cmd' = [cmd EXCEPT ![t] = r]
  BY <1>5, <1>6, <1>8
<1>12. cmd'[t] = r
  BY <1>11 DEF IInv, ClientTypes
<1>13. up' = [up EXCEPT ![c] = Append(up[c], r)]
  BY <1>12 DEF Issue
<1> QED BY <1>1, <1>2, <1>3, <1>6, <1>9, <1>10, <1>11, <1>13

LEMMA IssueStep ==
  ASSUME IInv, NEW t \in Task, NEW c \in Conn, Issue(t, c)
  PROVE  IInv' /\ \A u \in Task : OnItsWay(u)' => u = t \/ OnItsWay(u)
<1> DEFINE n == Len(up[c])
<1>1. PICK r, s, id :
        /\ s = Ask[t].sip /\ s \in Sip /\ s = ConnOf[c] /\ id = g_cmdid[s] + 1
        /\ t \in DOMAIN Ask /\ stage[t] = "new" /\ conn[c] = "open" /\ t \notin Issued
        /\ \A u \in script.before[t] : stage[u] = "done"
        /\ r.m_cmd_type = Ask[t].type /\ r.m_cmd_id = id /\ id \in Nat \ {0}
        /\ Ask[t].type \in GivesBack \cup {"RA_GET_PORTS_REQ"} => r.m_sipproxy_id = s
        /\ Ask[t].type = "RA_GET_PORTS_REQ" => r.m_user_id = Ask[t].user
        /\ Ask[t].type = "RA_START_CALL_REQ" => r.m_call_id = Ask[t].call
        /\ g_cmdid' = [g_cmdid EXCEPT ![s] = id]
        /\ cmd' = [cmd EXCEPT ![t] = r] /\ up' = [up EXCEPT ![c] = Append(up[c], r)]
        /\ stage' = [stage EXCEPT ![t] = "doing"]
        /\ told' = IF Ask[t].type \in GivesBack THEN [told EXCEPT ![s] = None] ELSE told
        /\ UNCHANGED <<conn, down, posted, job, bufVars, portVars, m_cid, reported, script,
                       outcome, answers, handled>>
  BY IssueFacts
<1>2. /\ g_cmdid \in [Sip -> Nat] /\ DOMAIN cmd = Task
      /\ cmd'[t] = r /\ \A u \in Task : u # t => cmd'[u] = cmd[u]
      /\ g_cmdid'[s] = id /\ \A x \in Sip : x # s => g_cmdid'[x] = g_cmdid[x]
      /\ stage'[t] = "doing" /\ \A u \in Task : u # t => stage'[u] = stage[u]
  BY <1>1 DEF IInv, ClientTypes
<1>3. Issued' = Issued \cup {t} /\ Ask' = Ask
  BY <1>1, <1>2 DEF Issued, Ask
<1>4. \A u \in Issued : u # t /\ cmd'[u] = cmd[u] /\ (Ask[u].sip = s => cmd[u].m_cmd_id # id)
                       /\ u \in DOMAIN Ask /\ Ask[u].sip \in Sip
                       /\ cmd[u].m_cmd_id \in 1 .. g_cmdid[Ask[u].sip]
  <2> SUFFICES ASSUME NEW u \in Issued
               PROVE  u # t /\ cmd'[u] = cmd[u] /\ (Ask[u].sip = s => cmd[u].m_cmd_id # id)
                       /\ u \in DOMAIN Ask /\ Ask[u].sip \in Sip
                       /\ cmd[u].m_cmd_id \in 1 .. g_cmdid[Ask[u].sip]
    OBVIOUS
  <2>1. u # t /\ cmd'[u] = cmd[u]
    BY <1>1, <1>2 DEF Issued
  <2>2. u \in DOMAIN Ask /\ cmd[u].m_cmd_id \in 1 .. g_cmdid[Ask[u].sip]
    BY DEF IInv, TaskOK, Issued
  <2>3. g_cmdid[s] \in Nat
    BY <1>1, <1>2
  <2> QED BY <2>1, <2>2, <2>3, <1>1, AskFacts DEF IInv, ClientTypes
<1>5. ASSUME NEW d, NEW q, q.m_cmd_id # id \/ ConnOf[d] # s
      PROVE  TaskOf(d, q)' = TaskOf(d, q) /\ TaskOf(d, q) \subseteq Issued
  <2>1. ASSUME NEW u \in Task
        PROVE  u \in TaskOf(d, q)' <=> u \in TaskOf(d, q)
    <3>1. CASE u = t
      BY <3>1, <1>1, <1>2, <1>3, <1>5 DEF TaskOf, Issued
    <3>2. CASE u # t
      BY <3>2, <1>2, <1>3 DEF TaskOf, Ask
    <3> QED BY <3>1, <3>2
  <2> QED BY <2>1 DEF TaskOf, Issued
<1>6. ASSUME NEW d, NEW q, RequestOK(d, q)
      PROVE  RequestOK(d, q)' /\ TaskOf(d, q)' = TaskOf(d, q) /\ TaskOf(d, q) \subseteq Issued
  <2>1. CASE q.m_cmd_type = "RA_KEEP_ALIVE_REQ" /\ q.m_cmd_id = 0
    BY <2>1, <1>1, <1>5 DEF RequestOK
  <2>2. CASE \E u \in Issued : Ask[u].sip = ConnOf[d] /\ q = cmd[u]
    <3>1. PICK u \in Issued : Ask[u].sip = ConnOf[d] /\ q = cmd[u]
      BY <2>2
    <3>2. q.m_cmd_id # id \/ ConnOf[d] # s
      BY <3>1, <1>4
    <3>3. RequestOK(d, q)'
      BY <3>1, <1>3, <1>4 DEF RequestOK
    <3> QED BY <3>2, <3>3, <1>5
  <2> QED BY <1>6, <2>1, <2>2 DEF RequestOK
<1>7. ASSUME NEW d, NEW q, AnswerOK(d, q)
      PROVE  AnswerOK(d, q)'
  BY <1>1, <1>3, <1>4, <1>7 DEF AnswerOK
<1>8. RequestOK(c, r)' /\ TaskOf(c, r)' = {t}
  <2>1. RequestOK(c, r)'
    BY <1>1, <1>2, <1>3 DEF RequestOK
  <2>2. ASSUME NEW u \in Task
        PROVE  u \in TaskOf(c, r)' <=> u = t
    BY <1>1, <1>2, <1>3, <1>4 DEF TaskOf, Issued
  <2> QED BY <2>1, <2>2 DEF TaskOf
<1>9. /\ DOMAIN up' = Conn /\ up'[c] = Append(up[c], r)
      /\ \A d \in Conn : d # c => up'[d] = up[d]
      /\ n \in Nat /\ IsSeq(up'[c]) /\ Len(up'[c]) = n + 1 /\ up'[c][n + 1] = r
      /\ \A i \in 1 .. n : up'[c][i] = up[c][i]
  <2>1. IsSeq(up[c]) /\ DOMAIN up = Conn
    BY DEF IInv, LinksOK
  <2> QED BY <1>1, <2>1, SeqFacts
<1>10. ASSUME NEW d \in Conn, NEW i \in 1 .. Len(up'[d])
       PROVE  \/ d = c /\ i = n + 1 /\ up'[d][i] = r
              \/ i \in 1 .. Len(up[d]) /\ up'[d][i] = up[d][i] /\ RequestOK(d, up[d][i])
  BY <1>9 DEF IInv, LinksOK
<1>11. LinksOK'
  <2>1. ASSUME NEW d \in Conn, NEW i \in 1 .. Len(up'[d])
        PROVE  RequestOK(d, up[d][i])'
    <3>1. PICK q : q = up'[d][i]
      OBVIOUS
    <3>2. RequestOK(d, q)'
      BY <3>1, <1>6, <1>8, <1>10
    <3> QED BY <3>1, <3>2 DEF RequestOK
  <2>2. ASSUME NEW d \in Conn, NEW i \in 1 .. Len(down'[d])
        PROVE  AnswerOK(d, down[d][i])'
    <3>1. PICK q : q = down[d][i]
      OBVIOUS
    <3>2. AnswerOK(d, q)'
      BY <3>1, <1>1, <1>7 DEF IInv, LinksOK
    <3> QED BY <3>1, <3>2, <1>1 DEF AnswerOK
  <2>3. \A d \in Conn : /\ IsSeq(up'[d]) /\ IsSeq(down'[d])
                        /\ conn'[d] # "open" => up'[d] = << >> /\ down'[d] = << >>
    BY <1>1, <1>9 DEF IInv, LinksOK
  <2> QED BY <1>1, <1>9, <2>1, <2>2, <2>3 DEF IInv, LinksOK
<1>12. ASSUME NEW w \in Worker
       PROVE  /\ JobOK(w)'
              /\ \A u \in Task : InHand(u, w)' => InHand(u, w) /\ u \in Issued
  <2>1. JobOK(w) /\ job' = job
    BY <1>1 DEF IInv
  <2>2. PICK d, q : d = job[w].conn /\ q = job[w].req
    OBVIOUS
  <2>3. job[w].pc = "handle" => /\ RequestOK(d, q)' /\ TaskOf(d, q)' = TaskOf(d, q)
                                /\ TaskOf(d, q) \subseteq Issued
    BY <2>1, <2>2, <1>6 DEF JobOK
  <2>4. JobOK(w)'
    BY <2>1, <2>2, <2>3 DEF JobOK, RequestOK
  <2>5. ASSUME NEW u \in Task, InHand(u, w)'
        PROVE  InHand(u, w) /\ u \in Issued
    <3>1. job[w].pc = "handle" /\ u \in TaskOf(d, q)'
      BY <2>1, <2>2, <2>5 DEF InHand, Req, TaskOf
    <3> QED BY <2>2, <2>3, <3>1 DEF InHand, Req
  <2> QED BY <2>4, <2>5
<1>13. ASSUME NEW u \in Task, NEW d \in Conn, NEW i, WaitsAt(u, d, i)'
       PROVE  \/ u = t /\ d = c /\ i = n + 1
              \/ u \in Issued /\ WaitsAt(u, d, i)
  <2>1. i \in 1 .. Len(up'[d])
    BY <1>13 DEF WaitsAt
  <2>2. PICK q : q = up'[d][i]
    OBVIOUS
  <2>3. u \in TaskOf(d, q)'
    BY <1>13, <2>2 DEF WaitsAt, TaskOf
  <2>4. CASE d = c /\ i = n + 1 /\ q = r
    BY <2>3, <2>4, <1>8
  <2>5. CASE i \in 1 .. Len(up[d]) /\ q = up[d][i] /\ RequestOK(d, q)
    BY <2>3, <2>5, <1>6 DEF WaitsAt
  <2> QED BY <2>1, <2>2, <2>4, <2>5, <1>10
<1>14. ASSUME NEW u \in Task
       PROVE  RequestInOnePlace(u)' /\ (OnItsWay(u)' => u = t \/ OnItsWay(u))
  <2>1. RequestInOnePlace(u)
    BY DEF IInv
  <2>2. ASSUME OnItsWay(u)'
        PROVE  u = t \/ OnItsWay(u)
    <3>1. CASE \E d \in Conn : \E i \in 1 .. Len(up'[d]) : WaitsAt(u, d, i)'
      BY <3>1, <1>13 DEF OnItsWay, WaitsAt
    <3>2. CASE \E w \in Worker : InHand(u, w)'
      BY <3>2, <1>12 DEF OnItsWay
    <3> QED BY <2>2, <3>1, <3>2 DEF OnItsWay
  <2>3. answers[t] = 0
    BY <1>1 DEF IInv, TaskOK
  <2>4. OnItsWay(u)' => answers'[u] = 0
    BY <2>1, <2>2, <2>3, <1>1 DEF RequestInOnePlace
  <2>5. RequestInOnePlace(u)'
    <3>1. CASE u = t
      BY <2>4, <3>1, <1>1, <1>12, <1>13 DEF RequestInOnePlace
    <3>2. CASE u # t
      BY <2>1, <2>4, <3>2, <1>12, <1>13, FewerPlaces
    <3> QED BY <3>1, <3>2
  <2> QED BY <2>2, <2>5
<1>15. ClientTypes'
  <2>1. g_cmdid' \in [Sip -> Nat]
    BY <1>1, <1>2
  <2> QED BY <2>1, <1>1, <1>2 DEF IInv, ClientTypes
<1>16. IdsDiffer'
  <2> DEFINE A == {u \in Task : stage[u] # "new"}
  <2>1. /\ IsFiniteSet(A) /\ t \notin A /\ Cardinality(A \cup {t}) = Cardinality(A) + 1
        /\ Cardinality(A) \in Nat
    BY <1>1, ScriptAssumption, FS_Subset, FS_AddElement, FS_CardinalityType
  <2>2. {u \in Task : stage'[u] # "new"} = A \cup {t}
    BY <1>2
  <2>3. \A x \in Sip : g_cmdid[x] <= Cardinality(A)
    BY DEF IInv, IdsDiffer
  <2>4. \A x \in Sip : g_cmdid'[x] <= Cardinality(A) + 1
    <3> HIDE DEF A
    <3> SUFFICES ASSUME NEW x \in Sip PROVE g_cmdid'[x] <= Cardinality(A) + 1
      OBVIOUS
    <3>1. g_cmdid[x] \in Nat /\ g_cmdid[x] <= Cardinality(A)
      BY <1>2, <2>3
    <3>2. g_cmdid'[x] = g_cmdid[x] \/ g_cmdid'[x] = g_cmdid[x] + 1
      BY <1>1, <1>2
    <3> QED BY <2>1, <3>1, <3>2
  <2>5. ASSUME NEW u \in Issued', NEW v \in Issued',
               Ask'[u].sip = Ask'[v].sip, cmd'[u].m_cmd_id = cmd'[v].m_cmd_id
        PROVE  u = v
    <3>1. CASE u = t \/ v = t
      <4>1. ASSUME NEW x \in Issued', x # t
            PROVE  ~ (Ask[x].sip = s /\ cmd'[x].m_cmd_id = id)
        BY <4>1, <1>3, <1>4
      <4>2. Ask[t].sip = s /\ cmd'[t].m_cmd_id = id
        BY <1>1, <1>2
      <4> QED BY <2>5, <3>1, <4>1, <4>2, <1>3
    <3>2. CASE u # t /\ v # t
      BY <2>5, <3>2, <1>3, <1>4 DEF IInv, IdsDiffer
    <3> QED BY <3>1, <3>2
  <2> QED BY <2>1, <2>2, <2>4, <2>5 DEF IdsDiffer
<1>17. ASSUME NEW u \in Task
       PROVE  TaskOK(u)'
  <2>1. TaskOK(u) /\ TaskOK(t)
    BY DEF IInv
  <2>2. ASSUME NEW x \in DOMAIN Ask, \A y \in script.before[x] : stage[y] = "done"
        PROVE  \A y \in script'.before[x] : stage'[y] = "done"
    <3> SUFFICES ASSUME NEW y \in script.before[x] PROVE stage'[y] = "done"
      BY <1>1
    <3>1. stage[y] = "done" /\ y \in Task
      BY <2>2, AskFacts DEF IInv, ClientTypes
    <3> QED BY <3>1, <1>1, <1>2
  <2>3. CASE u = t
    <3>1. answers'[t] = 0 /\ outcome'[t] = None
      BY <2>1, <1>1 DEF TaskOK
    <3>2. cmd'[t].m_cmd_id \in 1 .. g_cmdid'[Ask'[t].sip]
      <4>1. cmd'[t].m_cmd_id = id /\ g_cmdid'[Ask'[t].sip] = id
        BY <1>1, <1>2, <1>3
      <4>2. id \in 1 .. id
        BY <1>1
      <4> QED BY <4>1, <4>2
    <3> QED BY <2>2, <2>3, <3>1, <3>2, <1>1, <1>2, <1>3 DEF TaskOK
  <2>4. CASE u # t
    <3>1. /\ stage'[u] = stage[u] /\ outcome'[u] = outcome[u] /\ answers'[u] = answers[u]
          /\ cmd'[u] = cmd[u] /\ (u \in Issued' <=> u \in Issued)
      BY <2>4, <1>1, <1>2, <1>3
    <3>2. u \in Issued => cmd[u].m_cmd_id \in 1 .. g_cmdid'[Ask[u].sip]
      <4> SUFFICES ASSUME u \in Issued PROVE cmd[u].m_cmd_id \in 1 .. g_cmdid'[Ask[u].sip]
        OBVIOUS
      <4>1. PICK x \in Sip : x = Ask[u].sip /\ cmd[u].m_cmd_id \in 1 .. g_cmdid[x]
        BY <1>4
      <4>2. g_cmdid[x] \in Nat /\ (g_cmdid'[x] = g_cmdid[x] \/ g_cmdid'[x] = g_cmdid[x] + 1)
        BY <1>1, <1>2
      <4> QED BY <4>1, <4>2
    <3> QED BY <2>1, <2>2, <3>1, <3>2, <1>3 DEF TaskOK
  <2> QED BY <2>3, <2>4
<1>18. ServerTypes'
  BY <1>1, <1>3 DEF IInv, ServerTypes, bufVars, portVars
<1>19. RequestBufferInOnePlace'
  BY <1>1, HandlingKept DEF IInv, RequestBufferInOnePlace, bufVars
<1> QED BY <1>11, <1>12, <1>14, <1>15, <1>16, <1>17, <1>18, <1>19 DEF IInv

-----------------------------------------------------------------------------
(* The invariant. *)

LEMMA InitInv == Init => IInv
<1> SUFFICES ASSUME Init PROVE IInv
  OBVIOUS
<1> USE DEF Init
<1>1. ServerTypes
  BY ServerAssumption DEF ServerTypes
<1>2. ClientTypes
  <2>1. told \in [Sip -> Pair \cup {None}]
    BY ScriptAssumption
  <2> QED BY <2>1 DEF ClientTypes, Outcomes
<1>3. LinksOK
  BY EmptyIsSeq DEF LinksOK
<1>4. Issued = {} /\ \A c, r : TaskOf(c, r) = {}
  BY DEF Issued, TaskOf, NoCmd
<1>5. IdsDiffer
  <2>1. {t \in Task : stage[t] # "new"} = {}
    OBVIOUS
  <2>2. Cardinality({t \in Task : stage[t] # "new"}) = 0
    BY <2>1, FS_EmptySet
  <2>3. \A s \in Sip : g_cmdid[s] <= Cardinality({t \in Task : stage[t] # "new"})
    BY <2>2
  <2> QED BY <1>4, <2>3 DEF IdsDiffer
<1>6. \A w \in Worker : JobOK(w) /\ job[w].pc = "idle"
  BY DEF JobOK, Idle
<1>7. \A t \in Task : TaskOK(t)
  BY <1>4 DEF TaskOK
<1>8. \A t \in Task : RequestInOnePlace(t)
  BY <1>4, <1>6 DEF RequestInOnePlace, WaitsAt, InHand
<1>9. RequestBufferInOnePlace
  <2>1. Handling = {}
    BY <1>6 DEF Handling
  <2> QED BY <2>1, FS_EmptySet, ServerAssumption DEF RequestBufferInOnePlace
<1> QED BY <1>1, <1>2, <1>3, <1>5, <1>6, <1>7, <1>8, <1>9 DEF IInv

LEMMA DealStep ==
  ASSUME IInv, NEW w \in Worker, Deal(w)
  PROVE  IInv'
BY DealGetPortsStep, DealFreePortsStep, DealStartCallStep, UpdateAfterStartStep,
   DealBuildPathStep, DealStopCallStep, DealKeepAliveStep, DealShakeHandStep,
   DealSipproxyOfflineStep DEF Deal

LEMMA StutterStep ==
  ASSUME IInv, UNCHANGED vars
  PROVE  IInv'
<1> USE DEF vars
<1>1. ServerTypes'
  BY DEF IInv, ServerTypes, Ask, bufVars, portVars
<1>2. RequestBufferInOnePlace'
  BY HandlingKept DEF IInv, RequestBufferInOnePlace, bufVars
<1>3. \A c \in Conn : conn'[c] # "open" => up[c] = << >> /\ down[c] = << >>
  BY DEF IInv, LinksOK
<1> QED BY <1>1, <1>2, <1>3, OnlyBuffers

LEMMA InvStep == IInv /\ [Next]_vars => IInv'
<1> SUFFICES ASSUME IInv, [Next]_vars PROVE IInv'
  OBVIOUS
<1>1. ASSUME NEW c \in Conn, Open(c) \/ Disconnect(c) \/ KeepAlive(c) \/ ClientRead(c) \/ ReadFails(c)
      PROVE  IInv'
  BY <1>1, OpenStep, DisconnectStep, KeepAliveStep, ClientReadStep, ReadFailsStep
<1>2. ASSUME NEW t \in Task, IssueRefused(t) \/ Timeout(t)
      PROVE  IInv'
  BY <1>2, IssueRefusedStep, TimeoutStep
<1>3. ASSUME NEW t \in Task, NEW c \in Conn, Issue(t, c)
      PROVE  IInv'
  BY <1>3, IssueStep
<1>4. ASSUME NEW w \in Worker, NEW c \in Conn, ReadCommand(w, c)
      PROVE  IInv'
  BY <1>4, ReadDropped, ReadHandled
<1>5. ASSUME NEW w \in Worker, Deal(w)
      PROVE  IInv'
  BY <1>5, DealStep
<1>6. CASE WriteDone
  BY <1>6, WriteDoneStep
<1>7. ASSUME NEW p \in Pair, ErrorSession(p)
      PROVE  IInv'
  BY <1>7, ErrorSessionStep
<1>8. CASE UNCHANGED vars
  BY <1>8, StutterStep
<1> QED BY <1>1, <1>2, <1>3, <1>4, <1>5, <1>6, <1>7, <1>8 DEF Next

\* The inductive invariant: what the connections carry, what the workers hold
\* and what the client waits for belong together.
THEOREM Invariant == Spec => []IInv
BY InitInv, InvStep, PTL DEF Spec

-----------------------------------------------------------------------------
(* What the runs check. *)

LEMMA AtMost ==
  ASSUME IInv
  PROVE  {free, writing, lost} \subseteq 0 .. NBuf
<1>1. PICK p, h \in Nat : free + p + h + writing + lost = NBuf
  BY CountingBuffers DEF IInv, RequestBufferInOnePlace
<1>2. free \in Nat /\ writing \in Nat /\ lost \in Nat
  BY DEF IInv, ServerTypes
<1>3. free <= NBuf /\ writing <= NBuf /\ lost <= NBuf
  BY <1>1, <1>2, ServerAssumption
<1> QED BY <1>2, <1>3, ServerAssumption

\* Each variable stays in its type; in particular a SipProxy makes no more
\* requests than it has tasks, and the buffers stay within the pool's.
THEOREM TypeCorrect == Spec => []TypeOK
<1>1. IInv => TypeOK
  <2> SUFFICES ASSUME IInv PROVE TypeOK
    OBVIOUS
  <2>1. g_cmdid \in [Sip -> 0 .. Cardinality(Task)]
    <3>1. ASSUME NEW s \in Sip
          PROVE  g_cmdid[s] \in 0 .. Cardinality(Task)
      <4> DEFINE A == {t \in Task : stage[t] # "new"}
      <4>1. A \subseteq Task /\ IsFiniteSet(Task)
        BY ScriptAssumption
      <4>2. /\ Cardinality(A) <= Cardinality(Task)
            /\ Cardinality(A) \in Nat /\ Cardinality(Task) \in Nat
        BY <4>1, FS_Subset, FS_CardinalityType
      <4>3. g_cmdid[s] \in Nat /\ g_cmdid[s] <= Cardinality(A)
        BY DEF IInv, ClientTypes, IdsDiffer
      <4> HIDE DEF A
      <4> QED BY <4>2, <4>3
    <3> QED BY <3>1 DEF IInv, ClientTypes
  <2>2. \A c \in Conn : conn[c] # "open" => up[c] = << >> /\ down[c] = << >>
    BY DEF IInv, LinksOK
  <2>3. \A w \in Worker : /\ job[w].pc \in {"idle", "handle", "update"}
                          /\ job[w].pc # "idle" =>
                               job[w].conn \in Conn /\ job[w].req.m_cmd_type \in DOMAIN Class
    BY DEF IInv, JobOK
  <2>4. call_at \in [Pair -> Task \cup {None}]
    BY AskFacts DEF IInv, ServerTypes, ClientTypes
  <2>5. answers \in [Task -> 0 .. 2]
    BY DEF IInv, ClientTypes
  <2>6. /\ conn \in [Conn -> {"new", "open", "closed"}] /\ posted \subseteq Conn
        /\ holder \in [Pair -> (Sip \X Nat) \cup {None}]
        /\ m_cid \in [Sip -> Conn \cup {None}] /\ reported \subseteq Task
        /\ handled \subseteq Task
    BY DEF IInv, ServerTypes
  <2>7. /\ script \in Script /\ stage \in [Task -> {"new", "doing", "done"}]
        /\ outcome \in [Task -> Outcomes] /\ told \in [Sip -> Pair \cup {None}]
    BY DEF IInv, ClientTypes
  <2> QED BY <2>1, <2>2, <2>3, <2>4, <2>5, <2>6, <2>7, AtMost DEF TypeOK
<1> QED BY <1>1, Invariant, PTL

\* A buffer of the pool is free, posted for reading, with the worker that
\* handles its command, being written or lost, whatever order the reads, the
\* handlers and the writes come in.
THEOREM BufferInOnePlace == Spec => []RequestBufferInOnePlace
<1>1. IInv => RequestBufferInOnePlace
  BY DEF IInv
<1> QED BY <1>1, Invariant, PTL

\* A task is answered at most once: its request is at one place, and leaves the
\* server's hands with the answer.
THEOREM AnsweredAtMostOnce == Spec => []AnsweredOnce
<1>1. IInv => AnsweredOnce
  BY DEF IInv, ClientTypes, AnsweredOnce
<1> QED BY <1>1, Invariant, PTL

-----------------------------------------------------------------------------
(* The pair of a SipProxy. *)

\* One that follows the rules has followed them.
LEMMA FollowsSince ==
  ASSUME IInv, UNCHANGED script, NEW s \in Sip, Follows(s)',
         \A t \in Task : stage[t] = "done" => outcome'[t] = outcome[t]
  PROVE  Follows(s)
<1>1. ASSUME TimedOut(s)
      PROVE  TimedOut(s)'
  <2>1. PICK t \in DOMAIN Ask : Ask[t].sip = s /\ outcome[t] = "RA_TIMEOUT"
    BY <1>1 DEF TimedOut
  <2>2. t \in Task /\ "RA_TIMEOUT" # None
    BY <2>1, AskFacts, NoneAssumption DEF IInv, ClientTypes
  <2>3. outcome'[t] = "RA_TIMEOUT"
    BY <2>1, <2>2 DEF IInv, TaskOK
  <2> QED BY <2>1, <2>3 DEF TimedOut, Ask
<1> QED BY <1>1 DEF Follows, AsksWhileGivingBack, Ask

\* It does not ask for a pair while it gives one back.
LEMMA NotAtOnce ==
  ASSUME IInv, NEW s, Follows(s), NEW t \in Issued, NEW u \in Issued,
         Ask[t].sip = s, Ask[t].type = "RA_GET_PORTS_REQ", stage[t] = "doing",
         Ask[u].sip = s, Ask[u].type \in GivesBack
  PROVE  stage[u] # "doing"
<1>1. t \in DOMAIN Ask /\ \A x \in script.before[t] : stage[x] = "done"
  BY DEF IInv, TaskOK, Issued
<1>2. u \in DOMAIN Ask /\ \A x \in script.before[u] : stage[x] = "done"
  BY DEF IInv, TaskOK, Issued
<1> QED BY <1>1, <1>2 DEF Follows, AsksWhileGivingBack

\* An answer brings the pair that is kept.
Comes(c, r) ==
  r.m_cmd_type = "RA_GET_PORTS_RESP" /\ r.m_ec = "RA_SUC" => KeptFor(ConnOf[c], r.m_portpair)

\* What a step that handles no answer and issues nothing has to show.
LEMMA ServerKeepsPairs ==
  ASSUME IInv, PairInv, UNCHANGED <<script, taskVars>>,
         \A t \in Task : OnItsWay(t)' => OnItsWay(t),
         \A s \in Sip, p \in Pair : KeptFor(s, p) =>
           \/ KeptFor(s, p)'
           \/ \E u \in Issued : Ask[u].sip = s /\ Ask[u].type \in GivesBack /\ OnItsWay(u),
         \A c \in Conn : \A r : (\E i \in 1 .. Len(down'[c]) : r = down'[c][i])
           => Comes(c, r)' \/ \E j \in 1 .. Len(down[c]) : r = down[c][j]
  PROVE  PairInv'
<1> SUFFICES ASSUME NEW s \in Sip, Follows(s)'
             PROVE  (WaitsForAnswers(s) /\ HasItsPair(s) /\ PairComes(s))'
  BY DEF PairInv
<1> USE DEF taskVars
<1>1. Follows(s)
  BY FollowsSince
<1>2. WaitsForAnswers(s) /\ HasItsPair(s) /\ PairComes(s)
  BY <1>1 DEF PairInv
<1>3. Issued' = Issued /\ Ask' = Ask /\ Issued \subseteq Task
  BY DEF Issued, Ask
<1>4. WaitsForAnswers(s)'
  BY <1>2, <1>3 DEF WaitsForAnswers
<1>5. HasItsPair(s)'
  <2> SUFFICES ASSUME told[s] # None
               PROVE  /\ KeptFor(s, told[s])'
                      /\ \A t \in Issued : Ask[t].sip = s /\ Ask[t].type \in GivesBack
                           => ~ OnItsWay(t)'
    BY <1>3 DEF HasItsPair
  <2>1. PICK p \in Pair : p = told[s]
    BY DEF IInv, ClientTypes
  <2>2. KeptFor(s, p) /\ \A t \in Issued : Ask[t].sip = s /\ Ask[t].type \in GivesBack
                           => ~ OnItsWay(t)
    BY <1>2, <2>1 DEF HasItsPair
  <2>3. KeptFor(s, p)'
    BY <2>2
  <2> QED BY <1>3, <2>1, <2>2, <2>3 DEF KeptFor
<1>6. PairComes(s)'
  <2> SUFFICES ASSUME NEW c \in Conn, NEW i \in 1 .. Len(down'[c]), ConnOf[c] = s,
                      down'[c][i].m_cmd_type = "RA_GET_PORTS_RESP",
                      down'[c][i].m_ec = "RA_SUC",
                      NEW t \in TaskOf(c, down[c][i])', stage'[t] = "doing"
               PROVE  KeptFor(s, down[c][i].m_portpair)'
    BY DEF PairComes
  <2>1. PICK r : r = down'[c][i]
    OBVIOUS
  <2>2. stage[t] = "doing" /\ t \in TaskOf(c, r)
    BY <2>1, <1>3 DEF TaskOf
  <2>3. CASE \E j \in 1 .. Len(down[c]) : r = down[c][j]
    <3>1. KeptFor(s, r.m_portpair) /\ AnswerOK(c, r)
      BY <2>1, <2>2, <2>3, <1>2 DEF PairComes, IInv, LinksOK
    <3>2. PICK x \in Issued : /\ Ask[x].sip = s /\ cmd[x].m_cmd_id = r.m_cmd_id
                              /\ Ask[x].type = "RA_GET_PORTS_REQ" /\ r.m_portpair \in Pair
      BY <2>1, <3>1 DEF AnswerOK
    <3>3. x = t
      BY <2>2, <3>2, TaskOfFacts
    <3>4. ~ \E u \in Issued : Ask[u].sip = s /\ Ask[u].type \in GivesBack /\ OnItsWay(u)
      BY <1>1, <1>2, <2>2, <3>2, <3>3, NotAtOnce DEF WaitsForAnswers
    <3>5. KeptFor(s, r.m_portpair)'
      BY <3>1, <3>2, <3>4
    <3> QED BY <2>1, <3>5 DEF KeptFor
  <2>4. CASE Comes(c, r)'
    BY <2>1, <2>4 DEF Comes, KeptFor
  <2> QED BY <2>1, <2>3, <2>4
<1> QED BY <1>4, <1>5, <1>6

\* Requests that are on their way have been on their way.
LEMMA NothingNew ==
  ASSUME IInv, UNCHANGED <<script, cmd>>,
         \A c \in Conn : \A i \in 1 .. Len(up'[c]) :
           up'[c][i].m_cmd_id = 0 \/ \E j \in 1 .. Len(up[c]) : up'[c][i] = up[c][j],
         \A w \in Worker : job'[w].pc = "handle" =>
           \/ job'[w] = job[w]
           \/ \E c \in Conn : \E j \in 1 .. Len(up[c]) :
                job'[w].conn = c /\ job'[w].req = up[c][j]
  PROVE  \A t \in Task : OnItsWay(t)' => OnItsWay(t)
<1> SUFFICES ASSUME NEW t \in Task, OnItsWay(t)' PROVE OnItsWay(t)
  OBVIOUS
<1>1. \A c, q : TaskOf(c, q)' = TaskOf(c, q)
  BY DEF TaskOf, Ask
<1>2. ASSUME NEW c \in Conn, NEW i \in 1 .. Len(up'[c]), WaitsAt(t, c, i)'
      PROVE  OnItsWay(t)
  <2>1. PICK q : q = up'[c][i]
    OBVIOUS
  <2>2. t \in TaskOf(c, q)
    BY <1>2, <2>1 DEF WaitsAt, TaskOf, Ask
  <2>3. q.m_cmd_id # 0
    BY <2>2, TaskOfFacts
  <2>4. PICK j \in 1 .. Len(up[c]) : q = up[c][j]
    BY <2>1, <2>3
  <2> QED BY <2>2, <2>4 DEF OnItsWay, WaitsAt
<1>3. ASSUME NEW w \in Worker, InHand(t, w)'
      PROVE  OnItsWay(t)
  <2>1. job'[w].pc = "handle"
    BY <1>3 DEF InHand
  <2>2. PICK d, q : d = job'[w].conn /\ q = job'[w].req
    OBVIOUS
  <2>3. t \in TaskOf(d, q)
    BY <1>3, <2>2 DEF InHand, Req, TaskOf, Ask
  <2>4. CASE job'[w] = job[w]
    BY <2>1, <2>2, <2>3, <2>4 DEF OnItsWay, InHand, Req
  <2>5. CASE \E c \in Conn : \E j \in 1 .. Len(up[c]) : d = c /\ q = up[c][j]
    BY <2>3, <2>5 DEF OnItsWay, WaitsAt
  <2> QED BY <2>1, <2>2, <2>4, <2>5
<1> QED BY <1>2, <1>3 DEF OnItsWay

\* Steps of the connections keep what they carry or lose it.
LEMMA CarriesLess ==
  ASSUME IInv, PairInv, UNCHANGED <<script, taskVars, holder>>,
         \A t \in Task : OnItsWay(t)' => OnItsWay(t),
         \A c \in Conn : down'[c] = down[c] \/ down'[c] = << >>
  PROVE  PairInv'
<1>1. \A s \in Sip, p \in Pair : KeptFor(s, p) => KeptFor(s, p)'
  BY DEF KeptFor
<1>2. ASSUME NEW c \in Conn, NEW r, \E i \in 1 .. Len(down'[c]) : r = down'[c][i]
      PROVE  \E j \in 1 .. Len(down[c]) : r = down[c][j]
  BY <1>2, EmptyIsSeq
<1> QED BY <1>1, <1>2, ServerKeepsPairs

LEMMA QuietPairs ==
  ASSUME IInv, PairInv, UNCHANGED <<script, taskVars, holder, up, down, job>>
  PROVE  PairInv'
<1>1. \A t \in Task : OnItsWay(t)' => OnItsWay(t)
  BY DEF OnItsWay, WaitsAt, InHand, TaskOf, Ask, Req, taskVars
<1> QED BY <1>1, CarriesLess

LEMMA ClosePairs ==
  ASSUME IInv, PairInv, NEW c \in Conn, Close(c), UNCHANGED <<script, taskVars, holder, job>>
  PROVE  PairInv'
<1>1. /\ DOMAIN up = Conn /\ DOMAIN down = Conn
  BY DEF IInv, LinksOK
<1>2. \A d \in Conn : /\ up'[d] = up[d] \/ up'[d] = << >>
                      /\ down'[d] = down[d] \/ down'[d] = << >>
  BY <1>1 DEF Close
<1>3. ASSUME NEW d \in Conn, NEW i \in 1 .. Len(up'[d])
      PROVE  \E j \in 1 .. Len(up[d]) : up'[d][i] = up[d][j]
  BY <1>2, EmptyIsSeq
<1>4. \A t \in Task : OnItsWay(t)' => OnItsWay(t)
  BY <1>3, NothingNew DEF taskVars
<1> QED BY <1>2, <1>4, CarriesLess

LEMMA KeepAlivePairs ==
  ASSUME IInv, PairInv, NEW c \in Conn, KeepAlive(c)
  PROVE  PairInv'
<1> USE DEF KeepAlive
<1>1. PICK r : up' = [up EXCEPT ![c] = <<r>>] /\ r.m_cmd_id = 0
  <2> DEFINE s == ConnOf[c]
             fields == [m_sipproxy_id |-> s, m_sipproxy_fake_id |-> s,
                        m_version |-> script.version[s]]
  <2>1. "m_cmd_type" \notin DOMAIN fields /\ "m_cmd_id" \notin DOMAIN fields
    OBVIOUS
  <2>2. up' = [up EXCEPT ![c] = <<NewCmd("RA_KEEP_ALIVE_REQ", fields)>>]
    OBVIOUS
  <2> HIDE DEF fields
  <2>3. \A g : "m_cmd_type" \notin DOMAIN g =>
          NewCmd("RA_KEEP_ALIVE_REQ", g).m_cmd_id =
            IF "m_cmd_id" \in DOMAIN g THEN g["m_cmd_id"] ELSE 0
    BY NewCmdHead
  <2> QED BY <2>1, <2>2, <2>3
<1>2. Len(<<r>>) = 1 /\ <<r>>[1] = r
  BY OneIsSeq
<1>3. ASSUME NEW d \in Conn, NEW i \in 1 .. Len(up'[d])
      PROVE  up'[d][i].m_cmd_id = 0 \/ \E j \in 1 .. Len(up[d]) : up'[d][i] = up[d][j]
  <2>1. CASE d = c
    BY <1>1, <1>2, <2>1 DEF IInv, LinksOK
  <2>2. CASE d # c
    BY <1>1, <2>2 DEF IInv, LinksOK
  <2> QED BY <2>1, <2>2
<1>4. \A t \in Task : OnItsWay(t)' => OnItsWay(t)
  BY <1>3, NothingNew DEF taskVars
<1> QED BY <1>4, CarriesLess DEF portVars

LEMMA ReadPairs ==
  ASSUME IInv, PairInv, NEW w \in Worker, NEW c \in Conn, ReadCommand(w, c)
  PROVE  PairInv'
<1>1. CASE free = 0
  BY <1>1, ClosePairs DEF ReadCommand, portVars
<1>2. CASE free # 0
  <2>1. /\ job' = [job EXCEPT ![w] = [pc |-> "handle", conn |-> c, req |-> Head(up[c])]]
        /\ up' = [up EXCEPT ![c] = Tail(up[c])] /\ up[c] # << >>
        /\ UNCHANGED <<down, holder, script, taskVars>>
    BY <1>2 DEF ReadCommand, portVars
  <2>2. /\ Len(up[c]) \in Nat /\ Len(up[c]) >= 1 /\ Head(up[c]) = up[c][1]
        /\ Len(Tail(up[c])) = Len(up[c]) - 1
        /\ \A i \in 1 .. Len(up[c]) - 1 : Tail(up[c])[i] = up[c][i + 1]
    BY <2>1, SeqFacts DEF IInv, LinksOK
  <2>3. /\ DOMAIN up = Conn /\ up'[c] = Tail(up[c])
        /\ \A d \in Conn : d # c => up'[d] = up[d]
    BY <2>1 DEF IInv, LinksOK
  <2>4. ASSUME NEW d \in Conn, NEW i \in 1 .. Len(up'[d])
        PROVE  \E j \in 1 .. Len(up[d]) : up'[d][i] = up[d][j]
    <3>1. CASE d = c
      <4>1. i + 1 \in 1 .. Len(up[c]) /\ Tail(up[c])[i] = up[c][i + 1]
        BY <2>2, <2>3, <3>1
      <4> QED BY <2>3, <3>1, <4>1
    <3>2. CASE d # c
      BY <2>3, <3>2
    <3> QED BY <3>1, <3>2
  <2>5. ASSUME NEW v \in Worker
        PROVE  \/ job'[v] = job[v]
               \/ \E d \in Conn : \E j \in 1 .. Len(up[d]) :
                    job'[v].conn = d /\ job'[v].req = up[d][j]
    <3>1. CASE v = w
      <4>1. job'[v].conn = c /\ job'[v].req = up[c][1]
        BY <2>1, <2>2, <3>1 DEF IInv, JobOK
      <4>2. 1 \in 1 .. Len(up[c])
        BY <2>2
      <4> QED BY <4>1, <4>2
    <3>2. CASE v # w
      BY <2>1, <3>2 DEF IInv, JobOK
    <3> QED BY <3>1, <3>2
  <2>6. \A t \in Task : OnItsWay(t)' => OnItsWay(t)
    BY <2>1, <2>4, <2>5, NothingNew DEF taskVars
  <2> QED BY <2>1, <2>6, CarriesLess
<1> QED BY <1>1, <1>2

LEMMA UpdatePairs ==
  ASSUME IInv, PairInv, NEW w \in Worker, UpdateAfterStart(w)
  PROVE  PairInv'
<1> USE DEF UpdateAfterStart
<1>1. \A v \in Worker : job'[v].pc = "handle" => job'[v] = job[v]
  BY DEF IInv, JobOK, Idle
<1>2. \A t \in Task : OnItsWay(t)' => OnItsWay(t)
  BY <1>1, NothingNew DEF taskVars
<1> QED BY <1>2, CarriesLess DEF portVars

LEMMA SentDown ==
  ASSUME IInv, NEW c \in Conn, NEW r, DoBackChores(c, r),
         NEW d \in Conn, NEW i \in 1 .. Len(down'[d])
  PROVE  \/ d = c /\ down'[d][i] = r
         \/ \E j \in 1 .. Len(down[d]) : down'[d][i] = down[d][j]
<1>1. DOMAIN down = Conn /\ IsSeq(down[d])
  BY DEF IInv, LinksOK
<1>2. CASE d = c /\ conn[c] = "open"
  <2>1. down'[d] = Append(down[d], r)
    BY <1>1, <1>2 DEF DoBackChores
  <2>2. /\ Len(down[d]) \in Nat /\ Len(down'[d]) = Len(down[d]) + 1
        /\ \A j \in 1 .. Len(down[d]) : down'[d][j] = down[d][j]
        /\ down'[d][Len(down[d]) + 1] = r
    BY <1>1, <2>1, SeqFacts
  <2> QED BY <1>2, <2>2
<1>3. CASE ~ (d = c /\ conn[c] = "open")
  BY <1>1, <1>3 DEF DoBackChores
<1> QED BY <1>2, <1>3

LEMMA ErrorSessionPairs ==
  ASSUME IInv, PairInv, NEW p \in Pair, ErrorSession(p)
  PROVE  PairInv'
<1>1. call_at[p] # None /\ UNCHANGED <<up, job, holder, script, taskVars>>
  BY DEF ErrorSession, portVars
<1>2. CASE UNCHANGED down
  BY <1>1, <1>2, QuietPairs
<1>3. CASE ~ UNCHANGED down
  <2>1. PICK c, r : /\ c = m_cid[Ask[call_at[p]].sip] /\ c # None /\ DoBackChores(c, r)
                    /\ r = NewCmd("RA_ERROR_CALL_RESP", [m_call_id |-> call_at[p]])
    BY <1>3 DEF ErrorSession
  <2>2. c \in Conn
    BY <1>1, <2>1, AskFacts DEF IInv, ServerTypes, ClientTypes
  <2>3. r.m_cmd_type = "RA_ERROR_CALL_RESP"
    <3> DEFINE fields == [m_call_id |-> call_at[p]]
    <3>1. "m_cmd_type" \notin DOMAIN fields /\ r = NewCmd("RA_ERROR_CALL_RESP", fields)
      BY <2>1
    <3> HIDE DEF fields
    <3>2. \A g : "m_cmd_type" \notin DOMAIN g =>
            NewCmd("RA_ERROR_CALL_RESP", g).m_cmd_type = "RA_ERROR_CALL_RESP"
      BY NewCmdHead
    <3> QED BY <3>1, <3>2
  <2>4. Comes(c, r)'
    BY <2>3 DEF Comes
  <2>5. \A d \in Conn : \A q : (\E i \in 1 .. Len(down'[d]) : q = down'[d][i])
           => Comes(d, q)' \/ \E j \in 1 .. Len(down[d]) : q = down[d][j]
    <3>1. \A d \in Conn : \A q : (\E i \in 1 .. Len(down'[d]) : q = down'[d][i])
             => (d = c /\ q = r) \/ \E j \in 1 .. Len(down[d]) : q = down[d][j]
      BY <2>1, <2>2, SentDown
    <3> QED BY <2>4, <3>1
  <2>6. \A t \in Task : OnItsWay(t)' => OnItsWay(t)
    BY <1>1 DEF OnItsWay, WaitsAt, InHand, TaskOf, Ask, Req, taskVars
  <2>7. \A s \in Sip, q \in Pair : KeptFor(s, q) => KeptFor(s, q)'
    BY <1>1 DEF KeptFor
  <2> QED BY <1>1, <2>5, <2>6, <2>7, ServerKeepsPairs
<1> QED BY <1>2, <1>3

LEMMA HandlerPairs ==
  ASSUME IInv, PairInv, NEW w \in Worker, LetsGo(w),
         \A s \in Sip, p \in Pair : KeptFor(s, p) =>
           \/ KeptFor(s, p)'
           \/ \E u \in Issued : Ask[u].sip = s /\ Ask[u].type \in GivesBack /\ OnItsWay(u),
         \A c \in Conn : \A r : (\E i \in 1 .. Len(down'[c]) : r = down'[c][i])
           => Comes(c, r)' \/ \E j \in 1 .. Len(down[c]) : r = down[c][j]
  PROVE  PairInv'
<1>1. UNCHANGED <<up, script, taskVars>>
  BY DEF LetsGo
<1>2. \A v \in Worker : job'[v].pc = "handle" => job'[v] = job[v]
  <2>1. /\ DOMAIN job = Worker
        /\ job[w] = [pc |-> job[w].pc, conn |-> job[w].conn, req |-> job[w].req]
    BY DEF IInv, JobOK
  <2>2. /\ \A v \in Worker : v # w => job'[v] = job[v]
        /\ \/ job'[w] = Idle
           \/ job'[w] = [pc |-> "update", conn |-> job[w].conn, req |-> job[w].req]
    BY <2>1 DEF LetsGo
  <2> QED BY <2>2 DEF Idle
<1>3. \A t \in Task : OnItsWay(t)' => OnItsWay(t)
  BY <1>1, <1>2, NothingNew DEF taskVars
<1> QED BY <1>1, <1>3, ServerKeepsPairs

\* The answer of a handler brings a pair only from get_ports.
LEMMA ReplyPairs ==
  ASSUME IInv, PairInv, NEW w \in Worker, LetsGo(w),
         NEW type, NEW fields, AnswerFields(w, type, fields),
         DoBackChores(job[w].conn, RespTo(Req(w), type, fields)),
         \A s \in Sip, p \in Pair : KeptFor(s, p) =>
           \/ KeptFor(s, p)'
           \/ \E u \in Issued : Ask[u].sip = s /\ Ask[u].type \in GivesBack /\ OnItsWay(u),
         \A s, p : /\ type = "RA_GET_PORTS_RESP" /\ fields["m_ec"] = "RA_SUC"
                   /\ s = ConnOf[job[w].conn] /\ p = fields["m_portpair"]
                   => KeptFor(s, p)'
  PROVE  PairInv'
<1>1. PICK c, r : /\ c = job[w].conn /\ r = RespTo(Req(w), type, fields)
                  /\ DoBackChores(c, r)
  OBVIOUS
<1>2. /\ r.m_cmd_type = type
      /\ \A f : f \in DOMAIN r <=> f \in ToSet(CmdHead.ser) \cup ToSet(Class[type].ser)
      /\ \A f \in DOMAIN r : f \in DOMAIN fields => r[f] = fields[f]
  BY <1>1, AnswerCarries
<1>3. c \in Conn
  BY <1>1, HandledRequest DEF LetsGo
<1>4. Comes(c, r)'
  <2> SUFFICES ASSUME type = "RA_GET_PORTS_RESP", r.m_ec = "RA_SUC"
               PROVE  KeptFor(ConnOf[c], r.m_portpair)'
    BY <1>2 DEF Comes
  <2>1. "m_ec" \in DOMAIN r /\ "m_portpair" \in DOMAIN r
    BY <1>2, ClassFields
  <2>2. "m_ec" \in DOMAIN fields /\ fields["m_ec"] = "RA_SUC"
    BY <1>2, <2>1 DEF AnswerFields
  <2>3. fields["m_portpair"] = r.m_portpair
    BY <1>2, <2>1, <2>2 DEF AnswerFields
  <2>4. PICK s, p : s = ConnOf[c] /\ p = r.m_portpair
    OBVIOUS
  <2>5. KeptFor(s, p)'
    BY <1>1, <2>2, <2>3, <2>4
  <2> QED BY <2>4, <2>5 DEF KeptFor
<1>5. ASSUME NEW d \in Conn, NEW q, \E i \in 1 .. Len(down'[d]) : q = down'[d][i]
      PROVE  Comes(d, q)' \/ \E j \in 1 .. Len(down[d]) : q = down[d][j]
  <2>1. (d = c /\ q = r) \/ \E j \in 1 .. Len(down[d]) : q = down[d][j]
    BY <1>1, <1>3, <1>5, SentDown
  <2> QED BY <1>4, <2>1
<1> QED BY <1>5, HandlerPairs

\* A handler that leaves the pairs alone.
LEMMA PlainReplyPairs ==
  ASSUME IInv, PairInv, NEW w \in Worker, LetsGo(w), UNCHANGED holder,
         NEW type, NEW fields, AnswerFields(w, type, fields),
         type # "RA_GET_PORTS_RESP" \/ fields["m_ec"] # "RA_SUC",
         DoBackChores(job[w].conn, RespTo(Req(w), type, fields))
  PROVE  PairInv'
<1>1. \A s \in Sip, p \in Pair : KeptFor(s, p) => KeptFor(s, p)'
  BY DEF KeptFor
<1> QED BY <1>1, ReplyPairs

LEMMA RefusePairs ==
  ASSUME IInv, PairInv, NEW w \in Worker, NEW type, job[w].pc = "handle",
         type = "RA_GET_PORTS_RESP" => Req(w).m_cmd_type = "RA_GET_PORTS_REQ",
         Refuse(w, type)
  PROVE  PairInv'
<1> DEFINE fields == [m_ec |-> "RA_VERSION_INCONFORMITY"]
<1>1. AnswerFields(w, type, fields) /\ fields["m_ec"] # "RA_SUC"
  BY DEF AnswerFields, Codes
<1>2. Reply(w, type, fields) /\ UNCHANGED holder
  BY DEF Refuse, portVars
<1> HIDE DEF fields
<1>3. LetsGo(w) /\ DoBackChores(job[w].conn, RespTo(Req(w), type, fields))
  BY <1>2 DEF Reply, Finished, LetsGo
<1> QED BY <1>1, <1>2, <1>3, PlainReplyPairs

LEMMA GetPortsPairs ==
  ASSUME IInv, PairInv, NEW w \in Worker, DealGetPorts(w)
  PROVE  PairInv'
<1> DEFINE req == Req(w)
           type == "RA_GET_PORTS_RESP"
           user == <<req.m_sipproxy_id, req.m_user_id>>
<1>1. job[w].pc = "handle" /\ req.m_cmd_type = "RA_GET_PORTS_REQ"
  BY DEF DealGetPorts, Handles
<1>2. CASE Refuse(w, type)
  BY <1>1, <1>2, RefusePairs
<1>3. CASE /\ UNCHANGED <<portVars, m_cid>>
           /\ Reply(w, type, [m_ec |-> "RA_FAIL", m_user_id |-> req.m_user_id])
  <2> DEFINE fields == [m_ec |-> "RA_FAIL", m_user_id |-> req.m_user_id]
  <2>1. AnswerFields(w, type, fields) /\ fields["m_ec"] # "RA_SUC"
    BY <1>1 DEF AnswerFields, Codes
  <2>2. Reply(w, type, fields) /\ UNCHANGED holder
    BY <1>3 DEF portVars
  <2> HIDE DEF fields
  <2>3. LetsGo(w) /\ DoBackChores(job[w].conn, RespTo(Req(w), type, fields))
    BY <1>1, <2>2 DEF Reply, Finished, LetsGo
  <2> QED BY <2>1, <2>2, <2>3, PlainReplyPairs
<1>4. ASSUME NEW p \in Pair, holder[p] = user \/ holder[p] = None,
             holder' = [holder EXCEPT ![p] = user],
             Reply(w, type, [m_ec |-> "RA_SUC", m_user_id |-> req.m_user_id,
                             m_portpair |-> p])
      PROVE  PairInv'
  <2> DEFINE fields == [m_ec |-> "RA_SUC", m_user_id |-> req.m_user_id, m_portpair |-> p]
  <2>1. AnswerFields(w, type, fields) /\ fields["m_portpair"] = p
    BY <1>1 DEF AnswerFields, Codes
  <2>2. Reply(w, type, fields)
    BY <1>4
  <2> HIDE DEF fields
  <2>3. LetsGo(w) /\ DoBackChores(job[w].conn, RespTo(Req(w), type, fields))
    BY <1>1, <2>2 DEF Reply, Finished, LetsGo
  <2>4. PICK s, u : /\ s = req.m_sipproxy_id /\ u = user /\ u[1] = s /\ u # None
                    /\ s = ConnOf[job[w].conn]
    <3>1. PICK t \in Issued : /\ req = cmd[t] /\ Ask[t].type = "RA_GET_PORTS_REQ"
                              /\ Ask[t].sip = ConnOf[job[w].conn]
      BY <1>1, HandledRequest
    <3>2. TaskOK(t) /\ script \in Script
      BY DEF IInv, Issued, ClientTypes
    <3>3. /\ req.m_sipproxy_id = Ask[t].sip /\ req.m_user_id = Ask[t].user
          /\ Ask[t].sip \in Sip /\ Ask[t].user \in Nat
      BY <3>1, <3>2, AskFacts DEF TaskOK
    <3>4. user \in Sip \X Nat
      BY <3>3
    <3> QED BY <3>1, <3>3, <3>4, NoneAssumption
  <2>5. holder' = [holder EXCEPT ![p] = u] /\ DOMAIN holder = Pair
    BY <1>4, <2>4 DEF IInv, ServerTypes
  <2>6. KeptFor(s, p)'
    BY <2>4, <2>5 DEF KeptFor
  <2>7. \A x \in Sip, q \in Pair : KeptFor(x, q) => KeptFor(x, q)'
    BY <1>4, <2>4, <2>5 DEF KeptFor
  <2> QED BY <2>1, <2>3, <2>4, <2>6, <2>7, ReplyPairs
<1> QED BY <1>2, <1>3, <1>4 DEF DealGetPorts

\* The pairs that are given back were those of the SipProxy that asks for it.
LEMMA GivesItsOwn ==
  ASSUME IInv, NEW w \in Worker, job[w].pc = "handle", Req(w).m_cmd_type \in GivesBack,
         NEW freed,
         \A p \in Pair : p \in freed => holder[p][1] = Req(w).m_sipproxy_id,
         holder' = [p \in Pair |-> IF p \in freed THEN None ELSE holder[p]]
  PROVE  \A s \in Sip, p \in Pair : KeptFor(s, p) =>
           \/ KeptFor(s, p)'
           \/ \E u \in Issued : Ask[u].sip = s /\ Ask[u].type \in GivesBack /\ OnItsWay(u)
<1>1. PICK t \in Issued : /\ TaskOf(job[w].conn, Req(w)) = {t} /\ Req(w) = cmd[t]
                          /\ Ask[t].type \in GivesBack
  BY HandledRequest DEF GivesBack
<1>2. cmd[t].m_sipproxy_id = Ask[t].sip
  BY <1>1 DEF IInv, Issued, TaskOK
<1>3. OnItsWay(t)
  BY <1>1 DEF OnItsWay, InHand
<1> SUFFICES ASSUME NEW s \in Sip, NEW p \in Pair, KeptFor(s, p), Ask[t].sip # s
             PROVE  KeptFor(s, p)'
  BY <1>1, <1>3
<1>4. p \notin freed
  BY <1>1, <1>2 DEF KeptFor
<1> QED BY <1>4 DEF KeptFor

LEMMA FreePortsPairs ==
  ASSUME IInv, PairInv, NEW w \in Worker, DealFreePorts(w)
  PROVE  PairInv'
<1> DEFINE type == "RA_FREE_PORTS_RESP"
<1>1. job[w].pc = "handle" /\ Req(w).m_cmd_type = "RA_FREE_PORTS_REQ"
  BY DEF DealFreePorts, Handles
<1>2. CASE Refuse(w, type)
  BY <1>1, <1>2, RefusePairs
<1>3. CASE ~ Refuse(w, type)
  <2> DEFINE fields == [m_ec |-> "RA_SUC"]
             freed == {p \in Pair : /\ p = Req(w).m_portpair
                                    /\ holder[p] = <<Req(w).m_sipproxy_id, Req(w).m_user_id>>}
  <2>1. AnswerFields(w, type, fields)
    BY DEF AnswerFields, Codes
  <2>2. /\ Reply(w, type, fields)
        /\ holder' = [p \in Pair |-> IF p \in freed THEN None ELSE holder[p]]
    BY <1>3 DEF DealFreePorts
  <2>3. \A p \in Pair : p \in freed => holder[p][1] = Req(w).m_sipproxy_id
    OBVIOUS
  <2> HIDE DEF fields, freed
  <2>4. LetsGo(w) /\ DoBackChores(job[w].conn, RespTo(Req(w), type, fields))
    BY <1>1, <2>2 DEF Reply, Finished, LetsGo
  <2>5. \A s \in Sip, p \in Pair : KeptFor(s, p) =>
           \/ KeptFor(s, p)'
           \/ \E u \in Issued : Ask[u].sip = s /\ Ask[u].type \in GivesBack /\ OnItsWay(u)
    BY <1>1, <2>2, <2>3, GivesItsOwn DEF GivesBack
  <2> QED BY <2>1, <2>4, <2>5, ReplyPairs
<1> QED BY <1>2, <1>3

LEMMA SipproxyOfflinePairs ==
  ASSUME IInv, PairInv, NEW w \in Worker, DealSipproxyOffline(w)
  PROVE  PairInv'
<1> DEFINE type == "RA_SIPPROXY_OFFLINE_RESP"
<1>1. job[w].pc = "handle" /\ Req(w).m_cmd_type = "RA_SIPPROXY_OFFLINE_REQ"
  BY DEF DealSipproxyOffline, Handles
<1>2. CASE Refuse(w, type)
  BY <1>1, <1>2, RefusePairs
<1>3. CASE ~ Refuse(w, type)
  <2> DEFINE fields == [m_ec |-> "RA_SUC"]
             held == {p \in Pair : holder[p] # None /\ holder[p][1] = Req(w).m_sipproxy_id}
  <2>1. AnswerFields(w, type, fields)
    BY DEF AnswerFields, Codes
  <2>2. /\ Reply(w, type, fields)
        /\ holder' = [p \in Pair |-> IF p \in held THEN None ELSE holder[p]]
    BY <1>3 DEF DealSipproxyOffline
  <2>3. \A p \in Pair : p \in held => holder[p][1] = Req(w).m_sipproxy_id
    OBVIOUS
  <2> HIDE DEF fields, held
  <2>4. LetsGo(w) /\ DoBackChores(job[w].conn, RespTo(Req(w), type, fields))
    BY <1>1, <2>2 DEF Reply, Finished, LetsGo
  <2>5. \A s \in Sip, p \in Pair : KeptFor(s, p) =>
           \/ KeptFor(s, p)'
           \/ \E u \in Issued : Ask[u].sip = s /\ Ask[u].type \in GivesBack /\ OnItsWay(u)
    BY <1>1, <2>2, <2>3, GivesItsOwn DEF GivesBack
  <2> QED BY <2>1, <2>4, <2>5, ReplyPairs
<1> QED BY <1>2, <1>3

\* A handler that sends nothing and leaves the pairs alone.
LEMMA NothingSentPairs ==
  ASSUME IInv, PairInv, NEW w \in Worker, LetsGo(w), UNCHANGED <<down, holder>>
  PROVE  PairInv'
<1>1. \A s \in Sip, p \in Pair : KeptFor(s, p) => KeptFor(s, p)'
  BY DEF KeptFor
<1>2. \A c \in Conn : \A r : (\E i \in 1 .. Len(down'[c]) : r = down'[c][i])
         => \E j \in 1 .. Len(down[c]) : r = down[c][j]
  OBVIOUS
<1> QED BY <1>1, <1>2, HandlerPairs

LEMMA CallbackPairs ==
  ASSUME IInv, PairInv, NEW w \in Worker, LetsGo(w), UNCHANGED holder,
         NEW type, type # "RA_GET_PORTS_RESP", NEW ec \in Codes,
         \/ UNCHANGED down
         \/ CallbackAnswers(w, type, ec)
  PROVE  PairInv'
<1>1. CASE UNCHANGED down
  BY <1>1, NothingSentPairs
<1>2. CASE ~ UNCHANGED down
  <2> DEFINE fields == [m_ec |-> ec, m_path_suc |-> ec = "RA_SUC"]
  <2>1. AnswerFields(w, type, fields)
    BY DEF AnswerFields
  <2>2. DoBackChores(job[w].conn, RespTo(Req(w), type, fields))
    BY <1>2 DEF CallbackAnswers
  <2> HIDE DEF fields
  <2> QED BY <2>1, <2>2, PlainReplyPairs
<1> QED BY <1>1, <1>2

LEMMA StartCallPairs ==
  ASSUME IInv, PairInv, NEW w \in Worker, DealStartCall(w)
  PROVE  PairInv'
<1> DEFINE type == "RA_START_CALL_RESP"
<1>1. job[w].pc = "handle"
  BY DEF DealStartCall, Handles
<1>2. CASE Refuse(w, type)
  BY <1>1, <1>2, RefusePairs
<1>3. CASE ~ Refuse(w, type)
  <2>1. /\ UNCHANGED down \/ CallbackAnswers(w, type, "RA_SUC")
        /\ job' = [job EXCEPT ![w].pc = "update"]
        /\ handled' = handled \cup TaskOf(job[w].conn, Req(w))
        /\ UNCHANGED <<conn, up, posted, holder, m_cid, reported, script, taskVars>>
    BY <1>3 DEF DealStartCall
  <2>2. LetsGo(w)
    BY <1>1, <2>1 DEF LetsGo
  <2>3. "RA_SUC" \in Codes
    BY DEF Codes
  <2> QED BY <2>1, <2>2, <2>3, CallbackPairs
<1> QED BY <1>2, <1>3

LEMMA BuildPathPairs ==
  ASSUME IInv, PairInv, NEW w \in Worker, DealBuildPath(w)
  PROVE  PairInv'
<1> DEFINE type == "RA_BUILD_PATH_RESP"
           ec == IF Req(w).m_path_info = << >> THEN "RA_BAD_PARAMETER" ELSE "RA_SUC"
<1>1. job[w].pc = "handle"
  BY DEF DealBuildPath, Handles
<1>2. CASE Refuse(w, type)
  BY <1>1, <1>2, RefusePairs
<1>3. CASE ~ Refuse(w, type)
  <2>1. /\ CallbackAnswers(w, type, ec) /\ Finished(w)
        /\ UNCHANGED <<conn, up, posted, portVars, m_cid, reported, script, taskVars>>
    BY <1>3 DEF DealBuildPath
  <2>2. LetsGo(w) /\ UNCHANGED holder
    BY <1>1, <2>1 DEF LetsGo, Finished, portVars
  <2>3. PICK e \in Codes : e = ec
    BY DEF Codes
  <2>4. CallbackAnswers(w, type, e)
    BY <2>1, <2>3
  <2> HIDE DEF ec
  <2> QED BY <2>2, <2>4, CallbackPairs
<1> QED BY <1>2, <1>3

LEMMA StopCallPairs ==
  ASSUME IInv, PairInv, NEW w \in Worker, DealStopCall(w)
  PROVE  PairInv'
<1> DEFINE type == "RA_STOP_CALL_RESP"
<1>1. job[w].pc = "handle"
  BY DEF DealStopCall, Handles
<1>2. CASE Refuse(w, type)
  BY <1>1, <1>2, RefusePairs
<1>3. CASE ~ Refuse(w, type)
  <2> DEFINE fields == [m_ec |-> "RA_SUC"]
  <2>1. AnswerFields(w, type, fields)
    BY DEF AnswerFields, Codes
  <2>2. Reply(w, type, fields) /\ UNCHANGED holder
    BY <1>3 DEF DealStopCall
  <2> HIDE DEF fields
  <2>3. LetsGo(w) /\ DoBackChores(job[w].conn, RespTo(Req(w), type, fields))
    BY <1>1, <2>2 DEF Reply, Finished, LetsGo
  <2> QED BY <2>1, <2>2, <2>3, PlainReplyPairs
<1> QED BY <1>2, <1>3

LEMMA ShakeHandPairs ==
  ASSUME IInv, PairInv, NEW w \in Worker, DealShakeHand(w)
  PROVE  PairInv'
<1> DEFINE type == "RA_SHAKE_HAND_RESP"
           fields == [m_remoteAddrs |-> <<1>>]
<1>1. job[w].pc = "handle"
  BY DEF DealShakeHand, Handles
<1>2. AnswerFields(w, type, fields)
  BY DEF AnswerFields
<1>3. Reply(w, type, fields) /\ UNCHANGED holder
  BY DEF DealShakeHand, portVars
<1> HIDE DEF fields
<1>4. LetsGo(w) /\ DoBackChores(job[w].conn, RespTo(Req(w), type, fields))
  BY <1>1, <1>3 DEF Reply, Finished, LetsGo
<1> QED BY <1>2, <1>3, <1>4, PlainReplyPairs

LEMMA DealKeepAlivePairs ==
  ASSUME IInv, PairInv, NEW w \in Worker, DealKeepAlive(w)
  PROVE  PairInv'
<1>1. LetsGo(w) /\ UNCHANGED <<down, holder>>
  BY DEF DealKeepAlive, Handles, Finished, LetsGo, portVars
<1> QED BY <1>1, NothingSentPairs

LEMMA DealPairs ==
  ASSUME IInv, PairInv, NEW w \in Worker, Deal(w)
  PROVE  PairInv'
BY GetPortsPairs, FreePortsPairs, StartCallPairs, UpdatePairs, BuildPathPairs,
   StopCallPairs, DealKeepAlivePairs, ShakeHandPairs, SipproxyOfflinePairs DEF Deal

\* Steps of the client, seen from a SipProxy whose tasks they do not touch.
LEMMA UntouchedPairs ==
  ASSUME IInv, NEW s \in Sip, WaitsForAnswers(s) /\ HasItsPair(s) /\ PairComes(s),
         UNCHANGED <<script, cmd, told, holder, up, down, job>>,
         \A u \in Issued : Ask[u].sip = s => stage'[u] = stage[u]
  PROVE  (WaitsForAnswers(s) /\ HasItsPair(s) /\ PairComes(s))'
<1>1. Issued' = Issued /\ Ask' = Ask /\ \A c, r : TaskOf(c, r)' = TaskOf(c, r)
  BY DEF Issued, Ask, TaskOf
<1>2. \A t \in Task : OnItsWay(t)' => OnItsWay(t)
  BY DEF OnItsWay, WaitsAt, InHand, TaskOf, Ask, Req
<1>3. WaitsForAnswers(s)' /\ HasItsPair(s)'
  BY <1>1, <1>2 DEF WaitsForAnswers, HasItsPair, KeptFor, Issued
<1>4. PairComes(s)'
  <2> SUFFICES ASSUME NEW c \in Conn, NEW i \in 1 .. Len(down'[c]), ConnOf[c] = s,
                      down'[c][i].m_cmd_type = "RA_GET_PORTS_RESP",
                      down'[c][i].m_ec = "RA_SUC",
                      NEW t \in TaskOf(c, down[c][i])', stage'[t] = "doing"
               PROVE  KeptFor(s, down[c][i].m_portpair)'
    BY DEF PairComes
  <2>1. t \in TaskOf(c, down[c][i]) /\ t \in Issued /\ Ask[t].sip = s
    BY <1>1 DEF TaskOf, Issued, Ask
  <2> QED BY <2>1 DEF PairComes, KeptFor
<1> QED BY <1>3, <1>4

LEMMA IssueRefusedPairs ==
  ASSUME IInv, PairInv, NEW t \in Task, IssueRefused(t)
  PROVE  PairInv'
<1> SUFFICES ASSUME NEW s \in Sip, Follows(s)'
             PROVE  (WaitsForAnswers(s) /\ HasItsPair(s) /\ PairComes(s))'
  BY DEF PairInv
<1> USE DEF IssueRefused, MayIssue, portVars
<1>1. t \notin Issued /\ \A u \in Task : u # t => stage'[u] = stage[u] /\ outcome'[u] = outcome[u]
  BY DEF IInv, TaskOK, ClientTypes
<1>2. Follows(s)
  BY <1>1, FollowsSince
<1>3. WaitsForAnswers(s) /\ HasItsPair(s) /\ PairComes(s)
  BY <1>2 DEF PairInv
<1>4. \A u \in Issued : stage'[u] = stage[u]
  BY <1>1 DEF Issued
<1> QED BY <1>3, <1>4, UntouchedPairs

LEMMA TimeoutPairs ==
  ASSUME IInv, PairInv, NEW t \in Task, Timeout(t)
  PROVE  PairInv'
<1> SUFFICES ASSUME NEW s \in Sip, Follows(s)'
             PROVE  (WaitsForAnswers(s) /\ HasItsPair(s) /\ PairComes(s))'
  BY DEF PairInv
<1> USE DEF Timeout, portVars
<1>1. \A u \in Task : u # t => stage'[u] = stage[u] /\ outcome'[u] = outcome[u]
  BY DEF IInv, ClientTypes
<1>2. Follows(s)
  BY <1>1, FollowsSince
<1>3. WaitsForAnswers(s) /\ HasItsPair(s) /\ PairComes(s)
  BY <1>2 DEF PairInv
<1>4. t \in DOMAIN Ask /\ outcome'[t] = "RA_TIMEOUT"
  BY DEF IInv, TaskOK, ClientTypes
<1>5. Ask[t].sip # s
  BY <1>4 DEF Follows, TimedOut, Ask
<1>6. \A u \in Issued : Ask[u].sip = s => stage'[u] = stage[u]
  BY <1>1, <1>5 DEF Issued
<1> QED BY <1>3, <1>6, UntouchedPairs

\* What the client makes of an answer.
LEMMA ClientReadFacts ==
  ASSUME IInv, NEW c \in Conn, ClientRead(c)
  PROVE  \E r, S :
    /\ S \subseteq TaskOf(c, r) /\ 1 \in 1 .. Len(down[c]) /\ r = down[c][1]
    /\ \A t \in S : stage[t] = "doing" /\ answers[t] = 1
                    /\ (r.m_cmd_type = "RA_GET_PORTS_RESP" => Ask[t].type = "RA_GET_PORTS_REQ")
    /\ \A t \in Task : /\ stage'[t] = IF t \in S THEN "done" ELSE stage[t]
                       /\ t \notin S => outcome'[t] = outcome[t]
    /\ \/ UNCHANGED told
       \/ /\ r.m_cmd_type = "RA_GET_PORTS_RESP" /\ r.m_ec = "RA_SUC" /\ S # {}
          /\ told' = [told EXCEPT ![ConnOf[c]] = r.m_portpair]
    /\ \A d \in Conn : \A i \in 1 .. Len(down'[d]) :
         \E j \in 1 .. Len(down[d]) : down'[d][i] = down[d][j]
<1>1. down[c] # << >> /\ down' = [down EXCEPT ![c] = Tail(down[c])]
  BY DEF ClientRead
<1>2. /\ Len(down[c]) \in Nat /\ Len(down[c]) >= 1 /\ Head(down[c]) = down[c][1]
      /\ Len(Tail(down[c])) = Len(down[c]) - 1
      /\ \A i \in 1 .. Len(down[c]) - 1 : Tail(down[c])[i] = down[c][i + 1]
  BY <1>1, SeqFacts DEF IInv, LinksOK
<1>3. PICK r : r = down[c][1] /\ AnswerOK(c, r)
  BY <1>2 DEF IInv, LinksOK
<1>4. ASSUME NEW d \in Conn, NEW i \in 1 .. Len(down'[d])
      PROVE  \E j \in 1 .. Len(down[d]) : down'[d][i] = down[d][j]
  <2>1. DOMAIN down = Conn
    BY DEF IInv, LinksOK
  <2>2. CASE d = c
    <3>1. down'[d] = Tail(down[c])
      BY <1>1, <2>1, <2>2
    <3>2. i + 1 \in 1 .. Len(down[c]) /\ Tail(down[c])[i] = down[c][i + 1]
      BY <1>2, <3>1
    <3> QED BY <2>2, <3>1, <3>2
  <2>3. CASE d # c
    BY <1>1, <2>1, <2>3
  <2> QED BY <2>2, <2>3
<1>5. CASE r.m_cmd_type = "RA_ERROR_CALL_RESP"
  <2>1. UNCHANGED <<stage, outcome, told>>
    BY <1>2, <1>3, <1>5 DEF ClientRead
  <2>2. PICK S : S = {}
    OBVIOUS
  <2>3. /\ S \subseteq TaskOf(c, r)
        /\ \A t \in S : stage[t] = "doing" /\ answers[t] = 1
                    /\ (r.m_cmd_type = "RA_GET_PORTS_RESP" => Ask[t].type = "RA_GET_PORTS_REQ")
        /\ \A t \in Task : /\ stage'[t] = IF t \in S THEN "done" ELSE stage[t]
                           /\ t \notin S => outcome'[t] = outcome[t]
    BY <2>1, <2>2
  <2> QED BY <1>2, <1>3, <1>4, <2>1, <2>3
<1>6. CASE r.m_cmd_type # "RA_ERROR_CALL_RESP"
  <2> DEFINE tasks == Doing(ConnOf[c], r)
             ec == IF "m_ec" \in DOMAIN r THEN r.m_ec ELSE "RA_SUC"
  <2>1. /\ stage' = [t \in Task |-> IF t \in tasks THEN "done" ELSE stage[t]]
        /\ outcome' = [t \in Task |-> IF t \in tasks THEN ec ELSE outcome[t]]
        /\ told' = IF /\ r.m_cmd_type = "RA_GET_PORTS_RESP"
                      /\ tasks # {} /\ ec = "RA_SUC"
                     THEN [told EXCEPT ![ConnOf[c]] = r.m_portpair] ELSE told
    BY <1>2, <1>3, <1>6 DEF ClientRead
  <2>2. PICK x \in Issued :
          /\ Ask[x].sip = ConnOf[c] /\ cmd[x].m_cmd_id = r.m_cmd_id /\ answers[x] = 1
          /\ r.m_cmd_type = "RA_GET_PORTS_RESP" =>
               Ask[x].type = "RA_GET_PORTS_REQ" /\ "m_ec" \in DOMAIN r
    BY <1>3, <1>6 DEF AnswerOK
  <2>3. x \in TaskOf(c, r) /\ \A t, u \in TaskOf(c, r) : t = u
    BY <2>2, TaskOfFacts
  <2>4. ASSUME NEW t \in tasks
        PROVE  t \in TaskOf(c, r) /\ stage[t] = "doing" /\ t = x
    <3>1. /\ t \in Task /\ stage[t] = "doing" /\ Ask[t].sip = ConnOf[c]
          /\ cmd[t].m_cmd_id = r.m_cmd_id
      BY DEF Doing
    <3>2. t \in Issued
      BY <3>1 DEF IInv, TaskOK
    <3> QED BY <2>3, <3>1, <3>2 DEF TaskOf, Issued
  <2>5. r.m_cmd_type = "RA_GET_PORTS_RESP" => ec = r.m_ec
    BY <2>2
  <2>6. PICK S : S = tasks
    OBVIOUS
  <2>7. /\ \A t \in Task : /\ stage'[t] = IF t \in S THEN "done" ELSE stage[t]
                           /\ t \notin S => outcome'[t] = outcome[t]
        /\ \/ UNCHANGED told
           \/ /\ r.m_cmd_type = "RA_GET_PORTS_RESP" /\ r.m_ec = "RA_SUC" /\ S # {}
              /\ told' = [told EXCEPT ![ConnOf[c]] = r.m_portpair]
    <3> HIDE DEF tasks, ec
    <3> QED BY <2>1, <2>5, <2>6
  <2>8. /\ S \subseteq TaskOf(c, r)
        /\ \A t \in S : stage[t] = "doing" /\ answers[t] = 1
                    /\ (r.m_cmd_type = "RA_GET_PORTS_RESP" => Ask[t].type = "RA_GET_PORTS_REQ")
    BY <2>2, <2>4, <2>6
  <2> QED BY <1>2, <1>3, <1>4, <2>7, <2>8
<1> QED BY <1>5, <1>6

LEMMA ClientReadPairs ==
  ASSUME IInv, PairInv, NEW c \in Conn, ClientRead(c)
  PROVE  PairInv'
<1> SUFFICES ASSUME NEW s \in Sip, Follows(s)'
             PROVE  (WaitsForAnswers(s) /\ HasItsPair(s) /\ PairComes(s))'
  BY DEF PairInv
<1>1. UNCHANGED <<up, job, holder, script, cmd, answers>>
  BY DEF ClientRead, portVars
<1>2. PICK r, S :
        /\ S \subseteq TaskOf(c, r) /\ 1 \in 1 .. Len(down[c]) /\ r = down[c][1]
        /\ \A t \in S : stage[t] = "doing" /\ answers[t] = 1
                        /\ (r.m_cmd_type = "RA_GET_PORTS_RESP" => Ask[t].type = "RA_GET_PORTS_REQ")
        /\ \A t \in Task : /\ stage'[t] = IF t \in S THEN "done" ELSE stage[t]
                           /\ t \notin S => outcome'[t] = outcome[t]
        /\ \/ UNCHANGED told
           \/ /\ r.m_cmd_type = "RA_GET_PORTS_RESP" /\ r.m_ec = "RA_SUC" /\ S # {}
              /\ told' = [told EXCEPT ![ConnOf[c]] = r.m_portpair]
        /\ \A d \in Conn : \A i \in 1 .. Len(down'[d]) :
             \E j \in 1 .. Len(down[d]) : down'[d][i] = down[d][j]
  BY ClientReadFacts
<1>3. Follows(s)
  <2>1. \A t \in Task : stage[t] = "done" => t \notin S
    BY <1>2
  <2> QED BY <1>1, <1>2, <2>1, FollowsSince
<1>4. WaitsForAnswers(s) /\ HasItsPair(s) /\ PairComes(s)
  BY <1>3 DEF PairInv
<1>5. Issued' = Issued /\ Ask' = Ask /\ \A d, q : TaskOf(d, q)' = TaskOf(d, q)
  BY <1>1 DEF Issued, Ask, TaskOf
<1>6. \A t \in Task : OnItsWay(t)' => OnItsWay(t)
  BY <1>1 DEF OnItsWay, WaitsAt, InHand, TaskOf, Ask, Req
<1>7. WaitsForAnswers(s)'
  <2> SUFFICES ASSUME NEW t \in Issued, Ask[t].sip = s, OnItsWay(t)'
               PROVE  stage'[t] = "doing"
    BY <1>5 DEF WaitsForAnswers
  <2>1. OnItsWay(t) /\ t \in Task
    BY <1>6 DEF Issued
  <2>2. stage[t] = "doing" /\ answers[t] = 0
    BY <1>4, <2>1 DEF WaitsForAnswers, IInv, RequestInOnePlace
  <2> QED BY <1>2, <2>1, <2>2
<1>8. HasItsPair(s)'
  <2>1. CASE told'[s] = told[s]
    BY <2>1, <1>1, <1>4, <1>5, <1>6 DEF HasItsPair, KeptFor, Issued
  <2>2. CASE told'[s] # told[s]
    <3>1. /\ s = ConnOf[c] /\ r.m_cmd_type = "RA_GET_PORTS_RESP" /\ r.m_ec = "RA_SUC"
          /\ told'[s] = r.m_portpair
      BY <1>2, <2>2 DEF IInv, ClientTypes
    <3>2. PICK t \in S : TRUE
      BY <1>2, <2>2
    <3>3. /\ t \in Issued /\ Ask[t].sip = s /\ stage[t] = "doing"
          /\ Ask[t].type = "RA_GET_PORTS_REQ" /\ t \in TaskOf(c, r)
      BY <1>2, <3>1 DEF TaskOf, Issued
    <3>4. KeptFor(s, r.m_portpair)
      BY <1>2, <1>4, <3>1, <3>3 DEF PairComes
    <3>5. ASSUME NEW u \in Issued, Ask[u].sip = s, Ask[u].type \in GivesBack, OnItsWay(u)
          PROVE  FALSE
      BY <1>3, <1>4, <3>3, <3>5, NotAtOnce DEF WaitsForAnswers
    <3> QED BY <1>1, <1>5, <1>6, <3>1, <3>4, <3>5 DEF HasItsPair, KeptFor, Issued
  <2> QED BY <2>1, <2>2
<1>9. PairComes(s)'
  <2> SUFFICES ASSUME NEW d \in Conn, NEW i \in 1 .. Len(down'[d]), ConnOf[d] = s,
                      down'[d][i].m_cmd_type = "RA_GET_PORTS_RESP",
                      down'[d][i].m_ec = "RA_SUC",
                      NEW t \in TaskOf(d, down[d][i])', stage'[t] = "doing"
               PROVE  KeptFor(s, down[d][i].m_portpair)'
    BY DEF PairComes
  <2>1. PICK q : q = down'[d][i]
    OBVIOUS
  <2>2. PICK j \in 1 .. Len(down[d]) : q = down[d][j]
    BY <2>1, <1>2
  <2>3. t \in TaskOf(d, q) /\ stage[t] = "doing"
    <3>1. t \in TaskOf(d, q)
      BY <2>1, <1>1, <1>5 DEF TaskOf
    <3> QED BY <3>1, <1>2 DEF TaskOf
  <2>4. KeptFor(s, q.m_portpair)
    BY <1>4, <2>1, <2>2, <2>3 DEF PairComes
  <2> QED BY <1>1, <2>1, <2>4 DEF KeptFor
<1> QED BY <1>7, <1>8, <1>9

LEMMA IssuePairs ==
  ASSUME IInv, PairInv, NEW t \in Task, NEW c \in Conn, Issue(t, c)
  PROVE  PairInv'
<1> SUFFICES ASSUME NEW s \in Sip, Follows(s)'
             PROVE  (WaitsForAnswers(s) /\ HasItsPair(s) /\ PairComes(s))'
  BY DEF PairInv
<1>1. /\ t \in Task /\ stage[t] = "new" /\ stage'[t] = "doing"
      /\ \A u \in Task : u # t => stage'[u] = stage[u] /\ cmd'[u] = cmd[u]
      /\ told' = IF Ask[t].type \in GivesBack THEN [told EXCEPT ![Ask[t].sip] = None] ELSE told
      /\ t \notin Issued
      /\ UNCHANGED <<down, holder, script, outcome>>
  <2>1. /\ stage[t] = "new" /\ stage' = [stage EXCEPT ![t] = "doing"]
        /\ told' = IF Ask[t].type \in GivesBack THEN [told EXCEPT ![Ask[t].sip] = None] ELSE told
        /\ UNCHANGED <<down, holder, script, outcome>>
    BY DEF Issue, MayIssue, portVars
  <2>2. \E r : cmd' = [cmd EXCEPT ![t] = r]
    BY DEF Issue
  <2> QED BY <2>1, <2>2 DEF IInv, TaskOK, ClientTypes
<1>2. IInv' /\ \A u \in Task : OnItsWay(u)' => u = t \/ OnItsWay(u)
  BY IssueStep
<1>3. Follows(s)
  BY <1>1, FollowsSince
<1>4. WaitsForAnswers(s) /\ HasItsPair(s) /\ PairComes(s)
  BY <1>3 DEF PairInv
<1>5. Ask' = Ask /\ \A u \in Issued' : u \in Task /\ (u = t \/ u \in Issued)
  BY <1>1 DEF Ask, Issued
<1>6. WaitsForAnswers(s)'
  BY <1>1, <1>2, <1>4, <1>5 DEF WaitsForAnswers
<1>7. HasItsPair(s)'
  <2> SUFFICES ASSUME told'[s] # None
               PROVE  /\ KeptFor(s, told[s])'
                      /\ \A u \in Issued' : Ask[u].sip = s /\ Ask[u].type \in GivesBack
                           => ~ OnItsWay(u)'
    BY <1>5 DEF HasItsPair
  <2>1. told'[s] = told[s] /\ ~ (Ask[t].sip = s /\ Ask[t].type \in GivesBack)
    BY <1>1 DEF IInv, ClientTypes
  <2>2. KeptFor(s, told[s])'
    BY <1>1, <1>4, <2>1 DEF HasItsPair, KeptFor
  <2> QED BY <1>2, <1>4, <1>5, <2>1, <2>2 DEF HasItsPair
<1>8. PairComes(s)'
  <2> SUFFICES ASSUME NEW d \in Conn, NEW i \in 1 .. Len(down'[d]), ConnOf[d] = s,
                      down'[d][i].m_cmd_type = "RA_GET_PORTS_RESP",
                      down'[d][i].m_ec = "RA_SUC",
                      NEW u \in TaskOf(d, down[d][i])', stage'[u] = "doing"
               PROVE  KeptFor(s, down[d][i].m_portpair)'
    BY DEF PairComes
  <2>1. PICK q : q = down'[d][i] /\ AnswerOK(d, q)
    BY <1>1 DEF IInv, LinksOK
  <2>2. PICK x \in Issued : x \in TaskOf(d, q)
    BY <2>1 DEF AnswerOK, TaskOf, Issued
  <2>3. x \in TaskOf(d, q)' /\ u \in TaskOf(d, q)'
    <3>1. x \in TaskOf(d, q)'
      BY <1>1, <1>5, <2>2 DEF TaskOf, Ask
    <3> QED BY <2>1, <3>1 DEF TaskOf
  <2>4. u = x
    <3>1. \A a, b \in Task : a \in TaskOf(d, q)' /\ b \in TaskOf(d, q)' => a = b
      BY <1>2 DEF IInv, IdsDiffer, TaskOf, Issued
    <3> QED BY <2>3, <3>1 DEF TaskOf
  <2>5. stage[u] = "doing"
    BY <1>1, <2>2, <2>4 DEF Issued
  <2>6. KeptFor(s, q.m_portpair)
    BY <1>1, <1>4, <2>1, <2>2, <2>4, <2>5 DEF PairComes
  <2> QED BY <1>1, <2>1, <2>6 DEF KeptFor
<1> QED BY <1>6, <1>7, <1>8

LEMMA PairInit == Init => PairInv
<1> SUFFICES ASSUME Init PROVE PairInv
  OBVIOUS
<1>1. Issued = {}
  BY DEF Init, Issued, NoCmd
<1>2. \A c \in Conn : down[c] = << >>
  BY DEF Init
<1>3. \A s \in Sip : Follows(s) => told[s] = None
  BY DEF Init, Follows
<1> QED BY <1>1, <1>2, <1>3, EmptyIsSeq
        DEF PairInv, WaitsForAnswers, HasItsPair, PairComes

LEMMA PairStep == IInv /\ PairInv /\ [Next]_vars => PairInv'
<1> SUFFICES ASSUME IInv, PairInv, [Next]_vars PROVE PairInv'
  OBVIOUS
<1>1. ASSUME NEW c \in Conn, Open(c) \/ ReadFails(c)
      PROVE  PairInv'
  BY <1>1, QuietPairs DEF Open, ReadFails, portVars
<1>2. ASSUME NEW c \in Conn, Disconnect(c)
      PROVE  PairInv'
  BY <1>2, ClosePairs DEF Disconnect, portVars
<1>3. ASSUME NEW c \in Conn, KeepAlive(c) \/ ClientRead(c)
      PROVE  PairInv'
  BY <1>3, KeepAlivePairs, ClientReadPairs
<1>4. ASSUME NEW t \in Task, IssueRefused(t) \/ Timeout(t)
      PROVE  PairInv'
  BY <1>4, IssueRefusedPairs, TimeoutPairs
<1>5. ASSUME NEW t \in Task, NEW c \in Conn, Issue(t, c)
      PROVE  PairInv'
  BY <1>5, IssuePairs
<1>6. ASSUME NEW w \in Worker, NEW c \in Conn, ReadCommand(w, c)
      PROVE  PairInv'
  BY <1>6, ReadPairs
<1>7. ASSUME NEW w \in Worker, Deal(w)
      PROVE  PairInv'
  BY <1>7, DealPairs
<1>8. CASE WriteDone
  BY <1>8, QuietPairs DEF WriteDone, portVars
<1>9. ASSUME NEW p \in Pair, ErrorSession(p)
      PROVE  PairInv'
  BY <1>9, ErrorSessionPairs
<1>10. CASE UNCHANGED vars
  BY <1>10, QuietPairs DEF vars, portVars
<1> QED BY <1>1, <1>2, <1>3, <1>4, <1>5, <1>6, <1>7, <1>8, <1>9, <1>10 DEF Next

\* A pair a SipProxy was told of is kept for it until it asks for the pair to be
\* given back, whatever other SipProxies do and however connections are lost.
THEOREM PairKept == Spec => []PairIsKept
<1>1. Spec => []PairInv
  BY Invariant, PairInit, PairStep, PTL DEF Spec
<1>2. PairInv => PairIsKept
  BY DEF PairInv, PairIsKept, Follows, TimedOut, HasItsPair, KeptFor
<1> QED BY <1>1, <1>2, PTL
==============================================================================
