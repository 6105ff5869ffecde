----------------------- MODULE MediaForwardProofs -----------------------
(***************************************************************************)
(* Theorems about MediaForward for every value of its constants: any number *)
(* of calls, pairs, readers, buffers and packets.                          *)
(***************************************************************************)
EXTENDS MediaForward, TLAPS

-----------------------------------------------------------------------------
(* The inductive invariant. *)

\* The table of calls: its types, and that a call is found at its own pair only.
TableTypes ==
  /\ ports \in [Call -> Pair \cup {None}]
  /\ m_recv_info \in [Pair -> Call \cup {None}]
  /\ m_sent_info \in [Pair -> Call \cup {None}]
  /\ \A p \in Pair : /\ m_recv_info[p] # None => ports[m_recv_info[p]] = p
                     /\ m_sent_info[p] # None => ports[m_sent_info[p]] = p
  /\ m_cid = [c \in Call |-> m_cid[c]]
  /\ \A c \in Call : \A i \in DOMAIN m_cid[c] : m_cid[c][i] \in Cid \cup {0}
  /\ m_session_to_port_map \in [Session -> Pair \cup {None}]

\* The labels at which a packet of a port is in a reader's hands, and those of
\* them at which its TransformInfo has been found.
Found == {"learn", "status", "check", "take", "after", "again", "free", "peer",
          "first", "second", "filter"}
Holding == {"find"} \cup Found
Least(m, n) == IF m < n THEN m ELSE n

\* What a reader's locals are at each label.
JobOK(j) ==
  /\ j.pc \in Holding => j.buf \in Buf /\ j.from \in Port /\ j.pkt \in Packet
  /\ j.pc \notin Holding => j.buf = None
  /\ j.pc \in {"port", "deliver"} => j.from \in Session /\ j.pkt.seq \in SeqNum
  /\ j.pc = "deliver" => j.port \in Port
  /\ j.pc \in Found => j.info \in Info /\ ports[j.info[1]] \in Pair
  /\ j.pc \in {"first", "second", "filter"} => j.peer \in Info
  /\ j.pc \in {"find", "learn", "status"} => j.i = 1 /\ j.send_num = 0 /\ j.sent = 0
  /\ j.pc \in {"check", "take"} => j.send_num < j.i
  /\ j.pc = "take" => j.i < 4
  /\ j.pc \in {"check", "take", "after"} => j.sent = Least(j.send_num, 2)
  /\ j.pc = "again" => j.sent = 1
  /\ j.pc = "free" => j.sent = 2
Locals == \A r \in Reader : JobOK(job[r])

\* Where a buffer can be.
IsPosted(b) == \E s \in Socket : b \in posted[s]
InHand(b) == \E r \in Reader : job[r].buf = b
InWrite(b, copy) == [buf |-> b, copy |-> copy] \in writes
Writing(b) == InWrite(b, 0) \/ InWrite(b, 1) \/ InWrite(b, 2)

\* The reader that has it is to write the second copy.
Pending(b) == \E r \in Reader : job[r].pc = "second" /\ job[r].buf = b
One(P) == IF P THEN 1 ELSE 0

\* A buffer is in one place; m_num_cb counts the copies written and to be written;
\* one written once is nobody else's, and one written twice is its reader's until
\* the second copy is written.
BufOK(b) ==
  /\ b \in free \/ b \in lost \/ IsPosted(b) \/ InHand(b) \/ Writing(b)
  /\ b \in free => b \notin lost
  /\ b \in free \cup lost => ~IsPosted(b) /\ ~InHand(b) /\ ~Writing(b)
  /\ IsPosted(b) => ~InHand(b) /\ ~Writing(b)
  /\ m_num_cb[b] = One(InWrite(b, 1)) + One(InWrite(b, 2)) + One(Pending(b))
  /\ InWrite(b, 0) => ~InWrite(b, 1) /\ ~InWrite(b, 2) /\ ~InHand(b)
  /\ InHand(b) => ~InWrite(b, 2)
  /\ InHand(b) /\ InWrite(b, 1) => Pending(b)

\* No buffer is posted on two sockets or in the hands of two readers.
PostedApart ==
  \A s, t \in Socket : \A b \in Buf : b \in posted[s] /\ b \in posted[t] => s = t
HeldApart ==
  \A r, q \in Reader : job[r].buf # None /\ job[r].buf = job[q].buf => r = q

\* The relay client's buffers are written once.
RelayedOnce == \A w \in writes : w.buf = None => w.copy = 0

BufInv == (\A b \in Buf : BufOK(b)) /\ PostedApart /\ HeldApart /\ RelayedOnce
TypeInv == TableTypes /\ MediaTypeOK /\ Locals
IInv == TypeInv /\ BufInv

-----------------------------------------------------------------------------
(* Types of the table of calls. *)

\* The calls, their cids and None are what the assumptions say.
LEMMA TableFacts ==
  /\ None \notin Call /\ None \notin Pair
  /\ \A c \in Call : \A i \in DOMAIN Cids[c] : Cids[c][i] \in Cid
  /\ Cids = [c \in Call |-> Cids[c]]
<1>1. None \notin Call /\ None \notin Pair /\ Cids = [c \in Call |-> Cids[c]]
  BY TableAssumption
<1>2. ASSUME NEW c \in Call, NEW i \in DOMAIN Cids[c] PROVE Cids[c][i] \in Cid
  <2>1. Cids[c] \in Seq(Nat \ {0})
    BY TableAssumption
  <2>2. i \in 1 .. Len(Cids[c])
    BY <2>1
  <2> QED BY <2>2 DEF Cid
<1> QED BY <1>1, <1>2

\* At the start the table has its types.
LEMMA TableInitTypes == TableInit => TableTypes
<1> SUFFICES ASSUME TableInit PROVE TableTypes
  OBVIOUS
<1>1. \A c \in Call : \A i \in DOMAIN m_cid[c] : m_cid[c][i] \in Cid \cup {0}
  BY TableFacts DEF TableInit
<1>2. m_cid = [c \in Call |-> m_cid[c]]
  BY TableFacts DEF TableInit
<1> QED BY <1>1, <1>2, TableFacts DEF TableInit, TableTypes

\* A call keeps the pair it was started on.
PortsStay == \A c \in Call : ports[c] \in Pair => ports'[c] = ports[c]

\* Every change of the table keeps its types.
LEMMA TableStepTypes ==
  ASSUME TableTypes, TableNext
  PROVE  TableTypes' /\ PortsStay
<1> USE TableFacts DEF PortsStay
<1>1. ASSUME NEW c \in Call, AddRecv(c) PROVE TableTypes' /\ PortsStay
  BY <1>1 DEF AddRecv, TableTypes
<1>2. ASSUME NEW c \in Call, AddSent(c) PROVE TableTypes' /\ PortsStay
  BY <1>2 DEF AddSent, TableTypes
<1>3. ASSUME NEW c \in Call, SetPaths(c) PROVE TableTypes' /\ PortsStay
  <2>1. m_cid' = [d \in Call |-> m_cid'[d]]
    BY <1>3 DEF SetPaths, TableTypes
  <2>2. \A d \in Call : \A i \in DOMAIN m_cid'[d] : m_cid'[d][i] \in Cid \cup {0}
    BY <1>3 DEF SetPaths, TableTypes
  <2> QED BY <1>3, <2>1, <2>2 DEF SetPaths, TableTypes
<1>4. ASSUME NEW c \in Call, Stop(c) PROVE TableTypes' /\ PortsStay
  BY <1>4 DEF Stop, TableTypes
<1>5. ASSUME NEW c \in Call, NEW p \in Pair, Request(c, p) PROVE TableTypes' /\ PortsStay
  BY <1>5 DEF Request, TableTypes
<1>6. ASSUME NEW s \in Session, AddSession(s) PROVE TableTypes' /\ PortsStay
  <2>1. s[1] \in Call
    BY DEF Session
  <2>2. ports[s[1]] \in Pair
    BY <1>6, <2>1 DEF AddSession, HasPath, TableTypes
  <2> QED BY <1>6, <2>2 DEF AddSession, TableTypes
<1>7. ASSUME NEW s \in Session, Fail(s) PROVE TableTypes' /\ PortsStay
  BY <1>7 DEF Fail, TableTypes
<1>8. ASSUME NEW s \in Session, Forget(s) PROVE TableTypes' /\ PortsStay
  BY <1>8 DEF Forget, TableTypes
<1>9. ASSUME NEW c \in Call, NEW s \in Session, RemoveFailed(c, s)
      PROVE  TableTypes' /\ PortsStay
  <2>1. m_cid' = [d \in Call |-> m_cid'[d]]
    BY <1>9 DEF RemoveFailed, TableTypes
  <2>2. \A d \in Call : \A i \in DOMAIN m_cid'[d] : m_cid'[d][i] \in Cid \cup {0}
    BY <1>9 DEF RemoveFailed, TableTypes
  <2> QED BY <1>9, <2>1, <2>2 DEF RemoveFailed, TableTypes
<1> QED
  BY <1>1, <1>2, <1>3, <1>4, <1>5, <1>6, <1>7, <1>8, <1>9, TableTypes, TableNext
     DEF TableNext

-----------------------------------------------------------------------------
(* Types of the forwarding. *)

\* No call, side and pair is a null pointer, and an info found is one.
LEMMA InfoFound ==
  ASSUME TableTypes, NEW port \in Port, InfoAt(port) # None
  PROVE  /\ InfoAt(port) \in Info
         /\ ports[InfoAt(port)[1]] = port[1] /\ port[1] \in Pair
<1> USE TableFacts
<1>1. port[1] \in Pair /\ port[2] \in Side
  BY DEF Port
<1> QED BY <1>1 DEF InfoAt, TableTypes, Info

\* The other port of a call's pair.
LEMMA DirectPortType ==
  ASSUME NEW n \in Info, ports[n[1]] \in Pair
  PROVE  DirectPort(n) \in Port
BY DEF DirectPort, Port, Side, Info

\* What a reader finds in a slot of m_cid.
LEMMA CidAtType ==
  ASSUME TableTypes, NEW n \in Info, NEW i \in Nat
  PROVE  CidAt(n, i) \in Cid \cup {0}
<1>1. n[1] \in Call
  BY DEF Info
<1> QED BY <1>1 DEF CidAt, TableTypes

\* A reader's locals may change to any that are in order.
LEMMA JobStep ==
  ASSUME Locals, job \in [Reader -> Job], NEW r \in Reader, NEW rec \in Job,
         JobOK(rec), Set(r, rec), UNCHANGED ports
  PROVE  job' \in [Reader -> Job] /\ Locals'
<1>1. job' \in [Reader -> Job]
  BY DEF Set
<1>2. ASSUME NEW q \in Reader PROVE JobOK(job[q])'
  <2>1. CASE q = r
    BY <2>1 DEF Set, JobOK
  <2>2. CASE q # r
    <3>1. job'[q] = job[q] /\ JobOK(job[q])
      BY <2>2 DEF Set, Locals
    <3> QED BY <3>1 DEF JobOK
  <2> QED BY <2>1, <2>2
<1> QED BY <1>1, <1>2 DEF Locals

\* The first reads are posted on different buffers.
LEMMA FirstReads ==
  ASSUME MediaInit
  PROVE  /\ posted \in [Socket -> {{b} : b \in Buf}]
         /\ \A s, t \in Socket : posted[s] = posted[t] => s = t
<1> DEFINE P(f) == /\ f \in [Socket -> {{b} : b \in Buf}]
                   /\ \A s, t \in Socket : f[s] = f[t] => s = t
<1>1. \E f : P(f)
  BY SocketAssumption
<1>2. posted = CHOOSE f \in [Socket -> {{b} : b \in Buf}] :
                 \A s, t \in Socket : f[s] = f[t] => s = t
  BY DEF MediaInit
<1> QED BY <1>1, <1>2

\* The locals of a reader with nothing to do.
LEMMA IdleOK ==
  /\ Idle \in Job /\ JobOK(Idle)
  /\ Idle.pc = "idle" /\ Idle.buf = None /\ Idle.i = 1 /\ Idle.send_num = 0 /\ Idle.sent = 0
BY DEF Idle, Job, JobOK, Step, Holding, Found, NoPacket

\* At the start everything has its type.
LEMMA InitTypes == MediaInit => TypeInv
<1> SUFFICES ASSUME MediaInit PROVE TypeInv
  OBVIOUS
<1>1. TableTypes
  BY TableInitTypes DEF MediaInit
<1>2. Idle \in Job /\ JobOK(Idle)
  BY IdleOK
<1>3. Locals
  BY <1>2 DEF MediaInit, Locals
<1>4. posted \in [Socket -> SUBSET Buf]
  BY FirstReads
<1>5. MediaTypeOK
  BY <1>2, <1>4, AddrAssumption, BufAssumption DEF MediaInit, MediaTypeOK
<1> QED BY <1>1, <1>3, <1>5 DEF TypeInv

\* A step of the calls is one of CallTable.
LEMMA CallStepTable == CallStep => TableNext
<1> SUFFICES ASSUME CallStep PROVE TableNext
  OBVIOUS
<1>1. ASSUME NEW c \in Call, StopCall(c) PROVE TableNext
  BY <1>1 DEF StopCall, TableNext
<1>2. ASSUME NEW s \in Session, ForgetSession(s) PROVE TableNext
  BY <1>2 DEF ForgetSession, TableNext
<1> QED BY <1>1, <1>2, BufAssumption DEF CallStep, TableNext

\* Every change of the calls keeps what readers know of them.
LEMMA CallStepTypes == ASSUME TypeInv, CallStep PROVE TypeInv'
<1> USE DEF TypeInv
<1>1. TableNext
  BY CallStepTable
<1>2. TableTypes' /\ PortsStay
  BY <1>1, TableStepTypes
<1>3. m_port_seen' \in [Port -> SUBSET SeqNum] /\ m_session_seen' \in [Session -> SUBSET SeqNum]
  BY DEF CallStep, StopCall, ForgetSession, filterVars, MediaTypeOK
<1>4. OnlyTable /\ UNCHANGED packets
  BY DEF CallStep, StopCall, ForgetSession, OnlyTable
<1>5. MediaTypeOK'
  BY <1>3, <1>4 DEF MediaTypeOK, OnlyTable, bufVars, fieldVars
<1>6. Locals'
  <2>1. job' = job
    BY <1>4 DEF OnlyTable
  <2>2. ASSUME NEW n \in Info PROVE n[1] \in Call
    BY DEF Info
  <2> QED BY <1>2, <2>1, <2>2 DEF Locals, JobOK, PortsStay
<1> QED BY <1>2, <1>5, <1>6

\* A step that leaves the table alone leaves its types.
LEMMA SameTable ==
  ASSUME TypeInv, UNCHANGED tableVars
  PROVE  TableTypes' /\ UNCHANGED ports
BY DEF TypeInv, TableTypes, tableVars

\* What XMemPool gives is a free buffer.
LEMMA AllocType == free # {} => Alloc \in free
BY DEF Alloc

\* A packet dropped gives its buffer back.
LEMMA DropTypes ==
  ASSUME TypeInv, NEW r \in Reader, Drop(r), UNCHANGED ports, job[r].pc \in Holding
  PROVE  /\ job' \in [Reader -> Job] /\ Locals'
         /\ free' \subseteq Buf /\ posted' \in [Socket -> SUBSET Buf]
         /\ writes' \subseteq Write /\ m_num_cb' \in [Buf -> 0 .. 2]
<1>1. Idle \in Job /\ JobOK(Idle)
  BY IdleOK
<1>2. job' \in [Reader -> Job] /\ Locals'
  BY <1>1, JobStep DEF Drop, TypeInv, MediaTypeOK
<1>3. job[r].buf \in Buf
  BY DEF TypeInv, Locals, JobOK
<1> QED BY <1>2, <1>3 DEF Drop, TypeInv, MediaTypeOK

\* A read that failed.
LEMMA ReadFailsTypes ==
  ASSUME TypeInv, NEW s \in Socket, ReadFails(s) PROVE TypeInv'
<1>1. TableTypes' /\ UNCHANGED ports
  BY SameTable DEF ReadFails
<1>2. Locals'
  BY <1>1 DEF ReadFails, TypeInv, Locals, JobOK
<1>3. MediaTypeOK'
  BY BufAssumption DEF ReadFails, TypeInv, MediaTypeOK, fieldVars, filterVars
<1> QED BY <1>1, <1>2, <1>3 DEF TypeInv

\* The next read takes a free buffer.
LEMMA PostNextTypes ==
  ASSUME MediaTypeOK, NEW s \in Socket, NEW b \in posted[s], PostNext(s, b)
  PROVE  posted' \in [Socket -> SUBSET Buf] /\ free' \subseteq Buf /\ b \in Buf
BY AllocType DEF PostNext, MediaTypeOK

\* A packet read from a port.
LEMMA ReadPacketTypes ==
  ASSUME TypeInv, NEW r \in Reader, NEW s \in Socket, NEW pkt \in Packet,
         ReadPacket(r, s, pkt)
  PROVE  TypeInv'
<1>1. TableTypes' /\ UNCHANGED ports
  BY SameTable DEF ReadPacket
<1>2. PICK b \in posted[s] :
        /\ PostNext(s, b)
        /\ Set(r, [Idle EXCEPT !.pc = "find", !.buf = b, !.from = s[1], !.pkt = pkt])
  BY DEF ReadPacket
<1>3. /\ posted' \in [Socket -> SUBSET Buf] /\ free' \subseteq Buf /\ b \in Buf
  BY <1>2, PostNextTypes DEF TypeInv
<1> DEFINE rec == [Idle EXCEPT !.pc = "find", !.buf = b, !.from = s[1], !.pkt = pkt]
<1>4. rec \in Job /\ JobOK(rec)
  <2>1. s[1] \in Port
    BY DEF Socket
  <2>2. Idle \in Job /\ Idle.i = 1 /\ Idle.send_num = 0 /\ Idle.sent = 0
    BY IdleOK
  <2>3. rec \in Job
    BY <1>3, <2>1, <2>2 DEF Job, Step, Source
  <2>4. /\ rec.pc = "find" /\ rec.buf = b /\ rec.from = s[1] /\ rec.pkt = pkt
        /\ rec.i = 1 /\ rec.send_num = 0 /\ rec.sent = 0
    BY <2>2 DEF Job
  <2> HIDE DEF rec
  <2>5. JobOK(rec)
    BY <1>3, <2>1, <2>4 DEF JobOK, Holding, Found
  <2> QED BY <2>3, <2>5
<1>5. job' \in [Reader -> Job] /\ Locals'
  BY <1>1, <1>2, <1>4, JobStep DEF TypeInv, MediaTypeOK
<1>6. MediaTypeOK'
  BY <1>3, <1>5, BufAssumption DEF ReadPacket, TypeInv, MediaTypeOK, fieldVars, filterVars
<1> QED BY <1>1, <1>5, <1>6 DEF TypeInv

\* An RTCP packet.
LEMMA ReadRtcpTypes ==
  ASSUME TypeInv, NEW s \in Socket, ReadRtcp(s) PROVE TypeInv'
<1>1. TableTypes' /\ UNCHANGED ports
  BY SameTable DEF ReadRtcp
<1>2. PICK b \in posted[s] : PostNext(s, b) /\ lost' = lost \cup {b}
  BY DEF ReadRtcp
<1>3. posted' \in [Socket -> SUBSET Buf] /\ free' \subseteq Buf /\ b \in Buf
  BY <1>2, PostNextTypes DEF TypeInv
<1>4. Locals'
  BY <1>1 DEF ReadRtcp, TypeInv, Locals, JobOK
<1>5. MediaTypeOK'
  BY <1>2, <1>3, BufAssumption DEF ReadRtcp, TypeInv, MediaTypeOK, fieldVars, filterVars
<1> QED BY <1>1, <1>4, <1>5 DEF TypeInv

\* A step of a reader with a packet changes its locals and its buffer only.
LEMMA ReaderTypes ==
  ASSUME TypeInv, RelayUnchanged,
         job' \in [Reader -> Job], Locals', free' \subseteq Buf,
         posted' \in [Socket -> SUBSET Buf], writes' \subseteq Write,
         m_num_cb' \in [Buf -> 0 .. 2]
  PROVE  TypeInv'
<1>1. TableTypes' /\ UNCHANGED ports
  BY SameTable DEF RelayUnchanged
<1>2. MediaTypeOK'
  BY DEF RelayUnchanged, TypeInv, MediaTypeOK, fieldVars, filterVars
<1> QED BY <1>1, <1>2 DEF TypeInv

\* The same of one that only moves on.
LEMMA MoveTypes ==
  ASSUME TypeInv, RelayUnchanged, UNCHANGED bufVars, NEW r \in Reader, NEW rec \in Job,
         JobOK(rec), Set(r, rec)
  PROVE  TypeInv'
<1>1. job' \in [Reader -> Job] /\ Locals'
  BY JobStep DEF RelayUnchanged, tableVars, TypeInv, MediaTypeOK
<1> QED BY <1>1, ReaderTypes DEF bufVars, TypeInv, MediaTypeOK

\* The same of one that drops its packet.
LEMMA DropStepTypes ==
  ASSUME TypeInv, RelayUnchanged, NEW r \in Reader, Drop(r), job[r].pc \in Holding
  PROVE  TypeInv'
BY DropTypes, ReaderTypes DEF RelayUnchanged, tableVars

-----------------------------------------------------------------------------
(* One lemma for each step of a reader. *)

\* get_sptr_tf_info.
LEMMA FindTypes == ASSUME TypeInv, NEW r \in Reader, Find(r) PROVE TypeInv'
<1> DEFINE n == InfoAt(job[r].from)
           rec == [job[r] EXCEPT !.pc = "learn", !.info = n]
<1>1. RelayUnchanged
  BY DEF Find, RelayUnchanged
<1>2. job[r].pc = "find" /\ JobOK(job[r]) /\ job[r] \in Job /\ TableTypes
  BY DEF Find, TypeInv, Locals, MediaTypeOK
<1>3. CASE n = None
  BY <1>1, <1>2, <1>3, DropStepTypes DEF Find, Holding
<1>4. CASE n # None
  <2>1. job[r].from \in Port
    BY <1>2 DEF JobOK, Holding
  <2>2. n \in Info /\ ports[n[1]] \in Pair
    BY <1>2, <1>4, <2>1, InfoFound
  <2>3. Set(r, rec) /\ UNCHANGED bufVars
    BY <1>4 DEF Find
  <2> HIDE DEF n
  <2>4. rec \in Job
    BY <1>2, <2>2 DEF Job, Step
  <2>5. /\ rec.pc = "learn" /\ rec.info = n /\ rec.buf = job[r].buf /\ rec.from = job[r].from
        /\ rec.pkt = job[r].pkt /\ rec.i = job[r].i /\ rec.send_num = job[r].send_num
        /\ rec.sent = job[r].sent
    BY <1>2 DEF Job
  <2> HIDE DEF rec
  <2>6. JobOK(rec)
    BY <1>2, <2>2, <2>5 DEF JobOK, Holding, Found
  <2> QED BY <1>1, <2>3, <2>4, <2>6, MoveTypes
<1> QED BY <1>3, <1>4

\* A reader that only goes to another label with what it has.
LEMMA AdvanceOK ==
  ASSUME NEW j \in Job, NEW label \in Step
  PROVE  LET rec == [j EXCEPT !.pc = label] IN
         /\ rec \in Job /\ rec.pc = label /\ rec.info = j.info /\ rec.buf = j.buf
         /\ rec.from = j.from /\ rec.pkt = j.pkt /\ rec.i = j.i /\ rec.sent = j.sent
         /\ rec.send_num = j.send_num /\ rec.peer = j.peer /\ rec.cid = j.cid
BY DEF Job

\* The address and the ssrc under the info's lock.
LEMMA LearnTypes == ASSUME TypeInv, NEW r \in Reader, Learn(r) PROVE TypeInv'
<1> DEFINE label == IF CallType[job[r].info[1]] = "CT_TRANSFORM" THEN "status" ELSE "peer"
           rec == [job[r] EXCEPT !.pc = label]
<1>1. TableTypes' /\ UNCHANGED ports
  BY SameTable DEF Learn
<1>2. job[r].pc = "learn" /\ JobOK(job[r]) /\ job[r] \in Job
  BY DEF Learn, TypeInv, Locals, MediaTypeOK
<1>3. job[r].info \in Info /\ job[r].pkt \in Packet
  BY <1>2 DEF JobOK, Holding, Found
<1>4. job[r].pkt.addr \in Addr /\ job[r].pkt.ssrc \in Ssrc
  BY <1>3, StreamAssumption DEF Packet, Ssrc
<1>5. m_dest_addr' \in [Info -> Addr \cup {None}] /\ m_ssrc_id' \in [Info -> Ssrc \cup HeapWord]
  BY <1>4 DEF Learn, TypeInv, MediaTypeOK
<1>6. heard' \subseteq Info \X Addr \X Ssrc
  BY <1>3, <1>4 DEF Learn, TypeInv, MediaTypeOK
<1>7. Accept(r) \/ Drop(r)
  BY DEF Learn
<1>8. CASE Accept(r)
  <2>1. label \in Step
    BY DEF Step
  <2>2. Set(r, rec) /\ UNCHANGED bufVars
    BY <1>8 DEF Accept, Advance, Set
  <2>3. rec.pc \in {"status", "peer"}
    BY <1>2, <2>1, AdvanceOK
  <2>4. rec \in Job /\ JobOK(rec)
    <3>1. /\ rec \in Job /\ rec.info = job[r].info /\ rec.buf = job[r].buf
          /\ rec.from = job[r].from /\ rec.pkt = job[r].pkt /\ rec.i = job[r].i
          /\ rec.sent = job[r].sent /\ rec.send_num = job[r].send_num
      BY <1>2, <2>1, AdvanceOK
    <3> HIDE DEF rec
    <3> QED BY <1>2, <2>3, <3>1 DEF JobOK, Holding, Found
  <2>5. job' \in [Reader -> Job] /\ Locals'
    BY <1>1, <2>2, <2>4, JobStep DEF TypeInv, MediaTypeOK
  <2>6. MediaTypeOK'
    BY <1>5, <1>6, <2>2, <2>5 DEF Learn, TypeInv, MediaTypeOK, bufVars, filterVars
  <2> QED BY <1>1, <2>5, <2>6 DEF TypeInv
<1>9. CASE Drop(r)
  <2>1. /\ job' \in [Reader -> Job] /\ Locals'
        /\ free' \subseteq Buf /\ posted' \in [Socket -> SUBSET Buf]
        /\ writes' \subseteq Write /\ m_num_cb' \in [Buf -> 0 .. 2]
    BY <1>1, <1>2, <1>9, DropTypes DEF Holding, Found
  <2>2. MediaTypeOK'
    BY <1>5, <1>6, <2>1 DEF Learn, TypeInv, MediaTypeOK, filterVars
  <2> QED BY <1>1, <2>1, <2>2 DEF TypeInv
<1> QED BY <1>7, <1>8, <1>9

\* The status of the paths.
LEMMA CheckStatusTypes == ASSUME TypeInv, NEW r \in Reader, CheckStatus(r) PROVE TypeInv'
<1> DEFINE rec == [job[r] EXCEPT !.pc = "check"]
<1>1. job[r].pc = "status" /\ JobOK(job[r]) /\ job[r] \in Job /\ RelayUnchanged
  BY DEF CheckStatus, TypeInv, Locals, MediaTypeOK
<1>2. CASE PathStatus(job[r].info) = "PS_SUC"
  <2>0. "check" \in Step
    BY DEF Step
  <2>1. /\ rec \in Job /\ rec.pc = "check" /\ rec.info = job[r].info /\ rec.buf = job[r].buf
        /\ rec.from = job[r].from /\ rec.pkt = job[r].pkt /\ rec.i = job[r].i
        /\ rec.sent = job[r].sent /\ rec.send_num = job[r].send_num
    BY <1>1, <2>0, AdvanceOK
  <2>2. Set(r, rec) /\ UNCHANGED bufVars
    BY <1>2 DEF CheckStatus, Advance, Set
  <2> HIDE DEF rec
  <2>3. JobOK(rec)
    BY <1>1, <2>1 DEF JobOK, Holding, Found, Least
  <2> QED BY <1>1, <2>1, <2>2, <2>3, MoveTypes
<1>3. CASE PathStatus(job[r].info) # "PS_SUC"
  BY <1>1, <1>3, DropStepTypes DEF CheckStatus, Holding, Found
<1> QED BY <1>2, <1>3

\* The loop over m_cid: is the slot in use?
LEMMA CheckCidTypes == ASSUME TypeInv, NEW r \in Reader, CheckCid(r) PROVE TypeInv'
<1>1. /\ job[r].pc = "check" /\ JobOK(job[r]) /\ job[r] \in Job
      /\ RelayUnchanged /\ UNCHANGED bufVars
  BY DEF CheckCid, TypeInv, Locals, MediaTypeOK
<1>2. job[r].i \in 1 .. 4 /\ job[r].send_num \in 0 .. 3
  BY <1>1 DEF Job
<1>3. CASE job[r].i = 4
  <2> DEFINE rec == [job[r] EXCEPT !.pc = "after"]
  <2>0. "after" \in Step
    BY DEF Step
  <2>1. /\ rec \in Job /\ rec.pc = "after" /\ rec.info = job[r].info /\ rec.buf = job[r].buf
        /\ rec.from = job[r].from /\ rec.pkt = job[r].pkt
        /\ rec.sent = job[r].sent /\ rec.send_num = job[r].send_num
    BY <1>1, <2>0, AdvanceOK
  <2>2. Set(r, rec)
    BY <1>3 DEF CheckCid
  <2> HIDE DEF rec
  <2>3. JobOK(rec)
    BY <1>1, <2>1 DEF JobOK, Holding, Found
  <2> QED BY <1>1, <2>1, <2>2, <2>3, MoveTypes
<1>4. CASE job[r].i # 4 /\ CidAt(job[r].info, job[r].i) = 0
  <2> DEFINE rec == [job[r] EXCEPT !.i = @ + 1]
  <2>0. "check" \in Step
    BY DEF Step
  <2>1. /\ rec \in Job /\ rec.pc = "check" /\ rec.info = job[r].info /\ rec.buf = job[r].buf
        /\ rec.from = job[r].from /\ rec.pkt = job[r].pkt /\ rec.i = job[r].i + 1
        /\ rec.sent = job[r].sent /\ rec.send_num = job[r].send_num
    BY <1>1, <1>2, <1>4 DEF Job
  <2>2. Set(r, rec)
    BY <1>4 DEF CheckCid
  <2> HIDE DEF rec
  <2>3. JobOK(rec)
    BY <1>1, <1>2, <2>1 DEF JobOK, Holding, Found
  <2> QED BY <1>1, <2>1, <2>2, <2>3, MoveTypes
<1>5. CASE job[r].i # 4 /\ CidAt(job[r].info, job[r].i) # 0
  <2> DEFINE rec == [job[r] EXCEPT !.pc = "take"]
  <2>0. "take" \in Step
    BY DEF Step
  <2>1. /\ rec \in Job /\ rec.pc = "take" /\ rec.info = job[r].info /\ rec.buf = job[r].buf
        /\ rec.from = job[r].from /\ rec.pkt = job[r].pkt /\ rec.i = job[r].i
        /\ rec.sent = job[r].sent /\ rec.send_num = job[r].send_num
    BY <1>1, <2>0, AdvanceOK
  <2>2. Set(r, rec)
    BY <1>5 DEF CheckCid
  <2> HIDE DEF rec
  <2>3. JobOK(rec)
    BY <1>1, <1>2, <1>5, <2>1 DEF JobOK, Holding, Found
  <2> QED BY <1>1, <2>1, <2>2, <2>3, MoveTypes
<1> QED BY <1>3, <1>4, <1>5

\* The loop over m_cid: the copy for its slot.
LEMMA TakeCidTypes == ASSUME TypeInv, NEW r \in Reader, TakeCid(r) PROVE TypeInv'
<1> DEFINE cid == CidAt(job[r].info, job[r].i)
           sent == IF job[r].send_num < 2 THEN job[r].sent + 1 ELSE job[r].sent
           rec == [job[r] EXCEPT !.pc = "check", !.i = @ + 1, !.send_num = @ + 1,
                                 !.cid = cid, !.sent = sent]
<1>1. /\ job[r].pc = "take" /\ JobOK(job[r]) /\ job[r] \in Job /\ TableTypes
      /\ RelayUnchanged /\ UNCHANGED bufVars /\ Set(r, rec)
  BY DEF TakeCid, TypeInv, Locals, MediaTypeOK
<1>2. /\ job[r].i \in 1 .. 3 /\ job[r].send_num \in 0 .. 2
      /\ job[r].sent = Least(job[r].send_num, 2) /\ job[r].send_num < job[r].i
  BY <1>1 DEF Job, JobOK
<1>3. cid \in Cid \cup {0}
  <2>1. job[r].info \in Info
    BY <1>1 DEF JobOK, Found
  <2> QED BY <1>1, <1>2, <2>1, CidAtType
<1>4. sent \in 0 .. 3 /\ sent = Least(job[r].send_num + 1, 2)
  BY <1>2 DEF Least
<1> HIDE DEF cid, sent
<1>5. rec \in Job
  <2>1. "check" \in Step /\ job[r].i + 1 \in 1 .. 4 /\ job[r].send_num + 1 \in 0 .. 3
    BY <1>2 DEF Step
  <2>2. ASSUME NEW j \in Job, NEW label \in Step, NEW i \in 1 .. 4, NEW c \in Cid \cup {0},
               NEW m \in 0 .. 3, NEW n \in 0 .. 3
        PROVE  [j EXCEPT !.pc = label, !.i = i, !.send_num = m, !.cid = c, !.sent = n] \in Job
    BY DEF Job
  <2> QED BY <1>1, <1>3, <1>4, <2>1, <2>2
<1>6. /\ rec.pc = "check" /\ rec.info = job[r].info /\ rec.buf = job[r].buf
      /\ rec.from = job[r].from /\ rec.pkt = job[r].pkt /\ rec.i = job[r].i + 1
      /\ rec.sent = sent /\ rec.send_num = job[r].send_num + 1
  BY <1>1 DEF Job
<1> USE DEF sent
<1> HIDE DEF rec
<1>7. JobOK(rec)
  BY <1>1, <1>2, <1>4, <1>6 DEF JobOK, Holding, Found
<1> QED BY <1>1, <1>5, <1>7, MoveTypes

\* The end of the loop.
LEMMA AfterPathsTypes == ASSUME TypeInv, NEW r \in Reader, AfterPaths(r) PROVE TypeInv'
<1> DEFINE label == IF job[r].send_num < 2 THEN "again" ELSE "free"
           rec == [job[r] EXCEPT !.pc = label]
<1>1. job[r].pc = "after" /\ JobOK(job[r]) /\ job[r] \in Job /\ RelayUnchanged
  BY DEF AfterPaths, TypeInv, Locals, MediaTypeOK
<1>2. CASE job[r].cid = 0 \/ job[r].send_num = 0
  BY <1>1, <1>2, DropStepTypes DEF AfterPaths, Holding, Found
<1>3. CASE ~(job[r].cid = 0 \/ job[r].send_num = 0)
  <2>1. label \in Step
    BY DEF Step
  <2>2. /\ rec \in Job /\ rec.pc = label /\ rec.info = job[r].info /\ rec.buf = job[r].buf
        /\ rec.from = job[r].from /\ rec.pkt = job[r].pkt
        /\ rec.sent = job[r].sent /\ rec.send_num = job[r].send_num
    BY <1>1, <2>1, AdvanceOK
  <2>3. Set(r, rec) /\ UNCHANGED bufVars
    BY <1>3 DEF AfterPaths, Advance, Set
  <2> HIDE DEF rec
  <2>4. job[r].send_num \in 1 .. 3
    BY <1>1, <1>3 DEF Job
  <2>5. JobOK(rec)
    BY <1>1, <2>2, <2>4 DEF JobOK, Holding, Found, Least
  <2> QED BY <1>1, <2>2, <2>3, <2>5, MoveTypes
<1> QED BY <1>2, <1>3

\* A reader that has sent a copy goes on.
LEMMA SentOK ==
  ASSUME NEW j \in Job, NEW label \in Step, NEW m \in 0 .. 3
  PROVE  [j EXCEPT !.pc = label, !.sent = m] \in Job
BY DEF Job

\* The second copy of one valid path.
LEMMA SendAgainTypes == ASSUME TypeInv, NEW r \in Reader, SendAgain(r) PROVE TypeInv'
<1> DEFINE rec == [job[r] EXCEPT !.pc = "free", !.sent = 2]
<1>1. /\ job[r].pc = "again" /\ JobOK(job[r]) /\ job[r] \in Job
      /\ RelayUnchanged /\ UNCHANGED bufVars
  BY DEF SendAgain, TypeInv, Locals, MediaTypeOK
<1>2. job[r].sent = 1 /\ "free" \in Step /\ 2 \in 0 .. 3
  BY <1>1 DEF JobOK, Step
<1>5. Set(r, rec)
  <2>1. job[r].sent + 1 = 2
    BY <1>2
  <2> QED BY <2>1 DEF SendAgain, Set
<1>3. rec \in Job
  BY <1>1, <1>2, SentOK
<1>6. /\ rec.pc = "free" /\ rec.info = job[r].info /\ rec.buf = job[r].buf
      /\ rec.from = job[r].from /\ rec.pkt = job[r].pkt /\ rec.sent = 2
  BY <1>1 DEF Job
<1> HIDE DEF rec
<1>4. JobOK(rec)
  BY <1>1, <1>6 DEF JobOK, Holding, Found
<1> QED BY <1>1, <1>3, <1>4, <1>5, MoveTypes

\* A packet handed to the relay client twice.
LEMMA FreeSentTypes == ASSUME TypeInv, NEW r \in Reader, FreeSent(r) PROVE TypeInv'
BY DropStepTypes DEF FreeSent, Holding, Found

\* The info of the other port.
LEMMA FindPeerTypes == ASSUME TypeInv, NEW r \in Reader, FindPeer(r) PROVE TypeInv'
<1> DEFINE n == InfoAt(DirectPort(job[r].info))
           label == IF n[2] = "sent" THEN "first" ELSE "filter"
           rec == [job[r] EXCEPT !.pc = label, !.peer = n]
<1>1. /\ job[r].pc = "peer" /\ JobOK(job[r]) /\ job[r] \in Job /\ TableTypes
      /\ RelayUnchanged
  BY DEF FindPeer, TypeInv, Locals, MediaTypeOK
<1>2. CASE n = None \/ m_dest_addr[n] = None
  BY <1>1, <1>2, DropStepTypes DEF FindPeer, Holding, Found
<1>3. CASE n # None /\ m_dest_addr[n] # None
  <2>1. job[r].info \in Info /\ ports[job[r].info[1]] \in Pair
    BY <1>1 DEF JobOK, Found
  <2>2. n \in Info
    BY <1>1, <1>3, <2>1, DirectPortType, InfoFound
  <2>3. Set(r, rec) /\ UNCHANGED bufVars
    BY <1>3 DEF FindPeer
  <2>4. label \in {"first", "filter"} /\ label \in Step
    BY DEF Step
  <2> HIDE DEF n, label
  <2>5. /\ rec \in Job /\ rec.pc = label /\ rec.info = job[r].info /\ rec.buf = job[r].buf
        /\ rec.from = job[r].from /\ rec.pkt = job[r].pkt /\ rec.peer = n
    BY <1>1, <2>2, <2>4 DEF Job
  <2> HIDE DEF rec
  <2>6. JobOK(rec)
    BY <1>1, <2>2, <2>4, <2>5 DEF JobOK, Holding, Found
  <2> QED BY <1>1, <2>3, <2>5, <2>6, MoveTypes
<1> QED BY <1>2, <1>3

\* What a reader writes is a packet's buffer or the relay client's.
LEMMA NewWriteType ==
  ASSUME TypeInv, NEW r \in Reader, NEW copy \in 0 .. 2
  PROVE  NewWrite(r, copy) \in Write
BY DEF NewWrite, Write, TypeInv, MediaTypeOK, Job

\* The first copy for the peer's RtpProxy.
LEMMA SendFirstTypes == ASSUME TypeInv, NEW r \in Reader, SendFirst(r) PROVE TypeInv'
<1> DEFINE rec == [job[r] EXCEPT !.pc = "second", !.sent = 1]
<1>1. /\ job[r].pc = "first" /\ JobOK(job[r]) /\ job[r] \in Job
      /\ RelayUnchanged /\ UNCHANGED <<posted, free>> /\ Set(r, rec)
  BY DEF SendFirst, TypeInv, Locals, MediaTypeOK
<1>2. "second" \in Step /\ 1 \in 0 .. 3
  BY DEF Step
<1>3. rec \in Job
  BY <1>1, <1>2, SentOK
<1>8. /\ rec.pc = "second" /\ rec.info = job[r].info /\ rec.buf = job[r].buf
      /\ rec.from = job[r].from /\ rec.pkt = job[r].pkt /\ rec.peer = job[r].peer
  BY <1>1 DEF Job
<1> HIDE DEF rec
<1>4. JobOK(rec)
  BY <1>1, <1>8 DEF JobOK, Holding, Found
<1>5. job' \in [Reader -> Job] /\ Locals'
  BY <1>1, <1>3, <1>4, JobStep DEF TypeInv, MediaTypeOK, RelayUnchanged, tableVars
<1>6. writes' \subseteq Write
  BY NewWriteType DEF SendFirst, TypeInv, MediaTypeOK
<1>7. m_num_cb' \in [Buf -> 0 .. 2]
  <2>1. m_num_cb' = [m_num_cb EXCEPT ![job[r].buf] = 2] /\ m_num_cb \in [Buf -> 0 .. 2]
    BY DEF SendFirst, TypeInv, MediaTypeOK
  <2>2. 2 \in 0 .. 2
    OBVIOUS
  <2> HIDE DEF TypeInv
  <2> QED BY <2>1, <2>2, Zenon
<1> QED BY <1>1, <1>5, <1>6, <1>7, ReaderTypes DEF TypeInv, MediaTypeOK

\* The end of a reader's work on a packet.
LEMMA IdleStep ==
  ASSUME TypeInv, NEW r \in Reader, Set(r, Idle), UNCHANGED ports
  PROVE  job' \in [Reader -> Job] /\ Locals'
BY IdleOK, JobStep DEF TypeInv, MediaTypeOK

\* The second copy for the peer's RtpProxy.
LEMMA SendSecondTypes == ASSUME TypeInv, NEW r \in Reader, SendSecond(r) PROVE TypeInv'
<1>1. job' \in [Reader -> Job] /\ Locals'
  BY IdleStep DEF SendSecond, RelayUnchanged, tableVars
<1>2. writes' \subseteq Write
  BY NewWriteType DEF SendSecond, TypeInv, MediaTypeOK
<1> QED BY <1>1, <1>2, ReaderTypes DEF SendSecond, TypeInv, MediaTypeOK

\* What is recorded of a packet for a user.
LEMMA RecordTypes ==
  ASSUME MediaTypeOK, NEW source \in Source, NEW c \in Call, NEW seq \in SeqNum,
         Record(source, c, seq)
  PROVE  delivered' \subseteq Source \X Call \X SeqNum /\ repeated' \subseteq delivered'
BY DEF MediaTypeOK, Record

\* The copy for the user.
LEMMA SendToUserTypes == ASSUME TypeInv, NEW r \in Reader, SendToUser(r) PROVE TypeInv'
<1> DEFINE port == job[r].from
           seq == job[r].pkt.seq
<1>1. job[r].pc = "filter" /\ JobOK(job[r]) /\ MediaTypeOK
  BY DEF SendToUser, TypeInv, Locals
<1>2. port \in Port /\ job[r].pkt \in Packet /\ job[r].peer \in Info
  BY <1>1 DEF JobOK, Holding, Found
<1>3. seq \in SeqNum /\ port \in Source /\ job[r].peer[1] \in Call
  BY <1>2 DEF Packet, Source, Info
<1>4. TableTypes' /\ UNCHANGED ports
  BY SameTable DEF SendToUser
<1>5. m_port_seen' \in [Port -> SUBSET SeqNum]
  BY <1>1, <1>2, <1>3 DEF SendToUser, MediaTypeOK
<1>6. CASE seq \in m_port_seen[port]
  <2>1. Drop(r) /\ UNCHANGED <<delivered, repeated>>
    BY <1>6 DEF SendToUser
  <2>2. /\ job' \in [Reader -> Job] /\ Locals'
        /\ free' \subseteq Buf /\ posted' \in [Socket -> SUBSET Buf]
        /\ writes' \subseteq Write /\ m_num_cb' \in [Buf -> 0 .. 2]
    BY <1>1, <1>4, <2>1, DropTypes DEF Holding, Found
  <2>3. MediaTypeOK'
    BY <1>1, <1>5, <2>1, <2>2 DEF SendToUser, MediaTypeOK, fieldVars
  <2> QED BY <1>4, <2>2, <2>3 DEF TypeInv
<1>7. CASE seq \notin m_port_seen[port]
  <2>1. /\ writes' = writes \cup {NewWrite(r, 0)}
        /\ Record(port, job[r].peer[1], seq)
        /\ Set(r, Idle) /\ UNCHANGED <<posted, free, m_num_cb>>
    BY <1>7 DEF SendToUser
  <2>2. job' \in [Reader -> Job] /\ Locals'
    BY <1>4, <2>1, IdleStep
  <2>3. delivered' \subseteq Source \X Call \X SeqNum /\ repeated' \subseteq delivered'
    BY <1>1, <1>3, <2>1, RecordTypes
  <2>4. writes' \subseteq Write
    <3>1. NewWrite(r, 0) \in Write
      BY NewWriteType
    <3> QED BY <1>1, <2>1, <3>1 DEF MediaTypeOK
  <2>5. MediaTypeOK'
    BY <1>1, <1>5, <2>1, <2>2, <2>3, <2>4 DEF SendToUser, MediaTypeOK, fieldVars
  <2> QED BY <1>4, <2>2, <2>5 DEF TypeInv
<1> QED BY <1>6, <1>7

\* The callback of a copy being written has a copy left to count.
LEMMA CopyCounted ==
  ASSUME IInv, NEW w \in writes, w.copy # 0
  PROVE  w.buf \in Buf /\ m_num_cb[w.buf] \in 1 .. 2
<1>1. w \in Write /\ w.buf # None
  BY DEF IInv, BufInv, TypeInv, MediaTypeOK, RelayedOnce
<1>2. w.buf \in Buf /\ w.copy \in 1 .. 2 /\ w = [buf |-> w.buf, copy |-> w.copy]
  BY <1>1 DEF Write
<1>3. InWrite(w.buf, 1) \/ InWrite(w.buf, 2)
  BY <1>2 DEF InWrite
<1>4. m_num_cb[w.buf] \in 0 .. 2 /\ BufOK(w.buf)
  BY <1>2 DEF IInv, BufInv, TypeInv, MediaTypeOK
<1> QED BY <1>2, <1>3, <1>4 DEF BufOK, One

\* The completion of a write.
LEMMA WriteDoneTypes == ASSUME IInv, NEW w, WriteDone(w) PROVE TypeInv'
<1>1. TypeInv /\ w \in writes
  BY DEF IInv, WriteDone
<1>2. m_num_cb' \in [Buf -> 0 .. 2]
  <2>1. CASE w.copy = 0
    BY <1>1, <2>1 DEF WriteDone, TypeInv, MediaTypeOK
  <2>2. CASE w.copy # 0
    <3>1. m_num_cb[w.buf] - 1 \in 0 .. 2 /\ w.buf \in Buf
      BY <1>1, <2>2, CopyCounted
    <3> QED BY <1>1, <2>2, <3>1 DEF WriteDone, TypeInv, MediaTypeOK
  <2> QED BY <2>1, <2>2
<1>3. free' \subseteq Buf
  BY <1>1 DEF WriteDone, TypeInv, MediaTypeOK, Write
<1>4. job' \in [Reader -> Job] /\ Locals'
  BY <1>1 DEF WriteDone, RelayUnchanged, tableVars, TypeInv, MediaTypeOK, Locals, JobOK
<1> QED BY <1>1, <1>2, <1>3, <1>4, ReaderTypes DEF WriteDone, TypeInv, MediaTypeOK

\* A packet of the relay client.
LEMMA RelayPacketTypes ==
  ASSUME TypeInv, NEW r \in Reader, NEW s \in Session, NEW seq \in SeqNum,
         RelayPacket(r, s, seq)
  PROVE  TypeInv'
<1> DEFINE rec == [Idle EXCEPT !.pc = "port", !.from = s, !.pkt.seq = seq]
<1>1. TableTypes' /\ UNCHANGED ports
  BY SameTable DEF RelayPacket
<1>2. job' \in [Reader -> Job] /\ Locals'
  <2>1. CASE UNCHANGED job
    BY <1>1, <2>1 DEF TypeInv, MediaTypeOK, Locals, JobOK
  <2>2. CASE Set(r, rec)
    <3>1. Idle.pkt = NoPacket
      BY DEF Idle
    <3> DEFINE pkt == [NoPacket EXCEPT !.seq = seq]
    <3>2. pkt \in {[NoPacket EXCEPT !.seq = n] : n \in SeqNum \cup {0}} /\ pkt.seq = seq
      BY DEF NoPacket
    <3>3. rec = [Idle EXCEPT !.pc = "port", !.from = s, !.pkt = pkt]
      BY <3>1
    <3> HIDE DEF pkt, rec
    <3>4. Idle \in Job /\ Idle.buf = None /\ "port" \in Step /\ s \in Source
      BY IdleOK DEF Step, Source
    <3>5. rec \in Job
      BY <3>2, <3>3, <3>4 DEF Job
    <3>6. rec.pc = "port" /\ rec.buf = None /\ rec.from = s /\ rec.pkt = pkt
      BY <3>3, <3>4 DEF Job
    <3>7. JobOK(rec)
      BY <3>2, <3>6 DEF JobOK, Holding, Found
    <3> QED BY <1>1, <2>2, <3>5, <3>7, JobStep DEF TypeInv, MediaTypeOK
  <2> QED BY <2>1, <2>2 DEF RelayPacket
<1>3. MediaTypeOK'
  BY <1>2, BufAssumption DEF RelayPacket, TypeInv, MediaTypeOK, bufVars, fieldVars
<1> QED BY <1>1, <1>2, <1>3 DEF TypeInv

\* SessionID2PortMap::get_port.
LEMMA FindPortTypes == ASSUME TypeInv, NEW r \in Reader, FindPort(r) PROVE TypeInv'
<1> DEFINE p == m_session_to_port_map[job[r].from]
           rec == [job[r] EXCEPT !.pc = "deliver", !.port = <<p, "recv">>]
<1>1. /\ job[r].pc = "port" /\ JobOK(job[r]) /\ job[r] \in Job /\ TableTypes
      /\ RelayUnchanged /\ UNCHANGED bufVars
  BY DEF FindPort, TypeInv, Locals, MediaTypeOK
<1>2. CASE p = None
  BY <1>1, <1>2, IdleOK, MoveTypes DEF FindPort
<1>3. CASE p # None
  <2>1. job[r].from \in Session /\ job[r].buf = None /\ job[r].pkt.seq \in SeqNum
    BY <1>1 DEF JobOK, Holding, Found
  <2>2. <<p, "recv">> \in Port /\ "deliver" \in Step
    BY <1>1, <1>3, <2>1 DEF TableTypes, Port, Side, Step
  <2>3. Set(r, rec)
    BY <1>3 DEF FindPort
  <2> HIDE DEF p
  <2>4. /\ rec \in Job /\ rec.pc = "deliver" /\ rec.buf = None /\ rec.from = job[r].from
        /\ rec.pkt = job[r].pkt /\ rec.port = <<p, "recv">>
    BY <1>1, <2>1, <2>2 DEF Job
  <2> HIDE DEF rec
  <2>5. JobOK(rec)
    BY <2>1, <2>2, <2>4 DEF JobOK, Holding, Found
  <2> QED BY <1>1, <2>3, <2>4, <2>5, MoveTypes
<1> QED BY <1>2, <1>3

\* A packet of the relay client on its way to the user.
LEMMA DeliverRelayedTypes == ASSUME TypeInv, NEW r \in Reader, DeliverRelayed(r) PROVE TypeInv'
<1> DEFINE n == InfoAt(job[r].port)
<1>1. job[r].pc = "deliver" /\ JobOK(job[r]) /\ MediaTypeOK /\ TableTypes
  BY DEF DeliverRelayed, TypeInv, Locals
<1>2. job[r].from \in Source /\ job[r].pkt.seq \in SeqNum /\ job[r].port \in Port
  BY <1>1 DEF JobOK, Source
<1>3. TableTypes' /\ UNCHANGED ports
  BY SameTable DEF DeliverRelayed
<1>4. job' \in [Reader -> Job] /\ Locals'
  BY <1>3, IdleStep DEF DeliverRelayed
<1>5. CASE n = None \/ free = {}
  <2>1. MediaTypeOK'
    BY <1>1, <1>4, <1>5 DEF DeliverRelayed, MediaTypeOK, fieldVars, filterVars
  <2> QED BY <1>3, <1>4, <2>1 DEF TypeInv
<1>6. CASE ~(n = None \/ free = {})
  <2>1. n \in Info /\ n[1] \in Call
    BY <1>1, <1>2, <1>6, InfoFound DEF Info
  <2>2. /\ free' = free \ {Alloc} /\ lost' = lost \cup {Alloc}
        /\ writes' = writes \cup {NewWrite(r, 0)}
        /\ Record(job[r].from, n[1], job[r].pkt.seq)
    BY <1>6 DEF DeliverRelayed
  <2>3. Alloc \in Buf
    BY <1>1, <1>6, AllocType DEF MediaTypeOK
  <2>4. delivered' \subseteq Source \X Call \X SeqNum /\ repeated' \subseteq delivered'
    BY <1>1, <1>2, <2>1, <2>2, RecordTypes
  <2>5. writes' \subseteq Write
    <3>1. NewWrite(r, 0) \in Write
      BY NewWriteType
    <3> QED BY <1>1, <2>2, <3>1 DEF MediaTypeOK
  <2>6. MediaTypeOK'
    BY <1>1, <1>4, <2>2, <2>3, <2>4, <2>5
       DEF DeliverRelayed, MediaTypeOK, fieldVars, filterVars
  <2> QED BY <1>3, <1>4, <2>6 DEF TypeInv
<1> QED BY <1>5, <1>6

-----------------------------------------------------------------------------
(* The buffers.  Each step says where every buffer is after it. *)

\* Where buffers are after a reader's step.
LEMMA HandMoves ==
  ASSUME TypeInv, HeldApart, NEW r \in Reader, NEW rec, Set(r, rec), NEW b \in Buf
  PROVE  /\ InHand(b)' <=> rec.buf = b \/ (InHand(b) /\ job[r].buf # b)
         /\ Pending(b)' <=> \/ rec.pc = "second" /\ rec.buf = b
                            \/ Pending(b) /\ job[r].buf # b
<1>1. job' = [job EXCEPT ![r] = rec] /\ job \in [Reader -> Job] /\ b # None
  BY BufAssumption DEF Set, TypeInv, MediaTypeOK
<1>2. job'[r] = rec /\ \A q \in Reader : q # r => job'[q] = job[q]
  BY <1>1
<1>3. InHand(b)' <=> rec.buf = b \/ (InHand(b) /\ job[r].buf # b)
  BY <1>1, <1>2 DEF InHand, HeldApart
<1>4. Pending(b)' <=> \/ rec.pc = "second" /\ rec.buf = b
                      \/ Pending(b) /\ job[r].buf # b
  BY <1>1, <1>2 DEF Pending, HeldApart
<1> QED BY <1>3, <1>4

\* Readers stay apart when one lets go, keeps its buffer or takes one that
\* nobody has.
LEMMA HandsApart ==
  ASSUME TypeInv, HeldApart, NEW r \in Reader, NEW rec, Set(r, rec),
         rec.buf = None \/ rec.buf = job[r].buf \/ ~InHand(rec.buf)
  PROVE  HeldApart'
<1>1. job' = [job EXCEPT ![r] = rec] /\ job \in [Reader -> Job]
  BY DEF Set, TypeInv, MediaTypeOK
<1>2. job'[r] = rec /\ \A q \in Reader : q # r => job'[q] = job[q]
  BY <1>1
<1> QED BY <1>2 DEF HeldApart, InHand

\* The next read takes another buffer.
LEMMA PostMoves ==
  ASSUME TypeInv, BufInv, NEW s \in Socket, NEW b \in posted[s], PostNext(s, b)
  PROVE  /\ PostedApart'
         /\ b \in Buf /\ Alloc \in free /\ Alloc \in Buf /\ b # Alloc
         /\ \A c \in Buf : IsPosted(c)' <=> c = Alloc \/ (IsPosted(c) /\ c # b)
<1>1. /\ posted' = [posted EXCEPT ![s] = (@ \ {b}) \cup {Alloc}] /\ Alloc \in free
      /\ posted \in [Socket -> SUBSET Buf] /\ b \in Buf /\ Alloc \in Buf
  BY AllocType DEF PostNext, TypeInv, MediaTypeOK
<1>2. ~IsPosted(Alloc) /\ IsPosted(b)
  BY <1>1 DEF BufInv, BufOK, IsPosted
<1>3. /\ posted'[s] = (posted[s] \ {b}) \cup {Alloc}
      /\ \A t \in Socket : t # s => posted'[t] = posted[t]
  BY <1>1
<1> HIDE DEF BufInv
<1>4. ASSUME NEW c \in Buf PROVE IsPosted(c)' <=> c = Alloc \/ (IsPosted(c) /\ c # b)
  <2>1. PostedApart
    BY DEF BufInv
  <2>2. CASE c = Alloc
    BY <1>3, <2>2 DEF IsPosted
  <2>3. CASE c = b
    BY <1>1, <1>2, <1>3, <2>1, <2>3 DEF IsPosted, PostedApart
  <2>4. CASE c # Alloc /\ c # b
    BY <1>3, <2>4 DEF IsPosted
  <2> QED BY <1>2, <2>2, <2>3, <2>4
<1>5. PostedApart'
  BY <1>1, <1>2, <1>3 DEF BufInv, PostedApart, IsPosted
<1> QED BY <1>1, <1>2, <1>4, <1>5

\* A step that moves no buffer.
LEMMA QuietBufs ==
  ASSUME TypeInv, BufInv, UNCHANGED bufVars, UNCHANGED lost, NEW r \in Reader, NEW rec,
         Set(r, rec), rec.buf = job[r].buf, rec.pc = "second" <=> job[r].pc = "second"
  PROVE  BufInv'
<1>1. HeldApart /\ PostedApart /\ RelayedOnce
  BY DEF BufInv
<1>2. HeldApart'
  BY <1>1, HandsApart
<1>3. PostedApart' /\ RelayedOnce'
  BY <1>1 DEF bufVars, PostedApart, RelayedOnce
<1>4. ASSUME NEW b \in Buf PROVE BufOK(b)'
  <2>1. BufOK(b)
    BY DEF BufInv
  <2>2. /\ IsPosted(b)' <=> IsPosted(b)
        /\ InWrite(b, 0)' <=> InWrite(b, 0)
        /\ InWrite(b, 1)' <=> InWrite(b, 1)
        /\ InWrite(b, 2)' <=> InWrite(b, 2)
    BY DEF bufVars, IsPosted, InWrite
  <2>3. InHand(b)' <=> InHand(b)
    BY <1>1, HandMoves DEF InHand
  <2>4. Pending(b)' <=> Pending(b)
    BY <1>1, HandMoves, BufAssumption DEF Pending, HeldApart
  <2> QED BY <2>1, <2>2, <2>3, <2>4 DEF BufOK, Writing, One, bufVars
<1> QED BY <1>2, <1>3, <1>4 DEF BufInv

\* A step of no reader that moves no buffer.
LEMMA StillBufs ==
  ASSUME BufInv, UNCHANGED <<bufVars, job, lost>>
  PROVE  BufInv'
<1>1. HeldApart' /\ PostedApart' /\ RelayedOnce'
  BY DEF BufInv, HeldApart, PostedApart, RelayedOnce, bufVars
<1>2. ASSUME NEW b \in Buf PROVE BufOK(b)'
  <2>1. BufOK(b)
    BY DEF BufInv
  <2>2. /\ IsPosted(b)' <=> IsPosted(b)
        /\ InHand(b)' <=> InHand(b)
        /\ Pending(b)' <=> Pending(b)
        /\ InWrite(b, 0)' <=> InWrite(b, 0)
        /\ InWrite(b, 1)' <=> InWrite(b, 1)
        /\ InWrite(b, 2)' <=> InWrite(b, 2)
    BY DEF bufVars, IsPosted, InWrite, InHand, Pending
  <2> QED BY <2>1, <2>2 DEF BufOK, Writing, One, bufVars
<1> QED BY <1>1, <1>2 DEF BufInv

\* A packet dropped: its buffer goes from the reader's hands to the free ones.
LEMMA DropBufs ==
  ASSUME TypeInv, BufInv, NEW r \in Reader, Drop(r), UNCHANGED lost,
         job[r].buf \in Buf, job[r].pc # "second"
  PROVE  BufInv'
<1> DEFINE x == job[r].buf
<1>1. /\ HeldApart /\ PostedApart /\ RelayedOnce
      /\ free' = free \cup {x} /\ Set(r, Idle) /\ UNCHANGED <<posted, writes, m_num_cb>>
      /\ Idle.pc = "idle" /\ Idle.buf = None
  BY IdleOK DEF BufInv, Drop
<1>2. HeldApart'
  BY <1>1, HandsApart
<1>3. PostedApart' /\ RelayedOnce'
  BY <1>1 DEF PostedApart, RelayedOnce
<1>4. ASSUME NEW b \in Buf PROVE BufOK(b)'
  <2>1. BufOK(b)
    BY DEF BufInv
  <2>2. /\ IsPosted(b)' <=> IsPosted(b)
        /\ InWrite(b, 0)' <=> InWrite(b, 0)
        /\ InWrite(b, 1)' <=> InWrite(b, 1)
        /\ InWrite(b, 2)' <=> InWrite(b, 2)
    BY <1>1 DEF IsPosted, InWrite
  <2>3. /\ InHand(b)' <=> InHand(b) /\ x # b
        /\ Pending(b)' <=> Pending(b) /\ x # b
    BY <1>1, HandMoves, BufAssumption
  <2>4. x = b => InHand(b) /\ ~Pending(b)
    BY <1>1, BufAssumption DEF InHand, Pending, HeldApart
  <2> QED BY <1>1, <2>1, <2>2, <2>3, <2>4 DEF BufOK, Writing, One
<1> QED BY <1>2, <1>3, <1>4 DEF BufInv

\* A read that failed: the buffer that was posted is free.
LEMMA ReadFailsBufs ==
  ASSUME TypeInv, BufInv, NEW s \in Socket, ReadFails(s)
  PROVE  BufInv'
<1>1. PICK x \in posted[s] : posted' = [posted EXCEPT ![s] = @ \ {x}] /\ free' = free \cup {x}
  BY DEF ReadFails
<1>2. /\ UNCHANGED <<writes, m_num_cb, job, lost>>
      /\ HeldApart /\ PostedApart /\ RelayedOnce
      /\ posted \in [Socket -> SUBSET Buf]
  BY DEF ReadFails, BufInv, TypeInv, MediaTypeOK
<1>3. /\ posted'[s] = posted[s] \ {x}
      /\ \A t \in Socket : t # s => posted'[t] = posted[t]
  BY <1>1, <1>2
<1>4. PostedApart' /\ HeldApart' /\ RelayedOnce'
  BY <1>2, <1>3 DEF PostedApart, HeldApart, RelayedOnce
<1>5. ASSUME NEW b \in Buf PROVE BufOK(b)'
  <2>1. BufOK(b)
    BY DEF BufInv
  <2>2. /\ InHand(b)' <=> InHand(b)
        /\ Pending(b)' <=> Pending(b)
        /\ InWrite(b, 0)' <=> InWrite(b, 0)
        /\ InWrite(b, 1)' <=> InWrite(b, 1)
        /\ InWrite(b, 2)' <=> InWrite(b, 2)
    BY <1>2 DEF InHand, Pending, InWrite
  <2>3. IsPosted(b)' <=> IsPosted(b) /\ b # x
    BY <1>2, <1>3 DEF IsPosted, PostedApart
  <2>4. b = x => IsPosted(b)
    BY DEF IsPosted
  <2> QED BY <1>1, <1>2, <2>1, <2>2, <2>3, <2>4 DEF BufOK, Writing, One
<1> QED BY <1>4, <1>5 DEF BufInv

\* A packet read: its buffer goes from the socket to the reader, and a free one
\* to the socket.
LEMMA ReadPacketBufs ==
  ASSUME TypeInv, BufInv, NEW r \in Reader, NEW s \in Socket, NEW pkt \in Packet,
         ReadPacket(r, s, pkt)
  PROVE  BufInv'
<1>1. PICK x \in posted[s] :
        /\ PostNext(s, x)
        /\ Set(r, [Idle EXCEPT !.pc = "find", !.buf = x, !.from = s[1], !.pkt = pkt])
  BY DEF ReadPacket
<1> DEFINE rec == [Idle EXCEPT !.pc = "find", !.buf = x, !.from = s[1], !.pkt = pkt]
<1>2. /\ UNCHANGED <<writes, m_num_cb, lost>> /\ HeldApart /\ RelayedOnce
      /\ free' = free \ {Alloc}
  BY <1>1 DEF ReadPacket, BufInv, PostNext
<1>3. /\ PostedApart'
      /\ x \in Buf /\ Alloc \in free /\ Alloc \in Buf /\ x # Alloc
      /\ \A c \in Buf : IsPosted(c)' <=> c = Alloc \/ (IsPosted(c) /\ c # x)
  BY <1>1, PostMoves
<1>4. Set(r, rec) /\ rec.pc = "find" /\ rec.buf = x
  BY <1>1 DEF Idle
<1> HIDE DEF rec
<1>5. job[r].buf = None
  BY DEF ReadPacket, TypeInv, Locals, JobOK, Holding, Found
<1>6. IsPosted(x) /\ ~InHand(x)
  BY <1>3 DEF IsPosted, BufInv, BufOK
<1>7. HeldApart' /\ RelayedOnce'
  BY <1>2, <1>4, <1>6, HandsApart DEF RelayedOnce
<1>8. ASSUME NEW b \in Buf PROVE BufOK(b)'
  <2>1. BufOK(b) /\ BufOK(Alloc)
    BY <1>3 DEF BufInv
  <2>2. /\ InWrite(b, 0)' <=> InWrite(b, 0)
        /\ InWrite(b, 1)' <=> InWrite(b, 1)
        /\ InWrite(b, 2)' <=> InWrite(b, 2)
    BY <1>2 DEF InWrite
  <2>3. /\ InHand(b)' <=> InHand(b) \/ b = x
        /\ Pending(b)' <=> Pending(b)
    BY <1>2, <1>4, <1>5, HandMoves, BufAssumption
  <2>4. IsPosted(b)' <=> b = Alloc \/ (IsPosted(b) /\ b # x)
    BY <1>3
  <2> QED BY <1>2, <1>3, <1>6, <2>1, <2>2, <2>3, <2>4 DEF BufOK, Writing, One
<1> QED BY <1>3, <1>7, <1>8 DEF BufInv

\* An RTCP packet's buffer is lost.
LEMMA ReadRtcpBufs ==
  ASSUME TypeInv, BufInv, NEW s \in Socket, ReadRtcp(s)
  PROVE  BufInv'
<1>1. PICK x \in posted[s] : PostNext(s, x) /\ lost' = lost \cup {x}
  BY DEF ReadRtcp
<1>2. /\ UNCHANGED <<writes, m_num_cb, job>> /\ HeldApart /\ RelayedOnce
      /\ free' = free \ {Alloc}
  BY <1>1 DEF ReadRtcp, BufInv, PostNext
<1>3. /\ PostedApart'
      /\ x \in Buf /\ Alloc \in free /\ Alloc \in Buf /\ x # Alloc
      /\ \A c \in Buf : IsPosted(c)' <=> c = Alloc \/ (IsPosted(c) /\ c # x)
  BY <1>1, PostMoves
<1>4. HeldApart' /\ RelayedOnce' /\ IsPosted(x)
  BY <1>2 DEF HeldApart, RelayedOnce, IsPosted
<1>5. ASSUME NEW b \in Buf PROVE BufOK(b)'
  <2>1. BufOK(b)
    BY DEF BufInv
  <2>2. /\ InHand(b)' <=> InHand(b)
        /\ Pending(b)' <=> Pending(b)
        /\ InWrite(b, 0)' <=> InWrite(b, 0)
        /\ InWrite(b, 1)' <=> InWrite(b, 1)
        /\ InWrite(b, 2)' <=> InWrite(b, 2)
    BY <1>2 DEF InHand, Pending, InWrite
  <2>3. IsPosted(b)' <=> b = Alloc \/ (IsPosted(b) /\ b # x)
    BY <1>3
  <2> QED BY <1>1, <1>2, <1>3, <1>4, <2>1, <2>2, <2>3 DEF BufOK, Writing, One
<1> QED BY <1>3, <1>4, <1>5 DEF BufInv

\* What is written after one more write.
LEMMA WriteMoves ==
  ASSUME NEW r \in Reader, NEW n \in 0 .. 2, writes' = writes \cup {NewWrite(r, n)},
         NEW b, NEW m \in 0 .. 2
  PROVE  InWrite(b, m)' <=> InWrite(b, m) \/ (job[r].buf = b /\ m = n)
BY DEF InWrite, NewWrite

\* The first copy of a packet: its reader keeps the buffer for the second.
LEMMA SendFirstBufs ==
  ASSUME TypeInv, BufInv, NEW r \in Reader, SendFirst(r)
  PROVE  BufInv'
<1> DEFINE x == job[r].buf
           rec == [job[r] EXCEPT !.pc = "second", !.sent = 1]
<1>1. /\ m_num_cb' = [m_num_cb EXCEPT ![x] = 2] /\ writes' = writes \cup {NewWrite(r, 1)}
      /\ UNCHANGED <<posted, free, lost>> /\ HeldApart /\ PostedApart /\ RelayedOnce
      /\ m_num_cb \in [Buf -> 0 .. 2] /\ job[r].pc = "first" /\ job[r] \in Job
  BY DEF SendFirst, RelayUnchanged, BufInv, TypeInv, MediaTypeOK
<1>2. Set(r, rec) /\ rec.pc = "second" /\ rec.buf = x
  BY <1>1 DEF SendFirst, Set, Job
<1>3. x \in Buf
  BY <1>1 DEF TypeInv, Locals, JobOK, Holding, Found
<1> HIDE DEF rec
<1>4. HeldApart' /\ PostedApart'
  BY <1>1, <1>2, HandsApart DEF PostedApart
<1>5. RelayedOnce'
  BY <1>1, <1>3, BufAssumption DEF RelayedOnce, NewWrite
<1>6. ASSUME NEW b \in Buf PROVE BufOK(b)'
  <2>1. BufOK(b)
    BY DEF BufInv
  <2>2. /\ IsPosted(b)' <=> IsPosted(b)
        /\ InWrite(b, 0)' <=> InWrite(b, 0)
        /\ InWrite(b, 1)' <=> InWrite(b, 1) \/ x = b
        /\ InWrite(b, 2)' <=> InWrite(b, 2)
    BY <1>1, WriteMoves DEF IsPosted
  <2>3. /\ InHand(b)' <=> InHand(b)
        /\ Pending(b)' <=> Pending(b) \/ x = b
    BY <1>1, <1>2, HandMoves, BufAssumption DEF InHand, Pending, HeldApart
  <2>4. x = b => InHand(b) /\ ~Pending(b)
    BY <1>1, BufAssumption DEF InHand, Pending, HeldApart
  <2>5. m_num_cb'[b] = IF x = b THEN 2 ELSE m_num_cb[b]
    BY <1>1
  <2> QED BY <1>1, <2>1, <2>2, <2>3, <2>4, <2>5 DEF BufOK, Writing, One
<1> QED BY <1>4, <1>5, <1>6 DEF BufInv

\* The second copy: the buffer is left to the completions of the two.
LEMMA SendSecondBufs ==
  ASSUME TypeInv, BufInv, NEW r \in Reader, SendSecond(r)
  PROVE  BufInv'
<1> DEFINE x == job[r].buf
<1>1. /\ writes' = writes \cup {NewWrite(r, 2)} /\ Set(r, Idle)
      /\ UNCHANGED <<posted, free, m_num_cb, lost>>
      /\ HeldApart /\ PostedApart /\ RelayedOnce
      /\ job[r].pc = "second" /\ Idle.pc = "idle" /\ Idle.buf = None
  BY IdleOK DEF SendSecond, RelayUnchanged, BufInv
<1>2. x \in Buf
  BY <1>1 DEF TypeInv, Locals, JobOK, Holding, Found
<1>3. HeldApart' /\ PostedApart'
  BY <1>1, HandsApart DEF PostedApart
<1>4. RelayedOnce'
  BY <1>1, <1>2, BufAssumption DEF RelayedOnce, NewWrite
<1>5. ASSUME NEW b \in Buf PROVE BufOK(b)'
  <2>1. BufOK(b)
    BY DEF BufInv
  <2>2. /\ IsPosted(b)' <=> IsPosted(b)
        /\ InWrite(b, 0)' <=> InWrite(b, 0)
        /\ InWrite(b, 1)' <=> InWrite(b, 1)
        /\ InWrite(b, 2)' <=> InWrite(b, 2) \/ x = b
    BY <1>1, WriteMoves DEF IsPosted
  <2>3. /\ InHand(b)' <=> InHand(b) /\ x # b
        /\ Pending(b)' <=> Pending(b) /\ x # b
    BY <1>1, HandMoves, BufAssumption
  <2>4. x = b => InHand(b) /\ Pending(b)
    BY <1>1 DEF InHand, Pending
  <2> QED BY <1>1, <2>1, <2>2, <2>3, <2>4 DEF BufOK, Writing, One
<1> QED BY <1>3, <1>4, <1>5 DEF BufInv

\* The only copy for a user: the buffer is left to its completion.
LEMMA SendToUserBufs ==
  ASSUME TypeInv, BufInv, NEW r \in Reader, SendToUser(r)
  PROVE  BufInv'
<1> DEFINE x == job[r].buf
<1>1. job[r].pc = "filter" /\ UNCHANGED lost
  BY DEF SendToUser
<1>2. x \in Buf
  BY <1>1 DEF TypeInv, Locals, JobOK, Holding, Found
<1>3. CASE Drop(r)
  BY <1>1, <1>2, <1>3, DropBufs
<1>4. CASE /\ writes' = writes \cup {NewWrite(r, 0)} /\ Set(r, Idle)
           /\ UNCHANGED <<posted, free, m_num_cb>>
  <2>1. /\ HeldApart /\ PostedApart /\ RelayedOnce /\ Idle.pc = "idle" /\ Idle.buf = None
    BY IdleOK DEF BufInv
  <2>2. HeldApart' /\ PostedApart'
    BY <1>4, <2>1, HandsApart DEF PostedApart
  <2>3. RelayedOnce'
    BY <1>4, <2>1 DEF RelayedOnce, NewWrite
  <2>4. ASSUME NEW b \in Buf PROVE BufOK(b)'
    <3>1. BufOK(b)
      BY DEF BufInv
    <3>2. /\ IsPosted(b)' <=> IsPosted(b)
          /\ InWrite(b, 0)' <=> InWrite(b, 0) \/ x = b
          /\ InWrite(b, 1)' <=> InWrite(b, 1)
          /\ InWrite(b, 2)' <=> InWrite(b, 2)
      BY <1>4, WriteMoves DEF IsPosted
    <3>3. /\ InHand(b)' <=> InHand(b) /\ x # b
          /\ Pending(b)' <=> Pending(b) /\ x # b
      BY <1>4, <2>1, HandMoves, BufAssumption
    <3>4. x = b => InHand(b) /\ ~Pending(b)
      BY <1>1, <2>1, BufAssumption DEF InHand, Pending, HeldApart
    <3> QED BY <1>1, <1>4, <3>1, <3>2, <3>3, <3>4 DEF BufOK, Writing, One
  <2> QED BY <2>2, <2>3, <2>4 DEF BufInv
<1> QED BY <1>3, <1>4 DEF SendToUser

\* The completion of a write: the last one of a buffer frees it.
LEMMA WriteDoneBufs ==
  ASSUME IInv, NEW w, WriteDone(w)
  PROVE  BufInv'
<1>1. /\ w \in writes /\ writes' = writes \ {w}
      /\ m_num_cb' = IF w.copy = 0 THEN m_num_cb ELSE [m_num_cb EXCEPT ![w.buf] = @ - 1]
      /\ free' = IF w.copy # 0 /\ m_num_cb[w.buf] > 1
                   THEN free ELSE free \cup ({w.buf} \ {None})
      /\ UNCHANGED <<posted, job, lost>>
      /\ HeldApart /\ PostedApart /\ RelayedOnce
      /\ m_num_cb \in [Buf -> 0 .. 2] /\ w \in Write
  BY DEF IInv, WriteDone, RelayUnchanged, BufInv, TypeInv, MediaTypeOK
<1>2. w = [buf |-> w.buf, copy |-> w.copy] /\ w.copy \in 0 .. 2
  BY <1>1 DEF Write
<1>3. HeldApart' /\ PostedApart' /\ RelayedOnce'
  BY <1>1 DEF HeldApart, PostedApart, RelayedOnce
<1>4. ASSUME NEW b \in Buf PROVE BufOK(b)'
  <2>1. BufOK(b) /\ b # None
    BY BufAssumption DEF IInv, BufInv
  <2>2. ASSUME NEW m \in 0 .. 2
        PROVE  InWrite(b, m)' <=> InWrite(b, m) /\ ~(w.buf = b /\ w.copy = m)
    BY <1>1, <1>2 DEF InWrite
  <2>3. /\ InWrite(b, 0)' <=> InWrite(b, 0) /\ ~(w.buf = b /\ w.copy = 0)
        /\ InWrite(b, 1)' <=> InWrite(b, 1) /\ ~(w.buf = b /\ w.copy = 1)
        /\ InWrite(b, 2)' <=> InWrite(b, 2) /\ ~(w.buf = b /\ w.copy = 2)
    BY <2>2
  <2>4. /\ IsPosted(b)' <=> IsPosted(b)
        /\ InHand(b)' <=> InHand(b)
        /\ Pending(b)' <=> Pending(b)
    BY <1>1 DEF IsPosted, InHand, Pending
  <2>5. Pending(b) => InHand(b)
    BY DEF Pending, InHand
  <2>6. CASE w.buf # b
    <3>1. m_num_cb'[b] = m_num_cb[b] /\ (b \in free' <=> b \in free)
      BY <1>1, <2>6
    <3> QED BY <1>1, <2>1, <2>3, <2>4, <2>6, <3>1 DEF BufOK, Writing, One
  <2>7. CASE w.buf = b /\ w.copy = 0
    <3>1. m_num_cb'[b] = m_num_cb[b] /\ b \in free' /\ InWrite(b, 0)
      BY <1>1, <1>2, <2>1, <2>7 DEF InWrite
    <3> QED BY <1>1, <2>1, <2>3, <2>4, <2>7, <3>1 DEF BufOK, Writing, One
  <2>8. CASE w.buf = b /\ w.copy # 0
    <3>1. /\ m_num_cb'[b] = m_num_cb[b] - 1 /\ m_num_cb[b] \in 0 .. 2
          /\ b \in free' <=> b \in free \/ ~(m_num_cb[b] > 1)
      BY <1>1, <2>1, <2>8
    <3>2. (w.copy = 1 /\ InWrite(b, 1)) \/ (w.copy = 2 /\ InWrite(b, 2))
      BY <1>1, <1>2, <2>8 DEF InWrite
    <3>3. b \notin free /\ b \notin lost /\ ~IsPosted(b) /\ ~InWrite(b, 0)
      BY <2>1, <3>2 DEF BufOK, Writing
    <3>4. m_num_cb[b] = 1 => ~Pending(b) /\ ~(InWrite(b, 1) /\ InWrite(b, 2))
      BY <2>1, <3>2 DEF BufOK, One
    <3>5. m_num_cb[b] # 1 => Pending(b) \/ (InWrite(b, 1) /\ InWrite(b, 2))
      BY <2>1, <3>2 DEF BufOK, One
    <3>6. m_num_cb[b] = 1 => ~InHand(b)
      BY <2>1, <3>2, <3>4 DEF BufOK
    <3>7. m_num_cb'[b] = One(InWrite(b, 1)') + One(InWrite(b, 2)') + One(Pending(b)')
      BY <2>1, <2>3, <2>4, <2>8, <3>1, <3>2 DEF BufOK, One
    <3> QED
      BY <1>1, <2>1, <2>3, <2>4, <2>5, <2>8, <3>1, <3>2, <3>3, <3>4, <3>5, <3>6, <3>7
         DEF BufOK, Writing, One
  <2> QED BY <2>6, <2>7, <2>8
<1> QED BY <1>3, <1>4 DEF BufInv

\* A packet of the relay client: its copy is lost, its own buffer is written.
LEMMA DeliverRelayedBufs ==
  ASSUME TypeInv, BufInv, NEW r \in Reader, DeliverRelayed(r)
  PROVE  BufInv'
<1>1. /\ Set(r, Idle) /\ UNCHANGED <<posted, m_num_cb>>
      /\ HeldApart /\ PostedApart /\ RelayedOnce
      /\ Idle.pc = "idle" /\ Idle.buf = None
      /\ job[r].pc = "deliver" /\ JobOK(job[r])
  BY IdleOK DEF DeliverRelayed, BufInv, TypeInv, Locals
<1>2. job[r].buf = None
  BY <1>1 DEF JobOK, Holding, Found
<1>3. CASE UNCHANGED <<free, writes, lost>>
  BY <1>1, <1>2, <1>3, QuietBufs DEF bufVars
<1>4. CASE /\ free # {} /\ free' = free \ {Alloc} /\ lost' = lost \cup {Alloc}
           /\ writes' = writes \cup {NewWrite(r, 0)}
  <2>1. HeldApart' /\ PostedApart'
    BY <1>1, HandsApart DEF PostedApart
  <2>2. RelayedOnce'
    BY <1>1, <1>4 DEF RelayedOnce, NewWrite
  <2>3. ASSUME NEW b \in Buf PROVE BufOK(b)'
    <3>1. BufOK(b) /\ b # None
      BY BufAssumption DEF BufInv
    <3>2. /\ IsPosted(b)' <=> IsPosted(b)
          /\ InWrite(b, 0)' <=> InWrite(b, 0)
          /\ InWrite(b, 1)' <=> InWrite(b, 1)
          /\ InWrite(b, 2)' <=> InWrite(b, 2)
      BY <1>1, <1>2, <1>4, <3>1, WriteMoves DEF IsPosted
    <3>3. /\ InHand(b)' <=> InHand(b)
          /\ Pending(b)' <=> Pending(b)
      BY <1>1, <1>2, <3>1, HandMoves
    <3>4. b = Alloc => b \in free
      BY <1>4, AllocType
    <3> QED BY <1>1, <1>4, <3>1, <3>2, <3>3, <3>4 DEF BufOK, Writing, One
  <2> QED BY <2>1, <2>2, <2>3 DEF BufInv
<1> QED BY <1>3, <1>4 DEF DeliverRelayed

\* A reader that goes on with the buffer it has.
LEMMA GoesOn ==
  ASSUME TypeInv, BufInv, UNCHANGED bufVars, UNCHANGED lost, NEW r \in Reader,
         NEW j \in Job, job[r] = j, NEW rec, Set(r, rec), rec.buf = j.buf,
         rec.pc # "second", j.pc # "second"
  PROVE  BufInv'
BY QuietBufs

\* A reader that has a buffer where packets are dropped.
LEMMA DropsIt ==
  ASSUME TypeInv, BufInv, NEW r \in Reader, Drop(r), UNCHANGED lost,
         job[r].pc \in Holding \ {"second"}
  PROVE  BufInv'
<1>1. job[r].buf \in Buf
  BY DEF TypeInv, Locals, JobOK
<1> QED BY <1>1, DropBufs

\* The readers' steps that send nothing.
LEMMA QuietSteps ==
  ASSUME TypeInv, BufInv, NEW r \in Reader,
         \/ Find(r) \/ Learn(r) \/ CheckStatus(r) \/ CheckCid(r) \/ TakeCid(r)
         \/ AfterPaths(r) \/ SendAgain(r) \/ FreeSent(r) \/ FindPeer(r) \/ FindPort(r)
  PROVE  BufInv'
<1> DEFINE j == job[r]
<1>1. j \in Job
  BY DEF TypeInv, MediaTypeOK
<1>2. CASE Find(r)
  <2>1. UNCHANGED lost /\ j.pc = "find"
    BY <1>2 DEF Find
  <2>2. CASE Drop(r)
    BY <2>1, <2>2, DropsIt DEF Holding
  <2>3. CASE Set(r, [j EXCEPT !.pc = "learn", !.info = InfoAt(j.from)]) /\ UNCHANGED bufVars
    <3> DEFINE rec == [j EXCEPT !.pc = "learn", !.info = InfoAt(j.from)]
    <3>1. rec.buf = j.buf /\ rec.pc = "learn"
      BY <1>1 DEF Job
    <3> HIDE DEF rec
    <3> QED BY <1>1, <2>1, <2>3, <3>1, GoesOn DEF rec
  <2> QED BY <1>2, <2>2, <2>3 DEF Find
<1>3. CASE Learn(r)
  <2> DEFINE label == IF CallType[j.info[1]] = "CT_TRANSFORM" THEN "status" ELSE "peer"
             rec == [j EXCEPT !.pc = label]
  <2>1. UNCHANGED lost /\ j.pc = "learn"
    BY <1>3 DEF Learn
  <2>2. CASE Drop(r)
    BY <2>1, <2>2, DropsIt DEF Holding, Found
  <2>3. CASE Accept(r)
    <3>1. label # "second"
      OBVIOUS
    <3>2. Set(r, rec) /\ UNCHANGED bufVars
      BY <2>3 DEF Accept, Advance, Set
    <3> HIDE DEF label
    <3>3. rec.buf = j.buf /\ rec.pc # "second"
      BY <1>1, <3>1 DEF Job
    <3> HIDE DEF rec
    <3> QED BY <1>1, <2>1, <3>2, <3>3, GoesOn
  <2> QED BY <1>3, <2>2, <2>3 DEF Learn
<1>4. CASE CheckStatus(r)
  <2> DEFINE rec == [j EXCEPT !.pc = "check"]
  <2>1. UNCHANGED lost /\ j.pc = "status"
    BY <1>4 DEF CheckStatus, RelayUnchanged
  <2>2. CASE Drop(r)
    BY <2>1, <2>2, DropsIt DEF Holding, Found
  <2>3. CASE Set(r, rec) /\ UNCHANGED bufVars
    <3>1. rec.buf = j.buf /\ rec.pc = "check"
      BY <1>1 DEF Job
    <3> HIDE DEF rec
    <3> QED BY <1>1, <2>1, <2>3, <3>1, GoesOn
  <2> QED BY <1>4, <2>2, <2>3 DEF CheckStatus, Advance, Set
<1>5. CASE CheckCid(r)
  <2> DEFINE rec == IF j.i = 4 THEN [j EXCEPT !.pc = "after"]
                    ELSE IF CidAt(j.info, j.i) = 0 THEN [j EXCEPT !.i = @ + 1]
                    ELSE [j EXCEPT !.pc = "take"]
  <2>1. UNCHANGED lost /\ j.pc = "check" /\ UNCHANGED bufVars /\ Set(r, rec)
    BY <1>5 DEF CheckCid, RelayUnchanged
  <2>2. rec.buf = j.buf /\ rec.pc \in {"check", "after", "take"}
    BY <1>1, <2>1 DEF Job
  <2> HIDE DEF rec
  <2> QED BY <1>1, <2>1, <2>2, GoesOn
<1>6. CASE TakeCid(r)
  <2> DEFINE rec == [j EXCEPT !.pc = "check", !.i = @ + 1, !.send_num = @ + 1,
                              !.cid = CidAt(j.info, j.i),
                              !.sent = IF j.send_num < 2 THEN @ + 1 ELSE @]
  <2>1. UNCHANGED lost /\ j.pc = "take" /\ UNCHANGED bufVars /\ Set(r, rec)
    BY <1>6 DEF TakeCid, RelayUnchanged
  <2>2. rec.buf = j.buf /\ rec.pc = "check"
    BY <1>1 DEF Job
  <2> HIDE DEF rec
  <2> QED BY <1>1, <2>1, <2>2, GoesOn
<1>7. CASE AfterPaths(r)
  <2> DEFINE label == IF j.send_num < 2 THEN "again" ELSE "free"
             rec == [j EXCEPT !.pc = label]
  <2>1. UNCHANGED lost /\ j.pc = "after"
    BY <1>7 DEF AfterPaths, RelayUnchanged
  <2>2. CASE Drop(r)
    BY <2>1, <2>2, DropsIt DEF Holding, Found
  <2>3. CASE Set(r, rec) /\ UNCHANGED bufVars
    <3>1. label # "second"
      OBVIOUS
    <3> HIDE DEF label
    <3>2. rec.buf = j.buf /\ rec.pc # "second"
      BY <1>1, <3>1 DEF Job
    <3> HIDE DEF rec
    <3> QED BY <1>1, <2>1, <2>3, <3>2, GoesOn
  <2> QED BY <1>7, <2>2, <2>3 DEF AfterPaths, Advance, Set
<1>8. CASE SendAgain(r)
  <2> DEFINE rec == [j EXCEPT !.pc = "free", !.sent = @ + 1]
  <2>1. UNCHANGED lost /\ j.pc = "again" /\ UNCHANGED bufVars /\ Set(r, rec)
    BY <1>8 DEF SendAgain, RelayUnchanged
  <2>2. rec.buf = j.buf /\ rec.pc = "free"
    BY <1>1 DEF Job
  <2> HIDE DEF rec
  <2> QED BY <1>1, <2>1, <2>2, GoesOn
<1>9. CASE FreeSent(r)
  BY <1>9, DropsIt DEF FreeSent, RelayUnchanged, Holding, Found
<1>10. CASE FindPeer(r)
  <2> DEFINE n == InfoAt(DirectPort(j.info))
             label == IF n[2] = "sent" THEN "first" ELSE "filter"
             rec == [j EXCEPT !.pc = label, !.peer = n]
  <2>1. UNCHANGED lost /\ j.pc = "peer"
    BY <1>10 DEF FindPeer, RelayUnchanged
  <2>2. CASE Drop(r)
    BY <2>1, <2>2, DropsIt DEF Holding, Found
  <2>3. CASE Set(r, rec) /\ UNCHANGED bufVars
    <3>1. label # "second"
      OBVIOUS
    <3> HIDE DEF n, label
    <3>2. rec.buf = j.buf /\ rec.pc # "second"
      BY <1>1, <3>1 DEF Job
    <3> HIDE DEF rec
    <3> QED BY <1>1, <2>1, <2>3, <3>2, GoesOn
  <2> QED BY <1>10, <2>2, <2>3 DEF FindPeer
<1>11. CASE FindPort(r)
  <2> DEFINE p == m_session_to_port_map[j.from]
             rec == IF p = None THEN Idle
                    ELSE [j EXCEPT !.pc = "deliver", !.port = <<p, "recv">>]
  <2>1. UNCHANGED lost /\ j.pc = "port" /\ UNCHANGED bufVars /\ Set(r, rec)
    BY <1>11 DEF FindPort, RelayUnchanged
  <2>2. j.buf = None
    BY <2>1 DEF TypeInv, Locals, JobOK, Holding, Found
  <2>3. rec.buf = None /\ rec.pc \in {"idle", "deliver"}
    BY <1>1, <2>2, IdleOK DEF Job
  <2> HIDE DEF rec
  <2> QED BY <1>1, <2>1, <2>2, <2>3, GoesOn
<1> QED BY <1>2, <1>3, <1>4, <1>5, <1>6, <1>7, <1>8, <1>9, <1>10, <1>11

\* A packet of the relay client is not in a buffer of the server's.
LEMMA RelayPacketBufs ==
  ASSUME TypeInv, BufInv, NEW r \in Reader, NEW s \in Session, NEW seq \in SeqNum,
         RelayPacket(r, s, seq)
  PROVE  BufInv'
<1> DEFINE rec == [Idle EXCEPT !.pc = "port", !.from = s, !.pkt.seq = seq]
<1>1. UNCHANGED bufVars /\ UNCHANGED lost /\ job[r].pc = "idle" /\ job[r] \in Job
  BY DEF RelayPacket, TypeInv, MediaTypeOK
<1>2. CASE UNCHANGED job
  BY <1>1, <1>2, StillBufs
<1>3. CASE Set(r, rec)
  <2>1. job[r].buf = None
    BY <1>1 DEF TypeInv, Locals, JobOK, Holding, Found
  <2>2. rec.buf = None /\ rec.pc = "port"
    BY DEF Idle
  <2> HIDE DEF rec
  <2> QED BY <1>1, <1>3, <2>1, <2>2, GoesOn
<1> QED BY <1>2, <1>3 DEF RelayPacket

\* At the start every buffer is posted once or free.
LEMMA InitBufs == ASSUME MediaInit PROVE BufInv
<1>1. /\ posted \in [Socket -> {{b} : b \in Buf}]
      /\ \A s, t \in Socket : posted[s] = posted[t] => s = t
  BY FirstReads
<1>2. /\ free = Buf \ UNION {posted[s] : s \in Socket} /\ writes = {}
      /\ m_num_cb = [b \in Buf |-> 0] /\ job = [r \in Reader |-> Idle] /\ lost = {}
  BY DEF MediaInit
<1>3. PostedApart
  BY <1>1 DEF PostedApart
<1>4. Idle.buf = None /\ Idle.pc = "idle"
  BY IdleOK
<1>5. HeldApart /\ RelayedOnce
  BY <1>2, <1>4 DEF HeldApart, RelayedOnce
<1>6. ASSUME NEW b \in Buf PROVE BufOK(b)
  <2>1. ~InHand(b) /\ ~Pending(b)
    BY <1>2, <1>4, BufAssumption DEF InHand, Pending
  <2>2. ~InWrite(b, 0) /\ ~InWrite(b, 1) /\ ~InWrite(b, 2)
    BY <1>2 DEF InWrite
  <2>3. b \in free <=> ~IsPosted(b)
    BY <1>2 DEF IsPosted
  <2> QED BY <1>2, <2>1, <2>2, <2>3 DEF BufOK, Writing, One
<1> QED BY <1>3, <1>5, <1>6 DEF BufInv

-----------------------------------------------------------------------------
(* The inductive invariant and what follows from it. *)

\* Every step keeps the inductive invariant.
LEMMA StepInv ==
  ASSUME IInv, [MediaNext]_mediaVars
  PROVE  IInv'
<1>1. TypeInv /\ BufInv
  BY DEF IInv
<1>2. CASE CallStep
  <2>1. UNCHANGED <<bufVars, job, lost>>
    BY <1>2 DEF CallStep, StopCall, ForgetSession, OnlyTable
  <2> QED BY <1>1, <1>2, <2>1, CallStepTypes, StillBufs DEF IInv
<1>3. ASSUME NEW r \in Reader, Arrive(r) PROVE IInv'
  <2>1. ASSUME NEW s \in Socket, NEW pkt \in Packet, ReadPacket(r, s, pkt) PROVE IInv'
    BY <1>1, <2>1, ReadPacketTypes, ReadPacketBufs DEF IInv
  <2>2. ASSUME NEW s \in Session, NEW seq \in SeqNum, RelayPacket(r, s, seq) PROVE IInv'
    BY <1>1, <2>2, RelayPacketTypes, RelayPacketBufs DEF IInv
  <2> QED BY <1>3, <2>1, <2>2 DEF Arrive
<1>4. ASSUME NEW r \in Reader, Forward(r) PROVE IInv'
  <2>1. CASE \/ Find(r) \/ Learn(r) \/ CheckStatus(r) \/ CheckCid(r) \/ TakeCid(r)
             \/ AfterPaths(r) \/ SendAgain(r) \/ FreeSent(r) \/ FindPeer(r) \/ FindPort(r)
    <3>1. TypeInv'
      BY <1>1, <2>1, FindTypes, LearnTypes, CheckStatusTypes, CheckCidTypes, TakeCidTypes,
         AfterPathsTypes, SendAgainTypes, FreeSentTypes, FindPeerTypes, FindPortTypes
    <3>2. BufInv'
      BY <1>1, <2>1, QuietSteps
    <3> QED BY <3>1, <3>2 DEF IInv
  <2>2. CASE SendFirst(r)
    BY <1>1, <2>2, SendFirstTypes, SendFirstBufs DEF IInv
  <2>3. CASE SendSecond(r)
    BY <1>1, <2>3, SendSecondTypes, SendSecondBufs DEF IInv
  <2>4. CASE SendToUser(r)
    BY <1>1, <2>4, SendToUserTypes, SendToUserBufs DEF IInv
  <2>5. CASE DeliverRelayed(r)
    BY <1>1, <2>5, DeliverRelayedTypes, DeliverRelayedBufs DEF IInv
  <2> QED BY <1>4, <2>1, <2>2, <2>3, <2>4, <2>5 DEF Forward
<1>5. ASSUME NEW s \in Socket, ReadFails(s) PROVE IInv'
  BY <1>1, <1>5, ReadFailsTypes, ReadFailsBufs DEF IInv
<1>6. ASSUME NEW s \in Socket, ReadRtcp(s) PROVE IInv'
  BY <1>1, <1>6, ReadRtcpTypes, ReadRtcpBufs DEF IInv
<1>7. ASSUME NEW w \in writes, WriteDone(w) PROVE IInv'
  BY <1>7, WriteDoneTypes, WriteDoneBufs DEF IInv
<1>8. CASE UNCHANGED mediaVars
  <2>1. TypeInv'
    BY <1>1, <1>8 DEF TypeInv, TableTypes, MediaTypeOK, Locals, JobOK, mediaVars, tableVars,
         forwardVars, bufVars, fieldVars, filterVars
  <2>2. BufInv'
    BY <1>1, <1>8, StillBufs DEF mediaVars, forwardVars
  <2> QED BY <2>1, <2>2 DEF IInv
<1> QED BY <1>2, <1>3, <1>4, <1>5, <1>6, <1>7, <1>8 DEF MediaNext

\* The invariant holds in every behaviour of the server: from any start, with
\* any number of calls, threads, buffers and packets.
THEOREM MediaInv == MediaSpec => []IInv
<1>1. MediaInit => IInv
  BY InitTypes, InitBufs DEF IInv
<1>2. IInv /\ [MediaNext]_mediaVars => IInv'
  BY StepInv
<1> QED BY <1>1, <1>2, PTL DEF MediaSpec

\* What the parts of the invariant say of every buffer, said of the sets.
LEMMA OnePlace == IInv => BufferInOnePlace
<1> SUFFICES ASSUME IInv PROVE BufferInOnePlace
  OBVIOUS
<1>1. /\ posted \in [Socket -> SUBSET Buf] /\ free \subseteq Buf /\ lost \subseteq Buf
      /\ writes \subseteq Write /\ \A r \in Reader : job[r].buf \in Buf \cup {None}
      /\ None \notin Buf
  <2>1. \A r \in Reader : job[r] \in Job
    BY DEF IInv, TypeInv, MediaTypeOK
  <2>2. \A r \in Reader : job[r].buf \in Buf \cup {None}
    BY <2>1 DEF Job
  <2> QED BY <2>2, BufAssumption DEF IInv, TypeInv, MediaTypeOK
<1>2. Posted \subseteq Buf /\ \A b \in Buf : b \in Posted <=> IsPosted(b)
  BY <1>1 DEF Posted, IsPosted
<1>3. Written \subseteq Buf /\ \A b \in Buf : b \in Written <=> Writing(b)
  <2>1. ASSUME NEW w \in writes
        PROVE  /\ w.buf \in Buf \cup {None} /\ w.copy \in {0, 1, 2}
               /\ w = [buf |-> w.buf, copy |-> w.copy]
    BY <1>1 DEF Write
  <2>2. Written \subseteq Buf
    BY <2>1 DEF Written
  <2>3. ASSUME NEW b \in Buf, b \in Written PROVE Writing(b)
    <3>1. PICK w \in writes : w.buf = b
      BY <2>3 DEF Written
    <3> QED BY <2>1, <3>1 DEF Writing, InWrite
  <2>4. ASSUME NEW b \in Buf, Writing(b) PROVE b \in Written
    <3>1. PICK w \in writes : w.buf = b
      BY <2>4 DEF Writing, InWrite
    <3> QED BY <1>1, <3>1 DEF Written
  <2> QED BY <2>2, <2>3, <2>4
<1>4. /\ \A r \in Reader : Held(r) \subseteq Buf
      /\ \A b \in Buf : InHand(b) <=> \E r \in Reader : b \in Held(r)
  BY <1>1 DEF Held, InHand
<1>5. /\ \A b \in Buf : b \in free \/ b \in lost \/ IsPosted(b) \/ InHand(b) \/ Writing(b)
      /\ \A b \in Buf : b \in free => b \notin lost
      /\ \A b \in Buf : b \in free \cup lost => ~IsPosted(b) /\ ~InHand(b) /\ ~Writing(b)
      /\ \A b \in Buf : IsPosted(b) => ~InHand(b) /\ ~Writing(b)
  BY DEF IInv, BufInv, BufOK
<1>6. \A r, q \in Reader : r # q => Held(r) \cap Held(q) = {}
  BY DEF IInv, BufInv, HeldApart, Held
<1>7. Buf = free \cup Posted \cup (UNION {Held(r) : r \in Reader}) \cup Written \cup lost
  <2>1. ASSUME NEW H, H \subseteq Buf, \A b \in Buf : InHand(b) => b \in H
        PROVE  Buf = free \cup Posted \cup H \cup Written \cup lost
    BY <1>1, <1>2, <1>3, <1>5, <2>1
  <2>2. UNION {Held(r) : r \in Reader} \subseteq Buf
    BY <1>4
  <2>3. \A b \in Buf : InHand(b) => b \in UNION {Held(r) : r \in Reader}
    BY <1>4
  <2> QED BY <2>1, <2>2, <2>3
<1>8. /\ free \cap (Posted \cup Written \cup lost) = {} /\ Posted \cap (Written \cup lost) = {}
      /\ \A r \in Reader : Held(r) \cap (free \cup Posted \cup lost) = {}
  BY <1>1, <1>2, <1>3, <1>4, <1>5
<1> QED BY <1>6, <1>7, <1>8 DEF BufferInOnePlace

\* Type correctness of the forwarding; the bound on m_num_cb needs the whole
\* invariant: a completion must find a copy still counted.
THEOREM TypeCorrect == MediaSpec => []MediaTypeOK
<1>1. IInv => MediaTypeOK
  BY DEF IInv, TypeInv
<1> QED BY <1>1, MediaInv, PTL

\* Every buffer of XMemPool is in one place at every moment: free, posted, with
\* one reader, being written or lost; on_write_connection and the readers
\* between them free none twice and none that is still being written.
THEOREM BufferSafe == MediaSpec => []BufferInOnePlace
BY MediaInv, OnePlace, PTL

\* A packet of a transit call that is freed as sent has been sent exactly twice,
\* however its cids change while the reader goes through them.
THEOREM CopiesSent == MediaSpec => []SentTwice
<1>1. IInv => SentTwice
  BY DEF IInv, TypeInv, Locals, JobOK, SentTwice
<1> QED BY <1>1, MediaInv, PTL

\* No socket ever has two reads outstanding.
THEOREM ReadsApart == MediaSpec => []OneReadPerSocket
<1>1. MediaInit => OneReadPerSocket
  BY FirstReads DEF OneReadPerSocket
<1>2. ASSUME IInv, OneReadPerSocket, [MediaNext]_mediaVars PROVE OneReadPerSocket'
  <2>1. posted \in [Socket -> SUBSET Buf]
    BY <1>2 DEF IInv, TypeInv, MediaTypeOK
  <2>2. ASSUME NEW s \in Socket, NEW b \in posted[s], PostNext(s, b)
        PROVE  OneReadPerSocket'
    <3>1. /\ posted'[s] = (posted[s] \ {b}) \cup {Alloc}
          /\ \A t \in Socket : t # s => posted'[t] = posted[t]
      BY <2>1, <2>2 DEF PostNext
    <3> QED BY <1>2, <3>1 DEF OneReadPerSocket
  <2>3. ASSUME NEW s \in Socket, ReadFails(s) PROVE OneReadPerSocket'
    <3>1. PICK b \in posted[s] : posted' = [posted EXCEPT ![s] = @ \ {b}]
      BY <2>3 DEF ReadFails
    <3> QED BY <1>2, <2>1, <3>1 DEF OneReadPerSocket
  <2>4. ASSUME UNCHANGED posted PROVE OneReadPerSocket'
    BY <1>2, <2>4 DEF OneReadPerSocket
  <2>5. CASE CallStep
    BY <2>4, <2>5 DEF CallStep, StopCall, ForgetSession, OnlyTable, bufVars
  <2>6. ASSUME NEW r \in Reader, Arrive(r) PROVE OneReadPerSocket'
    BY <2>2, <2>4, <2>6 DEF Arrive, ReadPacket, RelayPacket, bufVars
  <2>7. ASSUME NEW r \in Reader, Forward(r) PROVE UNCHANGED posted
    BY <2>7 DEF Forward, Find, Learn, CheckStatus, CheckCid, TakeCid, AfterPaths, SendAgain,
       FreeSent, FindPeer, SendFirst, SendSecond, SendToUser, FindPort, DeliverRelayed,
       Drop, Accept, bufVars
  <2>8. ASSUME NEW s \in Socket, ReadRtcp(s) PROVE OneReadPerSocket'
    BY <2>2, <2>8 DEF ReadRtcp
  <2>9. ASSUME NEW w \in writes, WriteDone(w) PROVE UNCHANGED posted
    BY <2>9 DEF WriteDone
  <2>10. CASE UNCHANGED mediaVars
    BY <2>4, <2>10 DEF mediaVars, forwardVars, bufVars
  <2> QED
    BY <1>2, <2>3, <2>4, <2>5, <2>6, <2>7, <2>8, <2>9, <2>10 DEF MediaNext
<1> QED BY <1>1, <1>2, MediaInv, PTL DEF MediaSpec

\* Media is sent only to an address that packets of the stream have come from,
\* or to the one an RTP-direct call was started with.
THEOREM SourcesHeard == MediaSpec => []SourceWasHeard
<1>1. MediaInit => SourceWasHeard
  BY DEF MediaInit, SourceWasHeard, Info
<1>2. ASSUME IInv, SourceWasHeard, [MediaNext]_mediaVars PROVE SourceWasHeard'
  <2>1. /\ m_dest_addr \in [Info -> Addr \cup {None}]
        /\ m_ssrc_id \in [Info -> Ssrc \cup HeapWord]
    BY <1>2 DEF IInv, TypeInv, MediaTypeOK
  <2>2. ASSUME NEW r \in Reader, Learn(r) PROVE SourceWasHeard'
    <3> DEFINE n == job[r].info
               pkt == job[r].pkt
               first == m_dest_addr[n] = None /\ m_ssrc_id[n] = 0
               moved == m_dest_addr[n] # pkt.addr /\ m_ssrc_id[n] = pkt.ssrc
    <3>1. /\ heard' = heard \cup {<<n, pkt.addr, pkt.ssrc>>}
          /\ m_ssrc_id' = [m_ssrc_id EXCEPT ![n] = IF first THEN pkt.ssrc ELSE @]
          /\ m_dest_addr' = [m_dest_addr EXCEPT ![n] = IF first \/ moved THEN pkt.addr ELSE @]
      BY <2>2 DEF Learn
    <3>2. n \in Info
      BY <1>2, <2>2 DEF IInv, TypeInv, Locals, JobOK, Found, Learn
    <3>3. /\ m_dest_addr'[n] = (IF first \/ moved THEN pkt.addr ELSE m_dest_addr[n])
          /\ m_ssrc_id'[n] = (IF first THEN pkt.ssrc ELSE m_ssrc_id[n])
          /\ <<n, pkt.addr, pkt.ssrc>> \in heard' /\ heard \subseteq heard'
      BY <2>1, <3>1, <3>2
    <3>4. \A m \in Info : m # n => m_dest_addr'[m] = m_dest_addr[m] /\ m_ssrc_id'[m] = m_ssrc_id[m]
      BY <2>1, <3>1
    <3>5. CASE first \/ moved
      <4>1. <<n, m_dest_addr'[n], m_ssrc_id'[n]>> = <<n, pkt.addr, pkt.ssrc>>
        BY <3>3, <3>5
      <4> HIDE DEF n, pkt
      <4> QED BY <1>2, <3>3, <3>4, <4>1 DEF SourceWasHeard
    <3>6. CASE ~(first \/ moved)
      <4>1. m_dest_addr'[n] = m_dest_addr[n] /\ m_ssrc_id'[n] = m_ssrc_id[n]
        BY <3>3, <3>6
      <4> HIDE DEF n, pkt
      <4> QED BY <1>2, <3>3, <3>4, <4>1 DEF SourceWasHeard
    <3> QED BY <3>5, <3>6
  <2>3. ASSUME UNCHANGED <<fieldVars, heard>> PROVE SourceWasHeard'
    BY <1>2, <2>3 DEF SourceWasHeard, fieldVars
  <2>4. CASE CallStep
    BY <2>3, <2>4 DEF CallStep, StopCall, ForgetSession, OnlyTable
  <2>5. ASSUME NEW r \in Reader, Arrive(r) PROVE SourceWasHeard'
    BY <2>3, <2>5 DEF Arrive, ReadPacket, RelayPacket
  <2>6. ASSUME NEW r \in Reader, Forward(r) PROVE Learn(r) \/ UNCHANGED <<fieldVars, heard>>
    BY <2>6 DEF Forward, Find, CheckStatus, CheckCid, TakeCid, AfterPaths, SendAgain,
       FreeSent, FindPeer, SendFirst, SendSecond, SendToUser, FindPort, DeliverRelayed,
       RelayUnchanged
  <2>7. ASSUME NEW s \in Socket, ReadFails(s) \/ ReadRtcp(s) PROVE UNCHANGED <<fieldVars, heard>>
    BY <2>7 DEF ReadFails, ReadRtcp
  <2>8. ASSUME NEW w \in writes, WriteDone(w) PROVE UNCHANGED <<fieldVars, heard>>
    BY <2>8 DEF WriteDone, RelayUnchanged
  <2>9. CASE UNCHANGED mediaVars
    BY <2>3, <2>9 DEF mediaVars, forwardVars
  <2> QED
    BY <1>2, <2>2, <2>3, <2>4, <2>5, <2>6, <2>7, <2>8, <2>9 DEF MediaNext
<1> QED BY <1>1, <1>2, MediaInv, PTL DEF MediaSpec

-----------------------------------------------------------------------------
(* The copies sent to users. *)

\* The calls of a pair are over, all but one.
CallsApart ==
  \A c, d \in Call :
    ports[c] # None /\ ports[c] = ports[d] /\ c \notin over /\ d \notin over => c = d

\* What came in by a port and was sent was sent to a call of its pair; the port
\* remembers it while that call lasts.
PortCopies ==
  \A p \in Port, c \in Call, n \in SeqNum :
    <<p, c, n>> \in delivered =>
      ports[c] = p[1] /\ (c \notin over => n \in m_port_seen[p])

\* A reader has found the call of the pair its packet came in by.
ReadersAtPair ==
  \A r \in Reader :
    /\ job[r].pc \in Found => ports[job[r].info[1]] = job[r].from[1]
    /\ job[r].pc = "filter" => ports[job[r].peer[1]] = job[r].from[1]

\* What a session has let through it remembers, while it does not fail and its
\* call lasts; one reader has it, and it has not been sent.
Carrying(r, s, n) ==
  job[r].pc \in {"port", "deliver"} /\ job[r].from = s /\ job[r].pkt.seq = n
Forgotten(s) == s \in failed \/ s[1] \in over
SessionCopies ==
  \A s \in Session, n \in SeqNum : Forgotten(s) \/
    /\ \A c \in Call : <<s, c, n>> \in delivered => n \in m_session_seen[s]
    /\ \A r \in Reader : Carrying(r, s, n) =>
         n \in m_session_seen[s] /\ \A c \in Call : <<s, c, n>> \notin delivered
    /\ \A r, q \in Reader : Carrying(r, s, n) /\ Carrying(q, s, n) => r = q

CopyInv == /\ CallsApart /\ PortCopies /\ ReadersAtPair /\ SessionCopies
           /\ OneCopyToUser

\* Calls share a pair only when all of them but one are over: the guard of Request.
LEMMA TableCopies ==
  ASSUME TableTypes, CallsApart, TableNext
  PROVE  CallsApart' /\ over \subseteq over' /\ failed \subseteq failed'
<1>1. ASSUME NEW c \in Call, AddRecv(c) \/ AddSent(c) \/ SetPaths(c) \/ Stop(c)
      PROVE  CallsApart' /\ over \subseteq over' /\ failed \subseteq failed'
  BY <1>1 DEF AddRecv, AddSent, SetPaths, Stop, CallsApart
<1>2. ASSUME NEW c \in Call, NEW p \in Pair, Request(c, p)
      PROVE  CallsApart' /\ over \subseteq over' /\ failed \subseteq failed'
  BY <1>2 DEF Request, CallsApart, TableTypes
<1>3. ASSUME NEW s \in Session, AddSession(s) \/ Fail(s) \/ Forget(s)
      PROVE  CallsApart' /\ over \subseteq over' /\ failed \subseteq failed'
  BY <1>3 DEF AddSession, Fail, Forget, CallsApart
<1>4. ASSUME NEW c \in Call, NEW s \in Session, RemoveFailed(c, s)
      PROVE  CallsApart' /\ over \subseteq over' /\ failed \subseteq failed'
  BY <1>4 DEF RemoveFailed, CallsApart
<1> QED BY <1>1, <1>2, <1>3, <1>4 DEF TableNext

\* No port is a session.
LEMMA SourcesApart == \A p \in Port, s \in Session : p # s
BY TableAssumption DEF Port, Session

\* The calls go on: what a port or a session forgets is not asked of it any more.
LEMMA CallStepCopies ==
  ASSUME TypeInv, CopyInv, CallStep
  PROVE  CopyInv'
<1>1. /\ CallsApart' /\ over \subseteq over' /\ failed \subseteq failed' /\ PortsStay
      /\ CallsApart
  BY CallStepTable, TableCopies, TableStepTypes DEF TypeInv, CopyInv
<1>2. UNCHANGED <<job, delivered, repeated>> /\ TableTypes /\ Locals
  BY DEF CallStep, StopCall, ForgetSession, OnlyTable, TypeInv
<1>3. PortCopies'
  <2> SUFFICES ASSUME NEW p \in Port, NEW c \in Call, NEW n \in SeqNum,
                      <<p, c, n>> \in delivered
               PROVE  ports'[c] = p[1] /\ (c \notin over' => n \in m_port_seen'[p])
    BY <1>2 DEF PortCopies
  <2>1. ports[c] = p[1] /\ (c \notin over => n \in m_port_seen[p])
    BY DEF CopyInv, PortCopies
  <2>2. p[1] \in Pair
    BY DEF Port
  <2>3. ports'[c] = p[1]
    BY <1>1, <2>1, <2>2 DEF PortsStay
  <2>4. ASSUME NEW d \in Call, StopCall(d), c \notin over' PROVE n \in m_port_seen'[p]
    <3>1. /\ m_port_seen' = [q \in Port |-> IF q[1] = ports[d] THEN {} ELSE m_port_seen[q]]
          /\ over' = over \cup {d} /\ ports[d] # None /\ d \notin over
      BY <2>4 DEF StopCall, Stop
    <3>2. c # d /\ c \notin over
      BY <2>4, <3>1
    <3>3. ports[d] # p[1]
      BY <1>1, <2>1, <3>1, <3>2 DEF CallsApart
    <3> QED BY <2>1, <3>1, <3>2, <3>3
  <2>5. (\E d \in Call : StopCall(d)) \/ UNCHANGED m_port_seen
    BY DEF CallStep, ForgetSession, filterVars
  <2> QED BY <1>1, <2>1, <2>3, <2>4, <2>5
<1>4. ReadersAtPair'
  <2> SUFFICES ASSUME NEW r \in Reader PROVE
        /\ job[r].pc \in Found => ports'[job[r].info[1]] = job[r].from[1]
        /\ job[r].pc = "filter" => ports'[job[r].peer[1]] = job[r].from[1]
    BY <1>2 DEF ReadersAtPair
  <2>1. JobOK(job[r])
    BY <1>2 DEF Locals
  <2>2. CASE job[r].pc \in Found
    <3>1. job[r].info[1] \in Call /\ job[r].from[1] \in Pair
      BY <2>1, <2>2 DEF JobOK, Holding, Info, Port
    <3>2. ports'[job[r].info[1]] = job[r].from[1]
      BY <1>1, <2>2, <3>1 DEF CopyInv, ReadersAtPair, PortsStay
    <3>3. job[r].pc = "filter" => job[r].peer[1] \in Call
      BY <2>1 DEF JobOK, Info
    <3> QED BY <1>1, <3>1, <3>2, <3>3 DEF CopyInv, ReadersAtPair, PortsStay
  <2> QED BY <2>2 DEF Found
<1>5. SessionCopies'
  <2> SUFFICES ASSUME NEW s \in Session, NEW n \in SeqNum, ~Forgotten(s)' PROVE
        /\ \A c \in Call : <<s, c, n>> \in delivered => n \in m_session_seen'[s]
        /\ \A r \in Reader : Carrying(r, s, n) =>
             n \in m_session_seen'[s] /\ \A c \in Call : <<s, c, n>> \notin delivered
        /\ \A r, q \in Reader : Carrying(r, s, n) /\ Carrying(q, s, n) => r = q
    BY <1>2 DEF SessionCopies, Carrying
  <2>1. ~Forgotten(s) /\ s \notin failed /\ s[1] \notin over'
    BY <1>1 DEF Forgotten
  <2>2. ASSUME NEW d \in Call, StopCall(d) PROVE m_session_seen'[s] = m_session_seen[s]
    <3>1. /\ m_session_seen' = [t \in Session |->
                                 IF t \in Relayed(d) THEN {} ELSE m_session_seen[t]]
          /\ over' = over \cup {d}
      BY <2>2 DEF StopCall, Stop
    <3>2. s \notin Relayed(d)
      BY <2>1, <3>1 DEF Relayed
    <3> QED BY <3>1, <3>2
  <2>3. ASSUME NEW t \in Session, ForgetSession(t) PROVE m_session_seen'[s] = m_session_seen[s]
    <3>1. t # s /\ m_session_seen' = [m_session_seen EXCEPT ![t] = {}]
      BY <2>1, <2>3 DEF ForgetSession, Forget
    <3> QED BY <3>1 DEF TypeInv, MediaTypeOK
  <2>4. m_session_seen'[s] = m_session_seen[s]
    BY <2>2, <2>3 DEF CallStep, filterVars
  <2> QED BY <2>1, <2>4 DEF CopyInv, SessionCopies
<1>6. OneCopyToUser'
  BY <1>1, <1>2 DEF CopyInv, OneCopyToUser
<1> QED BY <1>1, <1>3, <1>4, <1>5, <1>6 DEF CopyInv

\* A step that changes a reader's locals only, and gives it nothing of a session.
LEMMA CopyMove ==
  ASSUME TypeInv, CopyInv, NEW r \in Reader, NEW rec, Set(r, rec),
         UNCHANGED <<tableVars, filterVars, delivered, repeated>>,
         rec.pc \in Found => ports[rec.info[1]] = rec.from[1],
         rec.pc = "filter" => ports[rec.peer[1]] = rec.from[1],
         rec.pc \in {"port", "deliver"} =>
           /\ job[r].pc \in {"port", "deliver"}
           /\ rec.from = job[r].from /\ rec.pkt.seq = job[r].pkt.seq
  PROVE  CopyInv'
<1>1. /\ UNCHANGED <<ports, over, failed, m_port_seen, m_session_seen, delivered, repeated>>
      /\ job' = [job EXCEPT ![r] = rec] /\ job \in [Reader -> Job]
  BY DEF tableVars, filterVars, Set, TypeInv, MediaTypeOK
<1>2. job'[r] = rec /\ \A q \in Reader : q # r => job'[q] = job[q]
  BY <1>1
<1>3. CallsApart' /\ PortCopies' /\ OneCopyToUser'
  BY <1>1 DEF CopyInv, CallsApart, PortCopies, OneCopyToUser
<1>4. ReadersAtPair'
  BY <1>1, <1>2 DEF CopyInv, ReadersAtPair
<1>5. SessionCopies'
  <2>1. ASSUME NEW q \in Reader, NEW s \in Session, NEW n \in SeqNum, Carrying(q, s, n)'
        PROVE  Carrying(q, s, n)
    BY <1>2, <2>1 DEF Carrying
  <2> QED BY <1>1, <2>1 DEF CopyInv, SessionCopies, Forgotten
<1> QED BY <1>3, <1>4, <1>5 DEF CopyInv

\* The same when no reader moves.
LEMMA CopyStay ==
  ASSUME CopyInv, UNCHANGED <<tableVars, filterVars, delivered, repeated, job>>
  PROVE  CopyInv'
BY DEF CopyInv, CallsApart, PortCopies, ReadersAtPair, SessionCopies, Forgotten, Carrying,
   OneCopyToUser, tableVars, filterVars

\* A reader that has done with its packet.
LEMMA CopyIdle ==
  ASSUME TypeInv, CopyInv, NEW r \in Reader, Set(r, Idle),
         UNCHANGED <<tableVars, filterVars, delivered, repeated>>
  PROVE  CopyInv'
<1>1. Idle.pc = "idle"
  BY IdleOK
<1> QED BY <1>1, CopyMove DEF Found

\* A reader that goes on with the packet and the info it has.
LEMMA CopyKeep ==
  ASSUME TypeInv, CopyInv, NEW r \in Reader, NEW rec, Set(r, rec),
         UNCHANGED <<tableVars, filterVars, delivered, repeated>>,
         job[r].pc \in Found, rec.pc \in Found \ {"filter"},
         rec.info = job[r].info, rec.from = job[r].from
  PROVE  CopyInv'
BY CopyMove DEF CopyInv, ReadersAtPair, Found

\* The readers' steps that record nothing.
LEMMA MoveCopies ==
  ASSUME TypeInv, CopyInv, NEW r \in Reader,
         \/ Find(r) \/ Learn(r) \/ CheckStatus(r) \/ CheckCid(r) \/ TakeCid(r)
         \/ AfterPaths(r) \/ SendAgain(r) \/ FreeSent(r) \/ FindPeer(r) \/ SendFirst(r)
         \/ SendSecond(r) \/ FindPort(r)
  PROVE  CopyInv'
<1> DEFINE j == job[r]
<1>1. /\ j \in Job /\ JobOK(j) /\ TableTypes
      /\ j.pc \in Found => ports[j.info[1]] = j.from[1]
  BY DEF TypeInv, MediaTypeOK, Locals, CopyInv, ReadersAtPair
<1>2. UNCHANGED <<tableVars, filterVars, delivered, repeated>>
  BY DEF Find, Learn, CheckStatus, CheckCid, TakeCid, AfterPaths, SendAgain, FreeSent,
     FindPeer, SendFirst, SendSecond, FindPort, RelayUnchanged
<1>3. CASE Set(r, Idle)
  BY <1>2, <1>3, CopyIdle
<1>4. CASE Find(r) /\ ~Drop(r)
  <2> DEFINE n == InfoAt(j.from)
             rec == [j EXCEPT !.pc = "learn", !.info = n]
  <2>1. j.pc = "find" /\ Set(r, rec) /\ n # None
    BY <1>4 DEF Find
  <2>2. j.from \in Port
    BY <1>1, <2>1 DEF JobOK, Holding
  <2>3. ports[n[1]] = j.from[1]
    BY <1>1, <2>1, <2>2, InfoFound
  <2> HIDE DEF n
  <2>4. rec.pc = "learn" /\ rec.info = n /\ rec.from = j.from
    BY <1>1 DEF Job
  <2> HIDE DEF rec
  <2> QED BY <1>2, <2>1, <2>3, <2>4, CopyMove DEF Found
<1>5. CASE Learn(r) /\ ~Drop(r)
  <2> DEFINE label == IF CallType[j.info[1]] = "CT_TRANSFORM" THEN "status" ELSE "peer"
             rec == [j EXCEPT !.pc = label]
  <2>1. Accept(r) /\ j.pc = "learn"
    BY <1>5 DEF Learn
  <2>2. Set(r, rec)
    BY <2>1 DEF Accept, Advance, Set
  <2>3. label \in Found \ {"filter"}
    BY DEF Found
  <2> HIDE DEF label
  <2>4. rec.pc = label /\ rec.info = j.info /\ rec.from = j.from
    BY <1>1 DEF Job
  <2> HIDE DEF rec
  <2> QED BY <1>2, <2>1, <2>2, <2>3, <2>4, CopyKeep DEF Found
<1>6. CASE CheckStatus(r) /\ ~Drop(r)
  <2> DEFINE rec == [j EXCEPT !.pc = "check"]
  <2>1. j.pc = "status" /\ Set(r, rec)
    BY <1>6 DEF CheckStatus, Advance, Set
  <2>2. rec.pc = "check" /\ rec.info = j.info /\ rec.from = j.from
    BY <1>1 DEF Job
  <2> HIDE DEF rec
  <2> QED BY <1>2, <2>1, <2>2, CopyKeep DEF Found
<1>7. CASE CheckCid(r)
  <2> DEFINE rec == IF j.i = 4 THEN [j EXCEPT !.pc = "after"]
                    ELSE IF CidAt(j.info, j.i) = 0 THEN [j EXCEPT !.i = @ + 1]
                    ELSE [j EXCEPT !.pc = "take"]
  <2>1. j.pc = "check" /\ Set(r, rec)
    BY <1>7 DEF CheckCid
  <2>2. rec.pc \in {"check", "after", "take"} /\ rec.info = j.info /\ rec.from = j.from
    BY <1>1, <2>1 DEF Job
  <2> HIDE DEF rec
  <2> QED BY <1>2, <2>1, <2>2, CopyKeep DEF Found
<1>8. CASE TakeCid(r)
  <2> DEFINE rec == [j EXCEPT !.pc = "check", !.i = @ + 1, !.send_num = @ + 1,
                              !.cid = CidAt(j.info, j.i),
                              !.sent = IF j.send_num < 2 THEN @ + 1 ELSE @]
  <2>1. j.pc = "take" /\ Set(r, rec)
    BY <1>8 DEF TakeCid
  <2>2. rec.pc = "check" /\ rec.info = j.info /\ rec.from = j.from
    BY <1>1 DEF Job
  <2> HIDE DEF rec
  <2> QED BY <1>2, <2>1, <2>2, CopyKeep DEF Found
<1>9. CASE AfterPaths(r) /\ ~Drop(r)
  <2> DEFINE label == IF j.send_num < 2 THEN "again" ELSE "free"
             rec == [j EXCEPT !.pc = label]
  <2>1. j.pc = "after" /\ Set(r, rec)
    BY <1>9 DEF AfterPaths, Advance, Set
  <2>2. label \in Found \ {"filter"}
    BY DEF Found
  <2> HIDE DEF label
  <2>3. rec.pc = label /\ rec.info = j.info /\ rec.from = j.from
    BY <1>1 DEF Job
  <2> HIDE DEF rec
  <2> QED BY <1>2, <2>1, <2>2, <2>3, CopyKeep DEF Found
<1>10. CASE SendAgain(r)
  <2> DEFINE rec == [j EXCEPT !.pc = "free", !.sent = @ + 1]
  <2>1. j.pc = "again" /\ Set(r, rec)
    BY <1>10 DEF SendAgain
  <2>2. rec.pc = "free" /\ rec.info = j.info /\ rec.from = j.from
    BY <1>1 DEF Job
  <2> HIDE DEF rec
  <2> QED BY <1>2, <2>1, <2>2, CopyKeep DEF Found
<1>11. CASE FindPeer(r) /\ ~Drop(r)
  <2> DEFINE n == InfoAt(DirectPort(j.info))
             label == IF n[2] = "sent" THEN "first" ELSE "filter"
             rec == [j EXCEPT !.pc = label, !.peer = n]
  <2>1. j.pc = "peer" /\ Set(r, rec) /\ n # None
    BY <1>11 DEF FindPeer
  <2>2. j.info \in Info /\ ports[j.info[1]] \in Pair /\ ports[j.info[1]] = j.from[1]
    BY <1>1, <2>1 DEF JobOK, Found
  <2>3. DirectPort(j.info) \in Port /\ DirectPort(j.info)[1] = j.from[1]
    BY <2>2, DirectPortType DEF DirectPort
  <2>4. ports[n[1]] = j.from[1]
    BY <1>1, <2>1, <2>3, InfoFound
  <2>5. label \in Found /\ label \notin {"port", "deliver"}
    BY DEF Found
  <2> HIDE DEF n, label
  <2>6. rec.pc = label /\ rec.peer = n /\ rec.info = j.info /\ rec.from = j.from
    BY <1>1 DEF Job
  <2> HIDE DEF rec
  <2> QED BY <1>2, <2>1, <2>2, <2>4, <2>5, <2>6, CopyMove
<1>12. CASE SendFirst(r)
  <2> DEFINE rec == [j EXCEPT !.pc = "second", !.sent = 1]
  <2>1. j.pc = "first" /\ Set(r, rec)
    BY <1>12 DEF SendFirst
  <2>2. rec.pc = "second" /\ rec.info = j.info /\ rec.from = j.from
    BY <1>1 DEF Job
  <2> HIDE DEF rec
  <2> QED BY <1>2, <2>1, <2>2, CopyKeep DEF Found
<1>13. CASE FindPort(r) /\ ~Set(r, Idle)
  <2> DEFINE port == <<m_session_to_port_map[j.from], "recv">>
             rec == [j EXCEPT !.pc = "deliver", !.port = port]
  <2>1. j.pc = "port" /\ Set(r, rec)
    BY <1>13 DEF FindPort
  <2>2. rec.pc = "deliver" /\ rec.from = j.from /\ rec.pkt = j.pkt
    BY <1>1 DEF Job
  <2> HIDE DEF rec
  <2> QED BY <1>2, <2>1, <2>2, CopyMove DEF Found
<1>14. Drop(r) => Set(r, Idle)
  BY DEF Drop
<1>15. SendSecond(r) \/ FreeSent(r) => Set(r, Idle)
  BY DEF SendSecond, FreeSent, Drop
<1> QED
  BY <1>3, <1>4, <1>5, <1>6, <1>7, <1>8, <1>9, <1>10, <1>11, <1>12, <1>13, <1>14, <1>15

\* A packet read from a port.
LEMMA ReadPacketCopies ==
  ASSUME TypeInv, CopyInv, NEW r \in Reader, NEW s \in Socket, NEW pkt \in Packet,
         ReadPacket(r, s, pkt)
  PROVE  CopyInv'
<1>1. PICK b \in posted[s] :
        Set(r, [Idle EXCEPT !.pc = "find", !.buf = b, !.from = s[1], !.pkt = pkt])
  BY DEF ReadPacket
<1> DEFINE rec == [Idle EXCEPT !.pc = "find", !.buf = b, !.from = s[1], !.pkt = pkt]
<1>2. Set(r, rec) /\ rec.pc = "find"
  BY <1>1 DEF Idle
<1>3. UNCHANGED <<tableVars, filterVars, delivered, repeated>>
  BY DEF ReadPacket
<1> HIDE DEF rec
<1> QED BY <1>2, <1>3, CopyMove DEF Found

\* A packet let through by its session: the session remembers its number, so no
\* other reader has it and it has not been sent.
LEMMA RelayPacketCopies ==
  ASSUME TypeInv, CopyInv, NEW r \in Reader, NEW s \in Session, NEW seq \in SeqNum,
         RelayPacket(r, s, seq)
  PROVE  CopyInv'
<1> DEFINE rec == [Idle EXCEPT !.pc = "port", !.from = s, !.pkt.seq = seq]
<1>1. /\ UNCHANGED <<ports, over, failed, m_port_seen, delivered, repeated>>
      /\ m_session_seen' = [m_session_seen EXCEPT ![s] = @ \cup {seq}]
      /\ m_session_seen \in [Session -> SUBSET SeqNum]
      /\ job \in [Reader -> Job] /\ job[r].pc = "idle"
      /\ (seq \in m_session_seen[s] /\ UNCHANGED job)
         \/ (seq \notin m_session_seen[s] /\ Set(r, rec))
  BY DEF RelayPacket, tableVars, TypeInv, MediaTypeOK
<1>2. rec.pc = "port" /\ rec.from = s /\ rec.pkt.seq = seq
  BY DEF Idle, NoPacket
<1> HIDE DEF rec
<1>3. CallsApart' /\ PortCopies' /\ OneCopyToUser'
  BY <1>1 DEF CopyInv, CallsApart, PortCopies, OneCopyToUser
<1>4. /\ m_session_seen'[s] = m_session_seen[s] \cup {seq}
      /\ \A t \in Session : t # s => m_session_seen'[t] = m_session_seen[t]
  BY <1>1
<1>5. CASE seq \in m_session_seen[s] /\ UNCHANGED job
  <2>1. ReadersAtPair'
    BY <1>1, <1>5 DEF CopyInv, ReadersAtPair
  <2>2. \A t \in Session : m_session_seen'[t] = m_session_seen[t]
    BY <1>4, <1>5
  <2>3. SessionCopies'
    BY <1>1, <1>5, <2>2 DEF CopyInv, SessionCopies, Forgotten, Carrying
  <2> QED BY <1>3, <2>1, <2>3 DEF CopyInv
<1>6. CASE seq \notin m_session_seen[s] /\ Set(r, rec)
  <2>1. job'[r] = rec /\ \A q \in Reader : q # r => job'[q] = job[q]
    BY <1>1, <1>6 DEF Set
  <2>2. ReadersAtPair'
    BY <1>1, <1>2, <2>1 DEF CopyInv, ReadersAtPair, Found
  <2>3. ASSUME NEW t \in Session, NEW n \in SeqNum, ~Forgotten(t)'
        PROVE  /\ \A c \in Call : <<t, c, n>> \in delivered' => n \in m_session_seen'[t]
               /\ \A q \in Reader : Carrying(q, t, n)' =>
                    n \in m_session_seen'[t] /\ \A c \in Call : <<t, c, n>> \notin delivered'
               /\ \A q, u \in Reader : Carrying(q, t, n)' /\ Carrying(u, t, n)' => q = u
    <3>1. /\ \A c \in Call : <<t, c, n>> \in delivered => n \in m_session_seen[t]
          /\ \A q \in Reader : Carrying(q, t, n) =>
               n \in m_session_seen[t] /\ \A c \in Call : <<t, c, n>> \notin delivered
          /\ \A q, u \in Reader : Carrying(q, t, n) /\ Carrying(u, t, n) => q = u
      BY <1>1, <2>3 DEF CopyInv, SessionCopies, Forgotten
    <3>2. Carrying(r, t, n)' <=> t = s /\ n = seq
      BY <1>2, <2>1 DEF Carrying
    <3>3. \A q \in Reader : q # r => (Carrying(q, t, n)' <=> Carrying(q, t, n))
      BY <2>1 DEF Carrying
    <3>4. CASE t = s /\ n = seq
      BY <1>1, <1>4, <1>6, <3>1, <3>2, <3>3, <3>4
    <3>5. CASE ~(t = s /\ n = seq)
      BY <1>1, <1>4, <3>1, <3>2, <3>3, <3>5
    <3> QED BY <3>4, <3>5
  <2>4. SessionCopies'
    BY <2>3 DEF SessionCopies
  <2> QED BY <1>3, <2>2, <2>4 DEF CopyInv
<1> QED BY <1>1, <1>5, <1>6

\* What is recorded for a user and had not been sent is not sent again.
LEMMA RecordOnce ==
  ASSUME NEW source, NEW c, NEW seq, Record(source, c, seq),
         c \notin over => <<source, c, seq>> \notin delivered
  PROVE  repeated' = repeated
BY DEF Record

\* A packet for the user that came in by a port: its filter has not seen it.
LEMMA SendToUserCopies ==
  ASSUME TypeInv, CopyInv, NEW r \in Reader, SendToUser(r)
  PROVE  CopyInv'
<1> DEFINE port == job[r].from
           seq == job[r].pkt.seq
           c == job[r].peer[1]
<1>1. /\ job[r].pc = "filter" /\ JobOK(job[r]) /\ job \in [Reader -> Job]
      /\ m_port_seen' = [m_port_seen EXCEPT ![port] = @ \cup {seq}]
      /\ m_port_seen \in [Port -> SUBSET SeqNum]
      /\ UNCHANGED <<ports, over, failed, m_session_seen>> /\ Set(r, Idle)
      /\ Idle.pc = "idle"
  BY IdleOK DEF SendToUser, Drop, TypeInv, Locals, MediaTypeOK, tableVars
<1>2. port \in Port /\ job[r].pkt \in Packet /\ job[r].peer \in Info
  BY <1>1 DEF JobOK, Holding, Found
<1>3. seq \in SeqNum /\ c \in Call /\ ports[c] = port[1]
  BY <1>1, <1>2 DEF Packet, Info, CopyInv, ReadersAtPair
<1>4. job'[r] = Idle /\ \A q \in Reader : q # r => job'[q] = job[q]
  BY <1>1 DEF Set
<1>5. /\ m_port_seen'[port] = m_port_seen[port] \cup {seq}
      /\ \A p \in Port : p # port => m_port_seen'[p] = m_port_seen[p]
  BY <1>1, <1>2
<1>6. repeated' = repeated /\ delivered' \subseteq delivered \cup {<<port, c, seq>>}
  <2>1. CASE UNCHANGED <<delivered, repeated>>
    BY <2>1
  <2>2. CASE seq \notin m_port_seen[port] /\ Record(port, c, seq)
    <3>1. c \notin over => <<port, c, seq>> \notin delivered
      BY <1>2, <1>3, <2>2 DEF CopyInv, PortCopies
    <3>2. repeated' = repeated
      BY <2>2, <3>1, RecordOnce
    <3> QED BY <2>2, <3>2 DEF Record
  <2> QED BY <2>1, <2>2 DEF SendToUser
<1> HIDE DEF port, seq, c
<1>7. CallsApart' /\ OneCopyToUser'
  BY <1>1, <1>6 DEF CopyInv, CallsApart, OneCopyToUser
<1>8. PortCopies'
  <2> SUFFICES ASSUME NEW p \in Port, NEW d \in Call, NEW n \in SeqNum,
                      <<p, d, n>> \in delivered'
               PROVE  ports[d] = p[1] /\ (d \notin over => n \in m_port_seen'[p])
    BY <1>1 DEF PortCopies
  <2>1. CASE <<p, d, n>> \in delivered
    BY <1>5, <2>1 DEF CopyInv, PortCopies
  <2>2. CASE p = port /\ d = c /\ n = seq
    BY <1>3, <1>5, <2>2
  <2> QED BY <1>6, <2>1, <2>2
<1>9. ReadersAtPair'
  BY <1>1, <1>4 DEF CopyInv, ReadersAtPair, Found
<1>10. SessionCopies'
  <2>1. ASSUME NEW s \in Session, NEW d \in Call, NEW n \in SeqNum
        PROVE  <<s, d, n>> \in delivered' => <<s, d, n>> \in delivered
    BY <1>2, <1>6, SourcesApart
  <2>2. ASSUME NEW q \in Reader, NEW s \in Session, NEW n \in SeqNum, Carrying(q, s, n)'
        PROVE  Carrying(q, s, n)
    BY <1>1, <1>4, <2>2 DEF Carrying
  <2> QED BY <1>1, <2>1, <2>2 DEF CopyInv, SessionCopies, Forgotten
<1> QED BY <1>7, <1>8, <1>9, <1>10 DEF CopyInv

\* A packet for the user that came by a session: nobody else had it.
LEMMA DeliverRelayedCopies ==
  ASSUME TypeInv, CopyInv, NEW r \in Reader, DeliverRelayed(r)
  PROVE  CopyInv'
<1> DEFINE n == InfoAt(job[r].port)
           s == job[r].from
           seq == job[r].pkt.seq
           c == n[1]
<1>1. /\ job[r].pc = "deliver" /\ JobOK(job[r]) /\ job \in [Reader -> Job] /\ TableTypes
      /\ UNCHANGED <<tableVars, filterVars>> /\ Set(r, Idle) /\ Idle.pc = "idle"
      /\ delivered \subseteq Source \X Call \X SeqNum /\ repeated \subseteq delivered
  BY IdleOK DEF DeliverRelayed, TypeInv, Locals, MediaTypeOK
<1>2. s \in Session /\ seq \in SeqNum /\ job[r].port \in Port
  BY <1>1 DEF JobOK
<1>3. CASE UNCHANGED <<delivered, repeated>>
  BY <1>1, <1>3, CopyIdle
<1>4. CASE n # None /\ Record(s, c, seq)
  <2>1. c \in Call
    BY <1>1, <1>2, <1>4, InfoFound DEF Info
  <2>2. /\ UNCHANGED <<ports, over, failed, m_port_seen, m_session_seen>>
        /\ delivered' \subseteq delivered \cup {<<s, c, seq>>}
        /\ repeated' \subseteq repeated \cup ({<<s, c, seq>>} \cap delivered)
    BY <1>1, <1>4 DEF Record, tableVars, filterVars
  <2>3. job'[r] = Idle /\ \A q \in Reader : q # r => job'[q] = job[q]
    BY <1>1 DEF Set
  <2>4. Carrying(r, s, seq)
    BY <1>1 DEF Carrying
  <2> HIDE DEF n, s, seq, c
  <2>5. ~Forgotten(s) =>
          /\ seq \in m_session_seen[s] /\ \A d \in Call : <<s, d, seq>> \notin delivered
          /\ \A q \in Reader : Carrying(q, s, seq) => q = r
    BY <1>2, <2>4 DEF CopyInv, SessionCopies
  <2>6. OneCopyToUser'
    <3> SUFFICES ASSUME NEW d \in repeated' PROVE d[1] \in failed \/ d[1][1] \in over
      BY <2>2 DEF OneCopyToUser
    <3>1. CASE d \in repeated
      BY <3>1 DEF CopyInv, OneCopyToUser
    <3>2. CASE d = <<s, c, seq>> /\ d \in delivered
      BY <2>1, <2>5, <3>2 DEF Forgotten
    <3> QED BY <2>2, <3>1, <3>2
  <2>7. CallsApart'
    BY <2>2 DEF CopyInv, CallsApart
  <2>8. PortCopies'
    <3>1. \A p \in Port, d \in Call, m \in SeqNum :
            <<p, d, m>> \in delivered' => <<p, d, m>> \in delivered
      BY <1>2, <2>2, SourcesApart
    <3> QED BY <2>2, <3>1 DEF CopyInv, PortCopies
  <2>9. ReadersAtPair'
    BY <1>1, <2>2, <2>3 DEF CopyInv, ReadersAtPair, Found
  <2>10. ASSUME NEW t \in Session, NEW m \in SeqNum, ~Forgotten(t)'
         PROVE  /\ \A d \in Call : <<t, d, m>> \in delivered' => m \in m_session_seen'[t]
                /\ \A q \in Reader : Carrying(q, t, m)' =>
                     m \in m_session_seen'[t] /\ \A d \in Call : <<t, d, m>> \notin delivered'
                /\ \A q, u \in Reader : Carrying(q, t, m)' /\ Carrying(u, t, m)' => q = u
    <3>1. ~Forgotten(t)
      BY <2>2, <2>10 DEF Forgotten
    <3>2. /\ \A d \in Call : <<t, d, m>> \in delivered => m \in m_session_seen[t]
          /\ \A q \in Reader : Carrying(q, t, m) =>
               m \in m_session_seen[t] /\ \A d \in Call : <<t, d, m>> \notin delivered
          /\ \A q, u \in Reader : Carrying(q, t, m) /\ Carrying(u, t, m) => q = u
      BY <3>1 DEF CopyInv, SessionCopies
    <3>3. ~Carrying(r, t, m)'
      BY <1>1, <2>3 DEF Carrying
    <3>4. \A q \in Reader : q # r => (Carrying(q, t, m)' <=> Carrying(q, t, m))
      BY <2>3 DEF Carrying
    <3>5. CASE t = s /\ m = seq
      BY <2>2, <2>5, <3>1, <3>3, <3>4, <3>5
    <3>6. CASE ~(t = s /\ m = seq)
      <4>1. \A d \in Call : <<t, d, m>> \in delivered' => <<t, d, m>> \in delivered
        BY <2>2, <3>6
      <4> QED BY <2>2, <3>2, <3>3, <3>4, <4>1
    <3> QED BY <3>5, <3>6
  <2>11. SessionCopies'
    BY <2>10 DEF SessionCopies
  <2> QED BY <2>6, <2>7, <2>8, <2>9, <2>11 DEF CopyInv
<1> QED BY <1>3, <1>4 DEF DeliverRelayed

\* Every step keeps what is known of the copies.
LEMMA StepCopies ==
  ASSUME IInv, CopyInv, [MediaNext]_mediaVars
  PROVE  CopyInv'
<1>1. TypeInv
  BY DEF IInv
<1>2. CASE CallStep
  BY <1>1, <1>2, CallStepCopies
<1>3. ASSUME NEW r \in Reader, Arrive(r) PROVE CopyInv'
  BY <1>1, <1>3, ReadPacketCopies, RelayPacketCopies DEF Arrive
<1>4. ASSUME NEW r \in Reader, Forward(r) PROVE CopyInv'
  BY <1>1, <1>4, MoveCopies, SendToUserCopies, DeliverRelayedCopies DEF Forward
<1>5. ASSUME NEW s \in Socket, ReadFails(s) \/ ReadRtcp(s) PROVE CopyInv'
  BY <1>5, CopyStay DEF ReadFails, ReadRtcp
<1>6. ASSUME NEW w \in writes, WriteDone(w) PROVE CopyInv'
  BY <1>6, CopyStay DEF WriteDone, RelayUnchanged
<1>7. CASE UNCHANGED mediaVars
  BY <1>7, CopyStay DEF mediaVars, forwardVars
<1> QED BY <1>2, <1>3, <1>4, <1>5, <1>6, <1>7 DEF MediaNext

\* The user of a call that lasts gets every packet of the peer's RtpProxy once,
\* though each comes twice and any readers may handle the two at the same time.
\* The filters' window is not in the model (see PackageUniq).
THEOREM UserGetsOne == MediaSpec => []OneCopyToUser
<1>1. MediaInit => CopyInv
  <2> SUFFICES ASSUME MediaInit PROVE CopyInv
    OBVIOUS
  <2>1. Idle.pc = "idle" /\ job = [r \in Reader |-> Idle] /\ delivered = {} /\ repeated = {}
    BY IdleOK DEF MediaInit
  <2>2. CallsApart
    BY DEF MediaInit, TableInit, CallsApart
  <2>3. PortCopies /\ OneCopyToUser
    BY <2>1 DEF PortCopies, OneCopyToUser
  <2>4. ReadersAtPair /\ SessionCopies
    BY <2>1 DEF ReadersAtPair, SessionCopies, Carrying, Found
  <2> QED BY <2>2, <2>3, <2>4 DEF CopyInv
<1>2. IInv /\ CopyInv /\ [MediaNext]_mediaVars => CopyInv'
  BY StepCopies
<1>3. CopyInv => OneCopyToUser
  BY DEF CopyInv
<1> QED BY <1>1, <1>2, <1>3, MediaInv, PTL DEF MediaSpec
=============================================================================
