--------------------------- MODULE CallPathsProofs ---------------------------
(***************************************************************************)
(* Theorems about CallPaths for any number of calls, paths, pairs and      *)
(* worker threads.                                                         *)
(***************************************************************************)
EXTENDS CallPaths, FiniteSetTheorems, SequenceTheorems, TLAPS

USE DEF tableVars, infoVars, relayVars, workerVars, threadVars, clientVars, history

-----------------------------------------------------------------------------
(* The inductive invariant. *)

\* The number of paths of a call.
PathNum(c) == Len(Cids[c])

Starting == {"add_recv", "add_sent", "short_link"}
Building == {"build", "keep_alive", "modify_find", "modify"}

\* What a worker's locals are at each label, and how far its call is.
WorkerOK(w) ==
  /\ pc[w] \in {"idle", "sweep"} => call[w] = None
  /\ pc[w] \notin {"idle", "sweep"} => call[w] \in Call
  /\ pc[w] \in Starting => phase[call[w]] = "starting"
  /\ pc[w] \in {"idle", "sweep"} \cup Starting => path[w] = 1
  /\ pc[w] \in Building \cup {"answer"} => phase[call[w]] \in {"starting", "building"}
  /\ pc[w] \in Building => HasPath(call[w])
  /\ pc[w] \in {"build", "keep_alive"} => path[w] <= PathNum(call[w])
  /\ pc[w] = "modify" => target[w] = call[w]
  /\ pc[w] = "answer" /\ HasPath(call[w]) => m_path_status[call[w]] = "PS_SUC"
  /\ pc[w] = "del_info" => phase[call[w]] = "stopping"
  /\ pc[w] # "sweep" => todo[w] = {}
  /\ \A p \in todo[w] : \E c \in Call : phase[c] = "stopping" /\ ports[c] = p
Workers == \A w \in Worker : WorkerOK(w)

\* No two workers have one call, and what one stops no other sweeps.
OneEach ==
  /\ \A w, x \in Worker : call[w] # None /\ call[w] = call[x] => w = x
  /\ \A w, x \in Worker : w # x => todo[w] \cap todo[x] = {}
  /\ \A w, x \in Worker : pc[x] = "del_info" => ports[call[x]] \notin todo[w]

\* Some worker is about to put the entries of call c in.
At(c, labels) == \E w \in Worker : call[w] = c /\ pc[w] \in labels

\* A live call's entries are at its pair as soon as they have been put in.
CallOK(c) ==
  /\ phase[c] = "new" <=> ports[c] = None
  /\ Len(m_cid[c]) = PathNum(c)
  /\ \A i \in 1 .. PathNum(c) : m_cid[c][i] \in {0, Cids[c][i]}
  /\ phase[c] \in Live =>
       /\ m_recv_info[ports[c]] = IF At(c, {"add_recv"}) THEN None ELSE c
       /\ m_sent_info[ports[c]] = IF At(c, {"add_recv", "add_sent"}) THEN None ELSE c
  /\ phase[c] \in {"up", "building"} /\ HasPath(c) => m_path_status[c] = "PS_SUC"
Calls ==
  /\ \A c \in Call : CallOK(c)
  /\ \A c, d \in Call : phase[c] \in Live /\ phase[d] \in Live /\ ports[c] = ports[d]
       => c = d

\* An entry is that of a live call on the pair.
Entries ==
  \A p \in Pair :
    /\ m_recv_info[p] # None =>
         phase[m_recv_info[p]] \in Live /\ ports[m_recv_info[p]] = p
    /\ m_sent_info[p] # None =>
         phase[m_sent_info[p]] \in Live /\ ports[m_sent_info[p]] = p

\* A session is a path of a call that was started.
OwnPath(s) == /\ ports[s[1]] # None
              /\ \E i \in 1 .. PathNum(s[1]) : Cids[s[1]][i] = s[2]
Relay ==
  /\ r_pc = "idle" => r_session = None /\ r_port = None
  /\ r_pc \in {"idle", "find"} => r_info = None
  /\ r_pc # "idle" => r_session \in failed /\ r_port \in Pair /\ OwnPath(r_session)
  /\ r_pc = "remove_cid" => r_info \in Call
  /\ \A s \in Session : kept[s] # None \/ s \in channels => OwnPath(s)

IInv == TypeOK /\ CountersExact /\ Workers /\ OneEach /\ Calls /\ Entries /\ Relay

-----------------------------------------------------------------------------
(* Every step keeps it: requests. *)

\* The cids of a call are a sequence of at most three.
LEMMA UpToThree == ASSUME NEW n \in Nat, n <= 3 PROVE n \in 0 .. 3
OBVIOUS

LEMMA CidsFacts ==
  /\ None \notin Call /\ None \notin Pair
  /\ \A c \in Call : /\ Cids[c] \in Seq(Cid) /\ PathNum(c) \in 0 .. 3
                     /\ \A i \in 1 .. PathNum(c) : Cids[c][i] \in Cid /\ Cids[c][i] # 0
                     /\ HasPath(c) <=> PathNum(c) # 0
                     /\ HasPath(c) => CallType[c] = "CT_TRANSFORM"
                     /\ CallType[c] \in TypeName
<1>1. None \notin Call /\ None \notin Pair
  BY NullAssumption
<1>2. ASSUME NEW c \in Call
      PROVE  /\ Cids[c] \in Seq(Cid) /\ PathNum(c) \in 0 .. 3
             /\ \A i \in 1 .. PathNum(c) : Cids[c][i] \in Cid /\ Cids[c][i] # 0
             /\ HasPath(c) <=> PathNum(c) # 0
             /\ HasPath(c) => CallType[c] = "CT_TRANSFORM"
             /\ CallType[c] \in TypeName
  <2>1. Cids[c] \in Seq(Nat \ {0}) /\ PathNum(c) <= 3
    BY CidsAssumption DEF PathNum
  <2>2. PathNum(c) \in Nat /\ PathNum(c) \in 0 .. 3
    BY <2>1, LenProperties, UpToThree DEF PathNum
  <2>3. \A i \in 1 .. PathNum(c) : Cids[c][i] \in Cid /\ Cids[c][i] # 0
    BY <2>1 DEF Cid, PathNum
  <2>4. HasPath(c) <=> PathNum(c) # 0
    BY <2>1 DEF HasPath, PathNum
  <2>5. Cids[c] \in Seq(Cid)
    BY <2>1, <2>3 DEF PathNum
  <2>6. HasPath(c) => CallType[c] = "CT_TRANSFORM"
    BY CidsAssumption DEF HasPath
  <2> QED BY <2>2, <2>3, <2>4, <2>5, <2>6, CallAssumption
<1> QED BY <1>1, <1>2

\* The call a worker is at, and the pair it is on.
LEMMA CallerFacts ==
  ASSUME IInv, NEW w \in Worker, pc[w] \notin {"idle", "sweep"}
  PROVE  /\ call[w] \in Call /\ OnPort(w) \in Pair /\ OnPort(w) = ports[call[w]]
         /\ phase[call[w]] \in Live /\ phase[call[w]] # "up" /\ CallOK(call[w])
         /\ CallType[call[w]] \in TypeName
<1>1. call[w] \in Call /\ phase[call[w]] \in Live /\ phase[call[w]] # "up"
  BY DEF IInv, Workers, WorkerOK, Starting, Building, Live, TypeOK, Label
<1>2. CallOK(call[w])
  BY <1>1 DEF IInv, Calls
<1>3. ports[call[w]] \in Pair
  BY <1>1, <1>2 DEF IInv, TypeOK, CallOK, Live
<1> QED BY <1>1, <1>2, <1>3, CidsFacts DEF OnPort

LEMMA CallAtWork ==
  ASSUME IInv, NEW w \in Worker, call[w] # None
  PROVE  /\ pc[w] \notin {"idle", "sweep"} /\ call[w] \in Call
         /\ phase[call[w]] \in Live /\ phase[call[w]] # "up" /\ ports[call[w]] \in Pair
<1>1. pc[w] \notin {"idle", "sweep"}
  BY DEF IInv, Workers, WorkerOK
<1> QED BY <1>1, CallerFacts

\* Another worker is at another call.
LEMMA OthersCall ==
  ASSUME IInv, NEW w \in Worker, NEW x \in Worker, x # w, pc[w] \notin {"idle", "sweep"}
  PROVE  call[x] # call[w]
BY CallerFacts, CidsFacts DEF IInv, OneEach

\* The entries of a call whose worker is past putting them in.
LEMMA EntriesOf ==
  ASSUME IInv, NEW w \in Worker, pc[w] \notin {"idle", "sweep"}
  PROVE  /\ pc[w] = "add_recv" => m_recv_info[OnPort(w)] = None
         /\ pc[w] # "add_recv" => m_recv_info[OnPort(w)] = call[w]
         /\ pc[w] \in {"add_recv", "add_sent"} => m_sent_info[OnPort(w)] = None
         /\ pc[w] \notin {"add_recv", "add_sent"} => m_sent_info[OnPort(w)] = call[w]
<1>1. call[w] \in Call /\ phase[call[w]] \in Live /\ CallOK(call[w]) /\ OnPort(w) = ports[call[w]]
  BY CallerFacts
<1>2. \A labels : At(call[w], labels) <=> pc[w] \in labels
  BY OthersCall DEF At
<1>3. At(call[w], {"add_recv"}) <=> pc[w] = "add_recv"
  BY <1>2
<1>4. At(call[w], {"add_recv", "add_sent"}) <=> pc[w] \in {"add_recv", "add_sent"}
  BY <1>2
<1> HIDE DEF At
<1> QED BY <1>1, <1>3, <1>4 DEF CallOK

\* The entries a counter counts.
Counted(t) == {p \in Pair : m_recv_info[p] # None /\ CallType[m_recv_info[p]] = t}

LEMMA CountedFinite == \A t : IsFiniteSet(Counted(t))
  <1> SUFFICES ASSUME NEW t PROVE IsFiniteSet(Counted(t))
    OBVIOUS
  <1>1. Counted(t) \subseteq Pair
    BY DEF Counted
  <1> QED BY <1>1, PairAssumption, FS_Subset

LEMMA CountedAdd ==
  ASSUME NEW q \in Pair, NEW c, c # None, m_recv_info[q] = None, NEW t,
         \A p \in Pair : m_recv_info'[p] = IF p = q THEN c ELSE m_recv_info[p]
  PROVE  /\ t = CallType[c] => Counted(t)' = Counted(t) \cup {q} /\ q \notin Counted(t)
         /\ t # CallType[c] => Counted(t)' = Counted(t)
BY DEF Counted

LEMMA CountedRemove ==
  ASSUME NEW q \in Pair, NEW c, c # None, m_recv_info[q] = c, NEW t,
         \A p \in Pair : m_recv_info'[p] = IF p = q THEN None ELSE m_recv_info[p]
  PROVE  /\ t = CallType[c] => Counted(t)' = Counted(t) \ {q} /\ q \in Counted(t)
         /\ t # CallType[c] => Counted(t)' = Counted(t)
BY DEF Counted

LEMMA ReceiveStartInv ==
  ASSUME IInv, NEW w \in Worker, NEW c \in Call, NEW p \in Pair, ReceiveStart(w, c, p)
  PROVE  IInv'
<1> USE CidsFacts DEF ReceiveStart, Goto, IInv
<1>0. \A x \in Worker : call[x] # c
  BY CallAtWork DEF Live
<1>1. TypeOK'
  BY DEF TypeOK, Phase, Label
<1>7. CountersExact'
  BY DEF CountersExact
<1>2. Workers'
  BY DEF TypeOK, Workers, WorkerOK, Building, Starting, Calls, CallOK
<1>3. OneEach'
  <2>1. \A x, y \in Worker : call'[x] # None /\ call'[x] = call'[y] => x = y
    BY <1>0 DEF TypeOK, OneEach
  <2>2. \A y \in Worker : pc'[y] = "del_info" =>
          pc[y] = "del_info" /\ call'[y] = call[y] /\ call[y] # c /\ call[y] \in Call
    <3> SUFFICES ASSUME NEW y \in Worker, pc'[y] = "del_info"
                 PROVE  pc[y] = "del_info" /\ call'[y] = call[y] /\ call[y] # c /\ call[y] \in Call
      OBVIOUS
    <3>1. pc[y] = "del_info" /\ y # w
      BY DEF TypeOK
    <3> QED BY <3>1, <1>0, CallerFacts DEF TypeOK
  <2>3. \A x, y \in Worker : pc'[y] = "del_info" => ports'[call'[y]] \notin todo'[x]
    BY <2>2 DEF TypeOK, OneEach
  <2> QED BY <2>1, <2>3 DEF OneEach
<1>4. Calls'
  BY <1>0 DEF TypeOK, Calls, CallOK, At, Live, Workers, WorkerOK, Entries, OneEach
<1>5. Entries'
  BY DEF TypeOK, Entries, Live, Calls, CallOK, Workers, WorkerOK
<1>6. Relay'
  BY DEF TypeOK, Relay, OwnPath, Workers, WorkerOK, Session
<1> QED BY <1>1, <1>2, <1>3, <1>4, <1>5, <1>6, <1>7

LEMMA AddRecvInfoInv ==
  ASSUME IInv, NEW w \in Worker, AddRecvInfo(w)
  PROVE  IInv'
<1> USE CidsFacts DEF AddRecvInfo, Goto, IInv
<1>0. /\ call[w] \in Call /\ OnPort(w) \in Pair /\ OnPort(w) = ports[call[w]]
      /\ phase[call[w]] \in Live /\ CallOK(call[w])
      /\ CallType[call[w]] \in TypeName
  BY CallerFacts
<1>a. m_recv_info' = [m_recv_info EXCEPT ![OnPort(w)] = call[w]]
  BY EntriesOf DEF Inserted
<1>1. TypeOK'
  <2>1. m_recv_info' \in [Pair -> Call \cup {None}]
    BY <1>0, <1>a DEF TypeOK
  <2>2. m_num' \in [TypeName -> Nat]
    BY <1>0 DEF TypeOK
  <2> QED BY <2>1, <2>2 DEF TypeOK, Label
<1>7. CountersExact'
  <2> SUFFICES ASSUME NEW t \in TypeName PROVE m_num'[t] = Cardinality(Counted(t)')
    BY DEF CountersExact, Counted
  <2>0. /\ OnPort(w) \in Pair /\ call[w] # None /\ m_recv_info[OnPort(w)] = None
        /\ \A p \in Pair : m_recv_info'[p] = IF p = OnPort(w) THEN call[w]
                                                               ELSE m_recv_info[p]
    BY <1>0, <1>a, EntriesOf DEF TypeOK
  <2>1. m_num[t] = Cardinality(Counted(t)) /\ IsFiniteSet(Counted(t))
    BY CountedFinite DEF CountersExact, Counted
  <2>2. CASE t = CallType[call[w]]
    <3>1. Counted(t)' = Counted(t) \cup {OnPort(w)} /\ OnPort(w) \notin Counted(t)
      BY <2>0, <2>2, CountedAdd
    <3>2. m_num'[t] = m_num[t] + 1
      BY <2>2 DEF TypeOK
    <3> HIDE DEF Counted
    <3> QED BY <2>1, <3>1, <3>2, FS_AddElement
  <2>3. CASE t # CallType[call[w]]
    <3>1. Counted(t)' = Counted(t)
      BY <2>0, <2>3, CountedAdd
    <3> QED BY <2>1, <2>3, <3>1 DEF TypeOK
  <2> QED BY <2>2, <2>3
<1>2. Workers'
  BY DEF TypeOK, Workers, WorkerOK, Building, Starting
<1>3. OneEach'
  BY DEF TypeOK, OneEach, Workers, WorkerOK
<1>4. Calls'
  <2>1. \A x \in Worker : x # w => call[x] # call[w]
    BY OthersCall
  <2>2. \A d \in Call : /\ At(d, {"add_recv"})' <=> At(d, {"add_recv"}) /\ d # call[w]
                        /\ At(d, {"add_recv", "add_sent"})' <=> At(d, {"add_recv", "add_sent"})
    BY <2>1 DEF At, TypeOK
  <2>3. \A d \in Call : phase[d] \in Live /\ d # call[w] => ports[d] # OnPort(w)
    BY <1>0 DEF Calls
  <2>4. \A d \in Call : phase[d] \in Live => ports[d] \in Pair
    BY DEF Calls, CallOK, TypeOK, Live
  <2> SUFFICES ASSUME NEW d \in Call PROVE CallOK(d)'
    BY DEF Calls
  <2>5. CallOK(d)
    BY DEF Calls
  <2>6. phase[d] \in Live => m_recv_info'[ports[d]] = IF At(d, {"add_recv"})' THEN None ELSE d
    <3>1. CASE d = call[w]
      BY <3>1, <2>2, <1>0, <1>a DEF TypeOK
    <3>2. CASE d # call[w]
      BY <3>2, <2>2, <2>3, <2>4, <2>5, <1>a DEF TypeOK, CallOK
    <3> QED BY <3>1, <3>2
  <2> QED BY <2>2, <2>5, <2>6 DEF CallOK
<1>5. Entries'
  <2> SUFFICES ASSUME NEW q \in Pair
               PROVE  /\ m_recv_info'[q] # None =>
                           phase[m_recv_info'[q]] \in Live /\ ports[m_recv_info'[q]] = q
                      /\ m_sent_info'[q] # None =>
                           phase[m_sent_info'[q]] \in Live /\ ports[m_sent_info'[q]] = q
    BY DEF Entries
  <2>1. CASE q = OnPort(w)
    BY <2>1, <1>0, <1>a DEF TypeOK, Entries
  <2>2. CASE q # OnPort(w)
    BY <2>2, <1>a DEF TypeOK, Entries
  <2> QED BY <2>1, <2>2
<1>6. Relay'
  BY DEF TypeOK, Relay, OwnPath, Workers, WorkerOK, Session
<1> QED BY <1>1, <1>2, <1>3, <1>4, <1>5, <1>6, <1>7

LEMMA AddSentInfoInv ==
  ASSUME IInv, NEW w \in Worker, AddSentInfo(w)
  PROVE  IInv'
<1> USE CidsFacts DEF AddSentInfo, Goto, IInv
<1>0. /\ call[w] \in Call /\ OnPort(w) \in Pair /\ OnPort(w) = ports[call[w]]
      /\ phase[call[w]] \in Live /\ CallOK(call[w])
  BY CallerFacts
<1>a. m_sent_info' = [m_sent_info EXCEPT ![OnPort(w)] = call[w]]
  BY EntriesOf DEF Inserted
<1>1. TypeOK'
  BY <1>0, <1>a DEF TypeOK, Label
<1>7. CountersExact'
  BY DEF CountersExact
<1>2. Workers'
  BY DEF TypeOK, Workers, WorkerOK, Building, Starting
<1>3. OneEach'
  BY DEF TypeOK, OneEach, Workers, WorkerOK
<1>4. Calls'
  <2>1. \A x \in Worker : x # w => call[x] # call[w]
    BY OthersCall
  <2>2. \A d \in Call : /\ At(d, {"add_recv"})' <=> At(d, {"add_recv"})
                        /\ At(d, {"add_recv", "add_sent"})' <=>
                             At(d, {"add_recv", "add_sent"}) /\ d # call[w]
    BY <2>1 DEF At, TypeOK
  <2>3. \A d \in Call : phase[d] \in Live /\ d # call[w] => ports[d] # OnPort(w)
    BY <1>0 DEF Calls
  <2>4. \A d \in Call : phase[d] \in Live => ports[d] \in Pair
    BY DEF Calls, CallOK, TypeOK, Live
  <2> SUFFICES ASSUME NEW d \in Call PROVE CallOK(d)'
    BY DEF Calls
  <2>5. CallOK(d)
    BY DEF Calls
  <2>6. phase[d] \in Live => m_sent_info'[ports[d]] =
                               IF At(d, {"add_recv", "add_sent"})' THEN None ELSE d
    <3>1. CASE d = call[w]
      BY <3>1, <2>2, <1>0, <1>a DEF TypeOK
    <3>2. CASE d # call[w]
      BY <3>2, <2>2, <2>3, <2>4, <2>5, <1>a DEF TypeOK, CallOK
    <3> QED BY <3>1, <3>2
  <2> QED BY <2>2, <2>5, <2>6 DEF CallOK
<1>5. Entries'
  <2> SUFFICES ASSUME NEW q \in Pair
               PROVE  /\ m_recv_info'[q] # None =>
                           phase[m_recv_info'[q]] \in Live /\ ports[m_recv_info'[q]] = q
                      /\ m_sent_info'[q] # None =>
                           phase[m_sent_info'[q]] \in Live /\ ports[m_sent_info'[q]] = q
    BY DEF Entries
  <2>1. CASE q = OnPort(w)
    BY <2>1, <1>0, <1>a DEF TypeOK, Entries
  <2>2. CASE q # OnPort(w)
    BY <2>2, <1>a DEF TypeOK, Entries
  <2> QED BY <2>1, <2>2
<1>6. Relay'
  BY DEF TypeOK, Relay, OwnPath, Workers, WorkerOK, Session
<1> QED BY <1>1, <1>2, <1>3, <1>4, <1>5, <1>6, <1>7

\* A handler that returns leaves its worker idle.
LEMMA ReturnFacts ==
  ASSUME IInv, NEW w \in Worker, Return(w)
  PROVE  /\ pc' = [pc EXCEPT ![w] = "idle"] /\ call' = [call EXCEPT ![w] = None]
         /\ pc' \in [Worker -> Label] /\ call' \in [Worker -> Call \cup {None}]
         /\ path' \in [Worker -> 1 .. 4] /\ target' \in [Worker -> Call \cup {None}]
         /\ pc'[w] = "idle" /\ call'[w] = None /\ path'[w] = 1
         /\ \A x \in Worker : x # w => /\ pc'[x] = pc[x] /\ call'[x] = call[x]
                                       /\ path'[x] = path[x] /\ target'[x] = target[x]
BY DEF IInv, TypeOK, Return, Goto, Label

LEMMA AddShortLinkInv ==
  ASSUME IInv, NEW w \in Worker, AddShortLink(w)
  PROVE  IInv'
<1> USE CidsFacts DEF AddShortLink, IInv
<1>0. /\ call[w] \in Call /\ OnPort(w) \in Pair /\ OnPort(w) = ports[call[w]]
      /\ phase[call[w]] \in Live /\ CallOK(call[w])
  BY CallerFacts
<1>a. CASE Cids[call[w]] = << >>
  <2>0. /\ pc' = [pc EXCEPT ![w] = "idle"] /\ call' = [call EXCEPT ![w] = None]
        /\ pc' \in [Worker -> Label] /\ call' \in [Worker -> Call \cup {None}]
        /\ path' \in [Worker -> 1 .. 4] /\ target' \in [Worker -> Call \cup {None}]
        /\ pc'[w] = "idle" /\ call'[w] = None /\ path'[w] = 1
        /\ \A x \in Worker : x # w => /\ pc'[x] = pc[x] /\ call'[x] = call[x]
                                      /\ path'[x] = path[x] /\ target'[x] = target[x]
    BY <1>a, ReturnFacts
  <2>1. TypeOK'
    BY <2>0, <1>0 DEF TypeOK
  <2>2. Workers'
    <3> SUFFICES ASSUME NEW x \in Worker PROVE WorkerOK(x)'
      BY DEF Workers
    <3>1. CASE x = w
      BY <3>1, <2>0 DEF Workers, WorkerOK, Building, Starting
    <3>2. CASE x # w
      BY <3>2, <2>0 DEF Workers, WorkerOK
    <3> QED BY <3>1, <3>2
  <2>3. OneEach'
    BY <2>0 DEF OneEach, TypeOK
  <2>4. Calls'
    <3>1. \A d \in Call : /\ At(d, {"add_recv"})' <=> At(d, {"add_recv"})
                          /\ At(d, {"add_recv", "add_sent"})' <=>
                               At(d, {"add_recv", "add_sent"})
      BY <2>0 DEF At, TypeOK
    <3> QED BY <3>1 DEF Calls, CallOK
  <2>5. CountersExact' /\ Entries' /\ Relay'
    BY DEF CountersExact, Entries, Relay, OwnPath
  <2> QED BY <2>1, <2>2, <2>3, <2>4, <2>5
<1>b. CASE Cids[call[w]] # << >>
  <2> USE <1>b DEF Goto
  <2>1. TypeOK'
    BY <1>0 DEF TypeOK, Label
  <2>2. Workers'
    <3> SUFFICES ASSUME NEW x \in Worker PROVE WorkerOK(x)'
      BY DEF Workers
    <3>1. CASE x = w
      <4>1. /\ phase[call[w]] = "starting" /\ path[w] = 1 /\ HasPath(call[w])
            /\ todo[w] = {} /\ pc'[w] = "build"
        <5>1. WorkerOK(w) /\ pc[w] = "short_link"
          BY DEF Workers
        <5>2. pc'[w] = "build"
          BY DEF TypeOK
        <5>3. HasPath(call[w])
          BY DEF HasPath
        <5> QED BY <5>1, <5>2, <5>3 DEF WorkerOK, Starting
      <4>2. 1 <= PathNum(call[w])
        BY <4>1, <1>0
      <4> QED BY <3>1, <4>1, <4>2, <1>0 DEF WorkerOK, Starting, Building
    <3>2. CASE x # w
      BY <3>2 DEF TypeOK, Workers, WorkerOK
    <3> QED BY <3>1, <3>2
  <2>3. OneEach'
    BY DEF TypeOK, OneEach, Workers, WorkerOK
  <2>4. Calls'
    <3>1. \A d \in Call : /\ At(d, {"add_recv"})' <=> At(d, {"add_recv"})
                          /\ At(d, {"add_recv", "add_sent"})' <=>
                               At(d, {"add_recv", "add_sent"})
      BY DEF At, TypeOK
    <3> QED BY <3>1 DEF Calls, CallOK
  <2>5. CountersExact' /\ Entries' /\ Relay'
    BY DEF CountersExact, Entries, Relay, OwnPath
  <2> QED BY <2>1, <2>2, <2>3, <2>4, <2>5
<1> QED BY <1>a, <1>b

LEMMA ReceiveBuildInv ==
  ASSUME IInv, NEW w \in Worker, NEW c \in Call, ReceiveBuild(w, c)
  PROVE  IInv'
<1> USE CidsFacts DEF ReceiveBuild, Goto, IInv
<1>0. \A x \in Worker : call[x] # c
  BY CallAtWork
<1>1. TypeOK'
  BY DEF TypeOK, Phase, Label
<1>7. CountersExact'
  BY DEF CountersExact
<1>2. Workers'
  <2> SUFFICES ASSUME NEW x \in Worker PROVE WorkerOK(x)'
    BY DEF Workers
  <2>0. CallOK(c)
    BY DEF Calls
  <2>1. CASE x = w
    <3>1. /\ phase'[c] = "building" /\ path[w] = 1 /\ call'[w] = c /\ todo[w] = {}
          /\ pc'[w] = IF HasPath(c) THEN "build" ELSE "answer"
      <4>1. WorkerOK(w) /\ pc[w] = "idle"
        BY DEF Workers
      <4>2. phase'[c] = "building" /\ call'[w] = c
        BY DEF TypeOK
      <4>3. pc'[w] = IF HasPath(c) THEN "build" ELSE "answer"
        BY DEF TypeOK, HasPath
      <4> QED BY <4>1, <4>2, <4>3 DEF WorkerOK
    <3>2. HasPath(c) => 1 <= PathNum(c)
      OBVIOUS
    <3> QED BY <2>0, <2>1, <3>1, <3>2 DEF WorkerOK, CallOK, Starting, Building
  <2>2. CASE x # w
    BY <1>0, <2>2 DEF TypeOK, Workers, WorkerOK
  <2> QED BY <2>1, <2>2
<1>3. OneEach'
  <2>1. \A x, y \in Worker : call'[x] # None /\ call'[x] = call'[y] => x = y
    BY <1>0 DEF TypeOK, OneEach
  <2>2. \A y \in Worker : pc'[y] = "del_info" =>
          pc[y] = "del_info" /\ call'[y] = call[y]
    BY DEF TypeOK
  <2> QED BY <2>1, <2>2 DEF TypeOK, OneEach
<1>4. Calls'
  <2>1. \A d \in Call : /\ At(d, {"add_recv"})' <=> At(d, {"add_recv"})
                        /\ At(d, {"add_recv", "add_sent"})' <=>
                             At(d, {"add_recv", "add_sent"})
    BY <1>0 DEF At, TypeOK
  <2> QED BY <2>1 DEF Calls, CallOK, TypeOK, Live
<1>5. Entries'
  BY DEF TypeOK, Entries, Live
<1>6. Relay'
  BY DEF TypeOK, Relay, OwnPath
<1> QED BY <1>1, <1>2, <1>3, <1>4, <1>5, <1>6, <1>7

\* The path a worker is building.
LEMMA PathFacts ==
  ASSUME IInv, NEW w \in Worker, pc[w] \in {"build", "keep_alive"}
  PROVE  /\ path[w] \in 1 .. PathNum(call[w]) /\ PathSession(w) \in Session
         /\ PathSession(w)[1] = call[w] /\ OwnPath(PathSession(w))
<1>1. call[w] \in Call /\ phase[call[w]] \in Live /\ CallOK(call[w])
  BY CallerFacts
<1>2. path[w] \in 1 .. PathNum(call[w])
  <2>1. path[w] \in 1 .. 4 /\ path[w] <= PathNum(call[w])
    BY DEF IInv, TypeOK, Workers, WorkerOK
  <2>2. PathNum(call[w]) \in 0 .. 3
    BY <1>1, CidsFacts
  <2> QED BY <2>1, <2>2
<1>3. Cids[call[w]][path[w]] \in Cid
  BY <1>1, <1>2, CidsFacts
<1>4. ports[call[w]] # None
  BY <1>1 DEF CallOK, Live
<1> QED BY <1>1, <1>2, <1>3, <1>4 DEF PathSession, Session, OwnPath

LEMMA BuildChannelInv ==
  ASSUME IInv, NEW w \in Worker, BuildChannel(w)
  PROVE  IInv'
<1> USE CidsFacts DEF BuildChannel, Goto, IInv
<1>0. OnPort(w) \in Pair /\ PathSession(w) \in Session /\ OwnPath(PathSession(w))
  BY CallerFacts, PathFacts
<1>1. TypeOK'
  <2>1. m_session_to_port_map' \in [Session -> Pair \cup {None}]
    BY <1>0 DEF TypeOK, Inserted
  <2>2. channels' \subseteq Session
    BY <1>0 DEF TypeOK
  <2> QED BY <2>1, <2>2 DEF TypeOK, Label
<1>7. CountersExact'
  BY DEF CountersExact
<1>2. Workers'
  BY DEF TypeOK, Workers, WorkerOK, Building, Starting
<1>3. OneEach'
  BY DEF TypeOK, OneEach, Workers, WorkerOK
<1>4. Calls'
  <2>1. \A d \in Call : /\ At(d, {"add_recv"})' <=> At(d, {"add_recv"})
                        /\ At(d, {"add_recv", "add_sent"})' <=>
                             At(d, {"add_recv", "add_sent"})
    BY DEF At, TypeOK
  <2> QED BY <2>1 DEF Calls, CallOK
<1>5. Entries'
  BY DEF Entries
<1>6. Relay'
  BY <1>0 DEF TypeOK, Relay, OwnPath
<1> QED BY <1>1, <1>2, <1>3, <1>4, <1>5, <1>6, <1>7

LEMMA AddKeepAliveInv ==
  ASSUME IInv, NEW w \in Worker, AddKeepAlive(w)
  PROVE  IInv'
<1> USE CidsFacts DEF AddKeepAlive, Goto, IInv
<1>0. /\ OnPort(w) \in Pair /\ PathSession(w) \in Session /\ OwnPath(PathSession(w))
      /\ call[w] \in Call /\ path[w] \in 1 .. PathNum(call[w])
      /\ path[w] = Len(Cids[call[w]]) <=> path[w] = PathNum(call[w])
  BY CallerFacts, PathFacts DEF PathNum
<1>a. path[w] + 1 \in 1 .. 4 /\ (path[w] # PathNum(call[w]) => path[w] + 1 <= PathNum(call[w]))
  BY <1>0
<1>1. TypeOK'
  <2>1. kept' \in [Session -> Pair \cup {None}]
    BY <1>0 DEF TypeOK
  <2>2. path' \in [Worker -> 1 .. 4] /\ pc' \in [Worker -> Label]
    BY <1>a DEF TypeOK, Label
  <2> QED BY <2>1, <2>2 DEF TypeOK
<1>7. CountersExact'
  BY DEF CountersExact
<1>2. Workers'
  <2> SUFFICES ASSUME NEW x \in Worker PROVE WorkerOK(x)'
    BY DEF Workers
  <2>1. CASE x = w
    <3>1. /\ pc'[w] = IF path[w] = PathNum(call[w]) THEN "modify_find" ELSE "build"
          /\ path'[w] = path[w] + 1
      BY <1>0 DEF TypeOK
    <3>2. /\ phase[call[w]] \in {"starting", "building"} /\ HasPath(call[w]) /\ todo[w] = {}
      BY DEF TypeOK, Workers, WorkerOK, Building
    <3> QED BY <3>1, <3>2, <2>1, <1>0, <1>a DEF WorkerOK, Building, Starting
  <2>2. CASE x # w
    BY <2>2 DEF TypeOK, Workers, WorkerOK
  <2> QED BY <2>1, <2>2
<1>3. OneEach'
  BY DEF TypeOK, OneEach, Workers, WorkerOK
<1>4. Calls'
  <2>1. \A d \in Call : /\ At(d, {"add_recv"})' <=> At(d, {"add_recv"})
                        /\ At(d, {"add_recv", "add_sent"})' <=>
                             At(d, {"add_recv", "add_sent"})
    BY DEF At, TypeOK
  <2> QED BY <2>1 DEF Calls, CallOK
<1>5. Entries'
  BY DEF Entries
<1>6. Relay'
  BY <1>0 DEF TypeOK, Relay, OwnPath
<1> QED BY <1>1, <1>2, <1>3, <1>4, <1>5, <1>6, <1>7

LEMMA ModifyFindInv ==
  ASSUME IInv, NEW w \in Worker, ModifyFind(w)
  PROVE  IInv'
<1> USE CidsFacts DEF ModifyFind, Goto, IInv
<1>0. m_recv_info[OnPort(w)] = call[w] /\ call[w] \in Call
  BY CallerFacts, EntriesOf
<1>1. TypeOK'
  BY <1>0 DEF TypeOK, Label
<1>2. Workers'
  <2> SUFFICES ASSUME NEW x \in Worker PROVE WorkerOK(x)'
    BY DEF Workers
  <2>1. CASE x = w
    <3>1. WorkerOK(w) /\ pc'[w] = "modify" /\ target'[w] = call[w]
      BY <1>0 DEF TypeOK, Workers
    <3> QED BY <3>1, <2>1 DEF WorkerOK, Building, Starting
  <2>2. CASE x # w
    BY <2>2 DEF TypeOK, Workers, WorkerOK
  <2> QED BY <2>1, <2>2
<1>3. OneEach'
  BY <1>0 DEF TypeOK, OneEach
<1>4. Calls'
  <2>1. \A d \in Call : /\ At(d, {"add_recv"})' <=> At(d, {"add_recv"})
                        /\ At(d, {"add_recv", "add_sent"})' <=>
                             At(d, {"add_recv", "add_sent"})
    BY <1>0 DEF At, TypeOK
  <2> QED BY <2>1 DEF Calls, CallOK
<1>5. CountersExact' /\ Entries' /\ Relay'
  BY DEF CountersExact, Entries, Relay, OwnPath
<1> QED BY <1>1, <1>2, <1>3, <1>4, <1>5

LEMMA ModifyInv ==
  ASSUME IInv, NEW w \in Worker, Modify(w)
  PROVE  IInv'
<1> USE CidsFacts DEF Modify, Goto, IInv
<1>0. /\ target[w] = call[w] /\ call[w] \in Call /\ HasPath(call[w])
      /\ Cids[call[w]] \in Seq(Cid \cup {0})
  <2>1. call[w] \in Call
    BY CallerFacts
  <2>2. Cids[call[w]] \in Seq(Cid)
    BY <2>1
  <2>3. Cids[call[w]] \in Seq(Cid \cup {0})
    BY <2>2
  <2> QED BY <2>1, <2>3 DEF Workers, WorkerOK, Building
<1>1. TypeOK'
  BY <1>0 DEF TypeOK, Label
<1>2. Workers'
  BY <1>0 DEF TypeOK, Workers, WorkerOK, Building, Starting
<1>3. OneEach'
  BY DEF TypeOK, OneEach
<1>4. Calls'
  <2>1. \A d \in Call : /\ At(d, {"add_recv"})' <=> At(d, {"add_recv"})
                        /\ At(d, {"add_recv", "add_sent"})' <=>
                             At(d, {"add_recv", "add_sent"})
    BY DEF At, TypeOK
  <2> SUFFICES ASSUME NEW d \in Call PROVE CallOK(d)'
    BY DEF Calls
  <2>2. CallOK(d)
    BY DEF Calls
  <2>3. CASE d = call[w]
    <3>1. m_cid'[d] = Cids[d] /\ m_path_status'[d] = "PS_SUC"
      BY <2>3, <1>0 DEF TypeOK
    <3>2. Len(m_cid'[d]) = PathNum(d)
      BY <3>1 DEF PathNum
    <3> QED BY <2>1, <2>2, <3>1, <3>2 DEF CallOK
  <2>4. CASE d # call[w]
    <3>1. m_cid'[d] = m_cid[d] /\ m_path_status'[d] = m_path_status[d]
      BY <2>4, <1>0 DEF TypeOK
    <3> QED BY <2>1, <2>2, <3>1 DEF CallOK
  <2> QED BY <2>3, <2>4
<1>5. CountersExact' /\ Entries' /\ Relay'
  BY DEF CountersExact, Entries, Relay, OwnPath
<1> QED BY <1>1, <1>2, <1>3, <1>4, <1>5

LEMMA AnswerInv ==
  ASSUME IInv, NEW w \in Worker, Answer(w)
  PROVE  IInv'
<1> USE CidsFacts DEF Answer, IInv
<1>0. /\ pc' = [pc EXCEPT ![w] = "idle"] /\ call' = [call EXCEPT ![w] = None]
      /\ pc' \in [Worker -> Label] /\ call' \in [Worker -> Call \cup {None}]
      /\ path' \in [Worker -> 1 .. 4] /\ target' \in [Worker -> Call \cup {None}]
      /\ pc'[w] = "idle" /\ call'[w] = None /\ path'[w] = 1
      /\ \A x \in Worker : x # w => /\ pc'[x] = pc[x] /\ call'[x] = call[x]
                                    /\ path'[x] = path[x] /\ target'[x] = target[x]
  BY ReturnFacts
<1>a. /\ call[w] \in Call /\ CallOK(call[w]) /\ WorkerOK(w)
      /\ phase[call[w]] \in {"starting", "building"}
      /\ HasPath(call[w]) => m_path_status[call[w]] = "PS_SUC"
  BY CallerFacts DEF Workers, WorkerOK
<1>b. /\ phase'[call[w]] = "up"
      /\ \A d \in Call : d # call[w] => phase'[d] = phase[d]
  BY <1>a DEF TypeOK
<1>1. TypeOK'
  BY <1>0, <1>a DEF TypeOK, Phase
<1>2. Workers'
  <2> SUFFICES ASSUME NEW x \in Worker PROVE WorkerOK(x)'
    BY DEF Workers
  <2>0. \A d \in Call : phase[d] = "stopping" => phase'[d] = "stopping"
    BY <1>a, <1>b
  <2>1. CASE x = w
    BY <2>1, <1>0, <1>a DEF WorkerOK, Building, Starting
  <2>2. CASE x # w
    <3>1. WorkerOK(x) /\ call[x] # call[w]
      BY <2>2, OthersCall DEF Workers
    <3>2. call[x] \in Call => phase'[call[x]] = phase[call[x]]
      BY <3>1, <1>b
    <3>3. pc[x] \notin {"idle", "sweep"} => call[x] \in Call
      BY <3>1 DEF WorkerOK
    <3> QED BY <2>0, <2>2, <3>1, <3>2, <3>3, <1>0 DEF WorkerOK, Building, Starting
  <2> QED BY <2>1, <2>2
<1>3. OneEach'
  BY <1>0 DEF OneEach
<1>4. Calls'
  <2>1. \A d \in Call : /\ At(d, {"add_recv"})' <=> At(d, {"add_recv"})
                        /\ At(d, {"add_recv", "add_sent"})' <=>
                             At(d, {"add_recv", "add_sent"})
    BY <1>0 DEF At
  <2>2. \A d \in Call : CallOK(d)'
    BY <2>1, <1>a, <1>b DEF Calls, CallOK, Live
  <2>3. \A d \in Call : phase'[d] \in Live => phase[d] \in Live
    BY <1>a, <1>b DEF Live
  <2> QED BY <2>2, <2>3 DEF Calls
<1>5. Entries'
  BY <1>a, <1>b DEF Entries, TypeOK, Live
<1>6. CountersExact' /\ Relay'
  BY DEF CountersExact, Relay, OwnPath
<1> QED BY <1>1, <1>2, <1>3, <1>4, <1>5, <1>6

LEMMA ReceiveStopInv ==
  ASSUME IInv, NEW w \in Worker, NEW c \in Call, ReceiveStop(w, c)
  PROVE  IInv'
<1> USE CidsFacts DEF ReceiveStop, Goto, IInv
<1>0. \A x \in Worker : call[x] # c
  BY CallAtWork
<1>1. TypeOK'
  BY DEF TypeOK, Phase, Label
<1>2. Workers'
  <2> SUFFICES ASSUME NEW x \in Worker PROVE WorkerOK(x)'
    BY DEF Workers
  <2>1. CASE x = w
    <3>1. WorkerOK(w) /\ phase'[c] = "stopping" /\ call'[w] = c /\ pc'[w] = "del_info"
      BY DEF TypeOK, Workers
    <3> QED BY <2>1, <3>1 DEF WorkerOK, Starting, Building
  <2>2. CASE x # w
    BY <1>0, <2>2 DEF TypeOK, Workers, WorkerOK
  <2> QED BY <2>1, <2>2
<1>3. OneEach'
  <2>1. \A x, y \in Worker : call'[x] # None /\ call'[x] = call'[y] => x = y
    BY <1>0 DEF TypeOK, OneEach
  <2>2. \A x \in Worker : ports[c] \notin todo[x]
    <3> SUFFICES ASSUME NEW x \in Worker, ports[c] \in todo[x] PROVE FALSE
      OBVIOUS
    <3>1. PICK d \in Call : phase[d] = "stopping" /\ ports[d] = ports[c]
      BY DEF Workers, WorkerOK
    <3> QED BY <3>1 DEF Calls, Live
  <2>3. \A y \in Worker : pc'[y] = "del_info" =>
          call'[y] = c \/ (pc[y] = "del_info" /\ call'[y] = call[y])
    <3>1. call'[w] = c /\ \A y \in Worker : y # w => pc'[y] = pc[y] /\ call'[y] = call[y]
      BY DEF TypeOK
    <3> QED BY <3>1
  <2> QED BY <2>1, <2>2, <2>3 DEF TypeOK, OneEach
<1>4. Calls'
  <2>1. \A d \in Call : /\ At(d, {"add_recv"})' <=> At(d, {"add_recv"})
                        /\ At(d, {"add_recv", "add_sent"})' <=>
                             At(d, {"add_recv", "add_sent"})
    BY <1>0 DEF At, TypeOK
  <2> QED BY <2>1 DEF Calls, CallOK, TypeOK, Live
<1>5. Entries'
  BY DEF TypeOK, Entries, Live
<1>6. CountersExact' /\ Relay'
  BY DEF CountersExact, Relay, OwnPath
<1> QED BY <1>1, <1>2, <1>3, <1>4, <1>5, <1>6

\* A stopping call that leaves the tables: nothing of it is left.
LEMMA CallGone ==
  ASSUME IInv, NEW c \in Call, phase[c] = "stopping", DelTransformInfo(ports[c]),
         phase' = [phase EXCEPT ![c] = "over"], UNCHANGED <<infoVars, ports>>,
         \A d \in Call : /\ At(d, {"add_recv"})' <=> At(d, {"add_recv"})
                         /\ At(d, {"add_recv", "add_sent"})' <=>
                              At(d, {"add_recv", "add_sent"})
  PROVE  /\ m_recv_info[ports[c]] = c
         /\ m_recv_info' = [m_recv_info EXCEPT ![ports[c]] = None]
         /\ m_sent_info' = [m_sent_info EXCEPT ![ports[c]] = None]
         /\ m_recv_info' \in [Pair -> Call \cup {None}]
         /\ m_sent_info' \in [Pair -> Call \cup {None}]
         /\ m_num' \in [TypeName -> Nat]
         /\ channels' \subseteq channels /\ short_links' \subseteq short_links
         /\ kept' = kept
         /\ phase' \in [Call -> Phase]
         /\ CountersExact' /\ Calls' /\ Entries'
<1> USE CidsFacts DEF IInv
<1>1. CallOK(c) /\ ports[c] \in Pair
  BY DEF Calls, CallOK, TypeOK, Live
<1>2. m_recv_info[ports[c]] = c
  <2>1. ~ At(c, {"add_recv"})
    BY DEF At, Workers, WorkerOK, Starting
  <2> QED BY <1>1, <2>1 DEF CallOK, Live
<1>3. /\ m_recv_info' = [m_recv_info EXCEPT ![ports[c]] = None]
      /\ m_sent_info' = [m_sent_info EXCEPT ![ports[c]] = None]
      /\ m_num' = [m_num EXCEPT ![CallType[c]] = @ - 1]
      /\ channels' \subseteq channels /\ short_links' \subseteq short_links
      /\ kept' = kept
  BY <1>2 DEF DelTransformInfo
<1>4. /\ m_recv_info' \in [Pair -> Call \cup {None}]
      /\ m_sent_info' \in [Pair -> Call \cup {None}]
      /\ phase' \in [Call -> Phase]
      /\ \A p \in Pair : /\ m_recv_info'[p] = IF p = ports[c] THEN None ELSE m_recv_info[p]
                         /\ m_sent_info'[p] = IF p = ports[c] THEN None ELSE m_sent_info[p]
      /\ \A d \in Call : phase'[d] = IF d = c THEN "over" ELSE phase[d]
  BY <1>1, <1>3 DEF TypeOK, Phase
<1>5. /\ m_num' \in [TypeName -> Nat]
      /\ \A t \in TypeName : m_num'[t] = Cardinality(Counted(t)')
  <2>1. ASSUME NEW t \in TypeName
        PROVE  m_num'[t] \in Nat /\ m_num'[t] = Cardinality(Counted(t)')
    <3>1. /\ m_num[t] = Cardinality(Counted(t)) /\ m_num[t] \in Nat
          /\ IsFiniteSet(Counted(t))
      BY CountedFinite DEF CountersExact, Counted, TypeOK
    <3>2. CASE t = CallType[c]
      <4>1. Counted(t)' = Counted(t) \ {ports[c]} /\ ports[c] \in Counted(t)
        BY <3>2, <1>1, <1>2, <1>4, CountedRemove
      <4>2. m_num'[t] = m_num[t] - 1
        BY <3>2, <1>3 DEF TypeOK
      <4>3. Cardinality(Counted(t)') = Cardinality(Counted(t)) - 1
        <5>1. Cardinality(Counted(t) \ {ports[c]}) = Cardinality(Counted(t)) - 1
          BY <3>1, <4>1, FS_RemoveElement
        <5> QED BY <5>1, <4>1
      <4>4. Cardinality(Counted(t)') \in Nat
        BY <3>1, <4>1, FS_RemoveElement, FS_CardinalityType
      <4> QED BY <3>1, <4>2, <4>3, <4>4
    <3>3. CASE t # CallType[c]
      <4>1. Counted(t)' = Counted(t)
        BY <3>3, <1>1, <1>2, <1>4, CountedRemove
      <4>2. m_num'[t] = m_num[t]
        BY <3>3, <1>3 DEF TypeOK
      <4> QED BY <3>1, <4>1, <4>2
    <3> QED BY <3>2, <3>3
  <2>2. DOMAIN m_num' = TypeName
    BY <1>3 DEF TypeOK
  <2>3. m_num' = [t \in TypeName |-> m_num'[t]]
    BY <1>3, <2>2 DEF TypeOK
  <2> QED BY <2>1, <2>3
<1>6. CountersExact'
  BY <1>5 DEF CountersExact, Counted
<1>7. Calls'
  <2>1. \A d \in Call : phase[d] \in Live => ports[d] \in Pair
    BY DEF Calls, CallOK, TypeOK, Live
  <2>2. \A d \in Call : phase[d] \in Live /\ d # c => ports[d] # ports[c]
    BY DEF Calls, Live
  <2>3. ASSUME NEW d \in Call PROVE CallOK(d)'
    <3>1. CallOK(d)
      BY DEF Calls
    <3>2. CASE d = c
      BY <3>1, <3>2, <1>4 DEF CallOK, Live
    <3>3. CASE d # c
      BY <3>1, <3>3, <2>1, <2>2, <1>4 DEF CallOK
    <3> QED BY <3>2, <3>3
  <2>4. \A d \in Call : phase'[d] \in Live => phase[d] \in Live
    BY <1>4 DEF Live
  <2> QED BY <2>3, <2>4 DEF Calls
<1>8. Entries'
  <2> SUFFICES ASSUME NEW q \in Pair
               PROVE  /\ m_recv_info'[q] # None =>
                           phase'[m_recv_info'[q]] \in Live /\ ports'[m_recv_info'[q]] = q
                      /\ m_sent_info'[q] # None =>
                           phase'[m_sent_info'[q]] \in Live /\ ports'[m_sent_info'[q]] = q
    BY DEF Entries
  <2>1. CASE q = ports[c]
    BY <2>1, <1>4
  <2>2. CASE q # ports[c]
    BY <2>2, <1>4 DEF TypeOK, Entries
  <2> QED BY <2>1, <2>2
<1> QED BY <1>2, <1>3, <1>4, <1>5, <1>6, <1>7, <1>8

LEMMA StopCallInv ==
  ASSUME IInv, NEW w \in Worker, StopCall(w)
  PROVE  IInv'
<1> USE CidsFacts DEF StopCall, IInv
<1>0. /\ pc' = [pc EXCEPT ![w] = "idle"] /\ call' = [call EXCEPT ![w] = None]
      /\ pc' \in [Worker -> Label] /\ call' \in [Worker -> Call \cup {None}]
      /\ path' \in [Worker -> 1 .. 4] /\ target' \in [Worker -> Call \cup {None}]
      /\ pc'[w] = "idle" /\ call'[w] = None /\ path'[w] = 1
      /\ \A x \in Worker : x # w => /\ pc'[x] = pc[x] /\ call'[x] = call[x]
                                    /\ path'[x] = path[x] /\ target'[x] = target[x]
  BY ReturnFacts
<1>a. /\ call[w] \in Call /\ CallOK(call[w]) /\ WorkerOK(w)
      /\ phase[call[w]] = "stopping" /\ OnPort(w) = ports[call[w]]
  BY CallerFacts DEF Workers, WorkerOK
<1>b. \A d \in Call : /\ At(d, {"add_recv"})' <=> At(d, {"add_recv"})
                      /\ At(d, {"add_recv", "add_sent"})' <=>
                           At(d, {"add_recv", "add_sent"})
  BY <1>0 DEF At
<1>c. /\ m_recv_info' \in [Pair -> Call \cup {None}]
      /\ m_sent_info' \in [Pair -> Call \cup {None}]
      /\ m_num' \in [TypeName -> Nat]
      /\ channels' \subseteq channels /\ short_links' \subseteq short_links
      /\ kept' = kept
      /\ phase' \in [Call -> Phase]
      /\ CountersExact' /\ Calls' /\ Entries'
  BY <1>a, <1>b, CallGone
<1>d. \A d \in Call : phase'[d] = IF d = call[w] THEN "over" ELSE phase[d]
  BY DEF TypeOK
<1>1. TypeOK'
  BY <1>0, <1>c DEF TypeOK
<1>2. Workers'
  <2> SUFFICES ASSUME NEW x \in Worker PROVE WorkerOK(x)'
    BY DEF Workers
  <2>0. \A p \in todo[x] : \E d \in Call : phase'[d] = "stopping" /\ ports[d] = p
    <3> SUFFICES ASSUME NEW p \in todo[x]
                 PROVE  \E d \in Call : phase'[d] = "stopping" /\ ports[d] = p
      OBVIOUS
    <3>1. PICK d \in Call : phase[d] = "stopping" /\ ports[d] = p
      BY DEF Workers, WorkerOK
    <3>2. d # call[w]
      BY <3>1, <1>a DEF OneEach
    <3> QED BY <3>1, <3>2, <1>d
  <2>1. CASE x = w
    BY <2>0, <2>1, <1>0, <1>a DEF WorkerOK, Building, Starting
  <2>2. CASE x # w
    <3>1. WorkerOK(x) /\ call[x] # call[w]
      BY <2>2, OthersCall DEF Workers
    <3>2. call[x] \in Call => phase'[call[x]] = phase[call[x]]
      BY <3>1, <1>d
    <3>3. pc[x] \notin {"idle", "sweep"} => call[x] \in Call
      BY <3>1 DEF WorkerOK
    <3>4. m_path_status' = m_path_status /\ todo' = todo /\ ports' = ports
      OBVIOUS
    <3> QED BY <2>0, <2>2, <3>1, <3>2, <3>3, <3>4, <1>0 DEF WorkerOK, Building, Starting
  <2> QED BY <2>1, <2>2
<1>3. OneEach'
  BY <1>0 DEF OneEach
<1>4. Relay'
  BY <1>c DEF Relay, OwnPath
<1> QED BY <1>1, <1>2, <1>3, <1>4, <1>c

LEMMA ReceiveOfflineInv ==
  ASSUME IInv, NEW w \in Worker, ReceiveOffline(w)
  PROVE  IInv'
<1> USE CidsFacts DEF ReceiveOffline, Goto, IInv
<1>0. \A x \in Worker : call[x] = None /\ path[x] = 1 /\ todo[x] = {}
  BY DEF Workers, WorkerOK
<1>a. \A c \in Call : phase[c] = "up" => ports[c] \in Pair
  BY DEF Calls, CallOK, TypeOK
<1>b. \A c \in Call : /\ phase'[c] = IF phase[c] = "up" THEN "stopping" ELSE phase[c]
                      /\ phase'[c] # "starting" /\ phase'[c] # "building"
                      /\ phase'[c] \in Live <=> phase[c] \in Live
  BY DEF TypeOK, Live
<1>1. TypeOK'
  <2>1. phase' \in [Call -> Phase]
    BY DEF TypeOK, Phase
  <2>2. todo' \in [Worker -> SUBSET Pair]
    BY <1>a DEF TypeOK
  <2> QED BY <2>1, <2>2 DEF TypeOK, Label
<1>2. Workers'
  <2> SUFFICES ASSUME NEW x \in Worker PROVE WorkerOK(x)'
    BY DEF Workers
  <2>1. CASE x = w
    <3>1. /\ pc'[w] = "sweep"
          /\ todo'[w] = {ports[c] : c \in {d \in Call : phase[d] = "up"}}
      BY DEF TypeOK
    <3>2. \A p \in todo'[w] : \E c \in Call : phase'[c] = "stopping" /\ ports[c] = p
      BY <3>1, <1>b
    <3> QED BY <2>1, <3>1, <3>2, <1>0 DEF WorkerOK, Building, Starting
  <2>2. CASE x # w
    <3>1. pc'[x] = "idle" /\ todo'[x] = {} /\ call'[x] = None /\ path'[x] = 1
      BY <2>2, <1>0 DEF TypeOK
    <3> QED BY <3>1 DEF WorkerOK, Building, Starting
  <2> QED BY <2>1, <2>2
<1>3. OneEach'
  <2>1. \A x \in Worker : /\ pc'[x] # "del_info" /\ call'[x] = None
                          /\ x # w => todo'[x] = {}
    BY <1>0 DEF TypeOK
  <2> QED BY <2>1 DEF OneEach
<1>4. Calls'
  <2>1. \A d \in Call : /\ At(d, {"add_recv"})' <=> At(d, {"add_recv"})
                        /\ At(d, {"add_recv", "add_sent"})' <=>
                             At(d, {"add_recv", "add_sent"})
    BY <1>0 DEF At
  <2>2. \A d \in Call : CallOK(d)'
    BY <2>1, <1>b DEF Calls, CallOK
  <2> QED BY <2>2, <1>b DEF Calls
<1>5. Entries'
  BY <1>b DEF Entries, TypeOK
<1>6. CountersExact'
  BY DEF CountersExact
<1>7. Relay'
  <2> HIDE DEF ReceiveOffline
  <2>1. UNCHANGED <<r_pc, r_session, r_port, r_info, kept, channels, failed, ports>>
    BY DEF ReceiveOffline
  <2> QED BY <2>1 DEF Relay, OwnPath
<1> QED BY <1>1, <1>2, <1>3, <1>4, <1>5, <1>6, <1>7

\* The call whose pair a sweep takes.
LEMMA SweptCall ==
  ASSUME IInv, NEW w \in Worker, NEW p \in todo[w],
         phase' = [c \in Call |-> IF phase[c] = "stopping" /\ ports[c] = p
                                    THEN "over" ELSE phase[c]]
  PROVE  \E c \in Call : /\ phase[c] = "stopping" /\ ports[c] = p
                         /\ phase' = [phase EXCEPT ![c] = "over"]
                         /\ \A x \in Worker : call[x] # c
<1> USE CidsFacts DEF IInv
<1>1. PICK c \in Call : phase[c] = "stopping" /\ ports[c] = p
  BY DEF Workers, WorkerOK
<1>2. \A d \in Call : phase[d] = "stopping" /\ ports[d] = p => d = c
  BY <1>1 DEF Calls, Live
<1>3. phase' = [phase EXCEPT ![c] = "over"]
  BY <1>1, <1>2 DEF TypeOK
<1>4. ASSUME NEW x \in Worker, call[x] = c PROVE FALSE
  <2>1. pc[x] \notin {"idle", "sweep"} /\ WorkerOK(x)
    BY <1>4, CallAtWork DEF Workers
  <2>2. pc[x] = "del_info"
    BY <2>1, <1>4, <1>1 DEF WorkerOK, Starting, Building, TypeOK, Label
  <2> QED BY <2>2, <1>4, <1>1 DEF OneEach
<1> QED BY <1>1, <1>3, <1>4

LEMMA SweepInv ==
  ASSUME IInv, NEW w \in Worker, Sweep(w)
  PROVE  IInv'
<1> USE CidsFacts DEF Sweep, IInv
<1>a. CASE todo[w] = {} /\ Goto(w, "idle") /\ UNCHANGED <<tableVars, relayVars, todo, phase>>
  <2> USE <1>a DEF Goto
  <2>1. TypeOK'
    BY DEF TypeOK, Label
  <2>2. Workers'
    BY DEF TypeOK, Workers, WorkerOK, Building, Starting
  <2>3. OneEach'
    BY DEF TypeOK, OneEach
  <2>4. Calls'
    <3>1. \A d \in Call : /\ At(d, {"add_recv"})' <=> At(d, {"add_recv"})
                          /\ At(d, {"add_recv", "add_sent"})' <=>
                               At(d, {"add_recv", "add_sent"})
      BY DEF At, TypeOK
    <3> QED BY <3>1 DEF Calls, CallOK
  <2>5. CountersExact' /\ Entries' /\ Relay'
    BY DEF CountersExact, Entries, Relay, OwnPath
  <2> QED BY <2>1, <2>2, <2>3, <2>4, <2>5
<1>b. ASSUME NEW p \in todo[w], DelTransformInfo(p), UNCHANGED pc,
             todo' = [todo EXCEPT ![w] = @ \ {p}],
             phase' = [c \in Call |-> IF phase[c] = "stopping" /\ ports[c] = p
                                        THEN "over" ELSE phase[c]]
      PROVE  IInv'
  <2> USE <1>b
  <2>1. PICK c \in Call : /\ phase[c] = "stopping" /\ ports[c] = p
                          /\ phase' = [phase EXCEPT ![c] = "over"]
                          /\ \A x \in Worker : call[x] # c
    BY SweptCall
  <2>2. \A d \in Call : /\ At(d, {"add_recv"})' <=> At(d, {"add_recv"})
                        /\ At(d, {"add_recv", "add_sent"})' <=>
                             At(d, {"add_recv", "add_sent"})
    BY DEF At
  <2>3. /\ m_recv_info' \in [Pair -> Call \cup {None}]
        /\ m_sent_info' \in [Pair -> Call \cup {None}]
        /\ m_num' \in [TypeName -> Nat]
        /\ channels' \subseteq channels /\ short_links' \subseteq short_links
        /\ kept' = kept
        /\ phase' \in [Call -> Phase]
        /\ CountersExact' /\ Calls' /\ Entries'
    BY <2>1, <2>2, CallGone
  <2>4. \A d \in Call : phase'[d] = IF d = c THEN "over" ELSE phase[d]
    BY <2>1 DEF TypeOK
  <2>5. \A x \in Worker : todo'[x] = IF x = w THEN todo[w] \ {p} ELSE todo[x]
    BY DEF TypeOK
  <2>6. TypeOK'
    <3>1. todo' \in [Worker -> SUBSET Pair]
      BY DEF TypeOK
    <3> QED BY <3>1, <2>3 DEF TypeOK
  <2>7. Workers'
    <3> SUFFICES ASSUME NEW x \in Worker PROVE WorkerOK(x)'
      BY DEF Workers
    <3>1. WorkerOK(x)
      BY DEF Workers
    <3>2. ASSUME NEW q \in todo'[x]
          PROVE  \E d \in Call : phase'[d] = "stopping" /\ ports'[d] = q
      <4>1. q # p /\ q \in todo[x]
        BY <2>5 DEF OneEach
      <4>2. PICK d \in Call : phase[d] = "stopping" /\ ports[d] = q
        BY <4>1, <3>1 DEF WorkerOK
      <4> QED BY <4>1, <4>2, <2>1, <2>4
    <3>3. call[x] \in Call => phase'[call[x]] = phase[call[x]]
      BY <2>1, <2>4
    <3>4. pc[x] \notin {"idle", "sweep"} => call[x] \in Call
      BY <3>1 DEF WorkerOK
    <3>5. pc[x] # "sweep" => todo'[x] = {}
      BY <3>1, <2>5 DEF WorkerOK
    <3> QED BY <3>1, <3>2, <3>3, <3>4, <3>5 DEF WorkerOK, Building, Starting
  <2>8. OneEach'
    BY <2>5 DEF OneEach
  <2>9. Relay'
    BY <2>3 DEF Relay, OwnPath
  <2> QED BY <2>3, <2>6, <2>7, <2>8, <2>9
<1> QED BY <1>a, <1>b

-----------------------------------------------------------------------------
(* Every step keeps it: the relay client's thread. *)

\* What the relay thread does not touch stays true.
LEMMA RelayLeaves ==
  ASSUME IInv, UNCHANGED <<tableVars, m_path_status, workerVars, clientVars>>,
         \A c \in Call : /\ Len(m_cid'[c]) = PathNum(c)
                         /\ \A i \in 1 .. PathNum(c) : m_cid'[c][i] \in {0, Cids[c][i]}
  PROVE  CountersExact' /\ Workers' /\ OneEach' /\ Calls' /\ Entries'
<1> USE DEF IInv
<1>1. Workers'
  BY DEF Workers, WorkerOK
<1>2. CountersExact' /\ OneEach' /\ Entries'
  BY DEF CountersExact, OneEach, Entries
<1>3. Calls'
  BY DEF Calls, CallOK, At
<1> QED BY <1>1, <1>2, <1>3

LEMMA CidsStay ==
  ASSUME IInv, UNCHANGED m_cid
  PROVE  \A c \in Call : /\ Len(m_cid'[c]) = PathNum(c)
                         /\ \A i \in 1 .. PathNum(c) : m_cid'[c][i] \in {0, Cids[c][i]}
BY DEF IInv, Calls, CallOK

LEMMA KeepAliveFailsInv ==
  ASSUME IInv, NEW s \in Session, KeepAliveFails(s)
  PROVE  IInv'
<1> USE DEF KeepAliveFails, RGoto, IInv
<1>1. TypeOK'
  BY DEF TypeOK
<1>2. Relay'
  BY CidsFacts DEF TypeOK, Relay, OwnPath
<1> QED BY <1>1, <1>2, RelayLeaves, CidsStay

LEMMA FindInfoInv ==
  ASSUME IInv, FindInfo
  PROVE  IInv'
<1> USE DEF FindInfo, RGoto, IInv
<1>0. r_port \in Pair
  BY DEF Relay
<1>1. TypeOK'
  BY <1>0 DEF TypeOK
<1>2. Relay'
  BY <1>0 DEF TypeOK, Relay, OwnPath
<1> QED BY <1>1, <1>2, RelayLeaves, CidsStay

\* A list of cids in which some are set to 0.
LEMMA Cleared ==
  ASSUME NEW S, 0 \in S, NEW seq \in Seq(S), NEW found
  PROVE  LET new == [i \in DOMAIN seq |-> IF i \in found THEN 0 ELSE seq[i]]
         IN  /\ new \in Seq(S) /\ Len(new) = Len(seq)
             /\ \A i \in 1 .. Len(seq) : new[i] \in {0, seq[i]}
<1> DEFINE new == [i \in DOMAIN seq |-> IF i \in found THEN 0 ELSE seq[i]]
<1>1. /\ Len(seq) \in Nat /\ DOMAIN seq = 1 .. Len(seq)
      /\ \A i \in 1 .. Len(seq) : seq[i] \in S
  BY LenProperties
<1>2. new \in [1 .. Len(seq) -> S]
  BY <1>1
<1>3. new \in Seq(S)
  BY <1>1, <1>2
<1>4. Len(new) = Len(seq)
  BY <1>1, <1>3, <1>2, LenProperties
<1> QED BY <1>1, <1>3, <1>4

LEMMA RemoveCidInv ==
  ASSUME IInv, RemoveCid
  PROVE  IInv'
<1> USE DEF RemoveCid, RGoto, IInv
<1> DEFINE found == Places(r_info, r_session[2])
<1> HIDE DEF found
<1>0. /\ r_info \in Call /\ m_cid[r_info] \in Seq(Cid \cup {0})
      /\ Len(m_cid[r_info]) = PathNum(r_info) /\ PathNum(r_info) \in 0 .. 3
  BY CidsFacts DEF Relay, TypeOK, Calls, CallOK
<1>a. /\ m_cid'[r_info] \in Seq(Cid \cup {0})
      /\ Len(m_cid'[r_info]) = Len(m_cid[r_info])
      /\ \A i \in 1 .. Len(m_cid[r_info]) : m_cid'[r_info][i] \in {0, m_cid[r_info][i]}
  <2>1. m_cid'[r_info] = [i \in DOMAIN m_cid[r_info] |->
                            IF i \in found THEN 0 ELSE m_cid[r_info][i]]
    BY <1>0 DEF TypeOK, found
  <2>2. 0 \in Cid \cup {0}
    OBVIOUS
  <2> QED BY <1>0, <2>1, <2>2, Cleared
<1>b. \A c \in Call : c # r_info => m_cid'[c] = m_cid[c]
  BY <1>0 DEF TypeOK
<1>c. r_path_num' \in 0 .. 3
  <2>1. found \subseteq 1 .. PathNum(r_info)
    BY <1>0 DEF found, Places
  <2>2. IsFiniteSet(1 .. PathNum(r_info)) /\ Cardinality(1 .. PathNum(r_info)) = PathNum(r_info)
    BY <1>0, FS_Interval
  <2>3. Cardinality(found) \in Nat /\ Cardinality(found) <= PathNum(r_info)
    BY <2>1, <2>2, FS_Subset, FS_CardinalityType
  <2>4. r_path_num' = PathNum(r_info) - Cardinality(found)
    BY <1>0 DEF found
  <2> QED BY <2>3, <2>4, <1>0
<1>1. TypeOK'
  <2>1. m_cid' \in [Call -> Seq(Cid \cup {0})]
    BY <1>0, <1>a, <1>b DEF TypeOK
  <2> QED BY <2>1, <1>c DEF TypeOK
<1>2. \A c \in Call : /\ Len(m_cid'[c]) = PathNum(c)
                      /\ \A i \in 1 .. PathNum(c) : m_cid'[c][i] \in {0, Cids[c][i]}
  BY <1>0, <1>a, <1>b DEF Calls, CallOK
<1>3. Relay'
  BY DEF Relay, OwnPath
<1> QED BY <1>1, <1>2, <1>3, RelayLeaves

LEMMA ForgetSessionInv ==
  ASSUME IInv, ForgetSession
  PROVE  IInv'
<1> USE DEF ForgetSession, RGoto, IInv
<1>1. TypeOK'
  BY DEF TypeOK
<1>2. Relay'
  BY DEF TypeOK, Relay, OwnPath
<1> QED BY <1>1, <1>2, RelayLeaves, CidsStay

LEMMA DropChannelInv ==
  ASSUME IInv, DropChannel
  PROVE  IInv'
<1> USE DEF DropChannel, RGoto, IInv
<1>1. TypeOK'
  BY DEF TypeOK
<1>2. Relay'
  BY CidsFacts DEF TypeOK, Relay, OwnPath
<1> QED BY <1>1, <1>2, RelayLeaves, CidsStay

LEMMA NotifySipProxyInv ==
  ASSUME IInv, NotifySipProxy
  PROVE  IInv'
<1> USE DEF NotifySipProxy, IInv
<1>1. TypeOK'
  BY DEF TypeOK
<1>2. Relay'
  BY DEF TypeOK, Relay, OwnPath
<1> QED BY <1>1, <1>2, RelayLeaves, CidsStay

-----------------------------------------------------------------------------
LEMMA InitInv == Init => IInv
<1> SUFFICES ASSUME Init PROVE IInv
  OBVIOUS
<1> USE CidsFacts DEF Init
<1>1. TypeOK
  <2>1. m_cid \in [Call -> Seq(Cid \cup {0})]
    <3> SUFFICES ASSUME NEW c \in Call PROVE Cids[c] \in Seq(Cid \cup {0})
      BY CidsAssumption
    <3>1. Cids[c] \in Seq(Cid)
      OBVIOUS
    <3> QED BY <3>1
  <2> QED BY <2>1 DEF TypeOK, Label, Phase, TypeName
<1>2. Workers
  BY DEF Workers, WorkerOK, Starting, Building
<1>3. OneEach
  BY DEF OneEach
<1>4. Calls
  BY DEF Calls, CallOK, Live, PathNum
<1>5. Entries
  BY DEF Entries
<1>6. Relay
  BY DEF Relay
<1>7. CountersExact
  <2> SUFFICES ASSUME NEW t \in TypeName PROVE m_num[t] = Cardinality(Counted(t))
    BY DEF CountersExact, Counted
  <2>1. Counted(t) = {}
    BY DEF Counted
  <2> QED BY <2>1, FS_EmptySet
<1> QED BY <1>1, <1>2, <1>3, <1>4, <1>5, <1>6, <1>7 DEF IInv

LEMMA NextInv == IInv /\ [Next]_vars => IInv'
<1> SUFFICES ASSUME IInv, [Next]_vars PROVE IInv'
  OBVIOUS
<1>1. ASSUME NEW w \in Worker, Receive(w) PROVE IInv'
  BY <1>1, ReceiveStartInv, ReceiveBuildInv, ReceiveStopInv, ReceiveOfflineInv DEF Receive
<1>2. ASSUME NEW w \in Worker, Handle(w) PROVE IInv'
  BY <1>2, AddRecvInfoInv, AddSentInfoInv, AddShortLinkInv, BuildChannelInv,
     AddKeepAliveInv, ModifyFindInv, ModifyInv, AnswerInv, StopCallInv, SweepInv
  DEF Handle
<1>3. ASSUME NEW s \in Session, KeepAliveFails(s) PROVE IInv'
  BY <1>3, KeepAliveFailsInv
<1>4. CASE Failure
  BY <1>4, FindInfoInv, RemoveCidInv, ForgetSessionInv, DropChannelInv, NotifySipProxyInv
  DEF Failure
<1>5. CASE UNCHANGED vars
  <2>1. TypeOK' /\ Relay'
    BY <1>5 DEF vars, IInv, TypeOK, Relay, OwnPath
  <2> QED BY <1>5, <2>1, RelayLeaves, CidsStay DEF vars, IInv
<1> QED BY <1>1, <1>2, <1>3, <1>4, <1>5 DEF Next

\* Locals, entries and counters agree, in every reachable state.
THEOREM CallsInv == Spec => []IInv
BY InitInv, NextInv, PTL DEF Spec

-----------------------------------------------------------------------------
\* Every reachable state is well typed; m_num never goes below zero, which
\* needs the counters to be exact.
THEOREM TypeCorrect == Spec => []TypeOK
<1>1. IInv => TypeOK
  BY DEF IInv
<1> QED BY <1>1, CallsInv, PTL

\* The counters count the entries, though an insert may find one and the
\* entries of stopped calls are taken out by several threads.
THEOREM CountersRight == Spec => []CountersExact
<1>1. IInv => CountersExact
  BY DEF IInv
<1> QED BY <1>1, CallsInv, PTL

\* A call that was answered is the one both its ports serve.
THEOREM CallsServed == Spec => []StartedCallServed
<1>1. IInv => StartedCallServed
  <2> SUFFICES ASSUME IInv, NEW c \in Call, phase[c] \in {"up", "building"}
               PROVE  /\ m_recv_info[ports[c]] = c /\ m_sent_info[ports[c]] = c
                      /\ HasPath(c) => m_path_status[c] = "PS_SUC"
    BY DEF StartedCallServed
  <2>1. CallOK(c) /\ phase[c] \in Live
    BY DEF IInv, Calls, Live
  <2>2. ~ At(c, {"add_recv"}) /\ ~ At(c, {"add_recv", "add_sent"})
    BY DEF At, IInv, Workers, WorkerOK, Starting
  <2> QED BY <2>1, <2>2 DEF CallOK
<1> QED BY <1>1, CallsInv, PTL

-----------------------------------------------------------------------------
(* Channels.  The relay thread's claim to one that is listed no more begins *)
(* when it removes the cid and ends when it destroys the channel.           *)

Claimed(s) == r_session = s /\ r_pc \in {"session", "channel"}
BeingBuilt(c) == \E w \in Worker : call[w] = c /\ pc[w] \in Building
ChannelOK(s) == \/ phase[s[1]] \in Live /\ s[2] \in Listed(s[1])
                \/ BeingBuilt(s[1])
                \/ Claimed(s)
ChannelInv == \A s \in channels : ChannelOK(s)

\* A step that changes no list of cids, ends no building and no call, and
\* drops no claim.
LEMMA ChannelsStay ==
  ASSUME ChannelInv, channels' \subseteq channels, UNCHANGED m_cid,
         \A s \in channels : phase[s[1]] \in Live => phase'[s[1]] \in Live,
         \A c : BeingBuilt(c) => BeingBuilt(c)',
         \A s \in channels' : Claimed(s) => Claimed(s)'
  PROVE  ChannelInv'
BY DEF ChannelInv, ChannelOK, Listed

\* A call that is being built is neither stopped nor over.
LEMMA BuiltIsLive ==
  ASSUME IInv, NEW c, BeingBuilt(c)
  PROVE  c \in Call /\ phase[c] \in {"starting", "building"}
<1>1. PICK w \in Worker : call[w] = c /\ pc[w] \in Building
  BY DEF BeingBuilt
<1>2. WorkerOK(w) /\ pc[w] \notin {"idle", "sweep"}
  BY <1>1 DEF IInv, Workers, Building
<1>3. call[w] \in Call
  BY <1>2 DEF WorkerOK
<1>4. phase[call[w]] \in {"starting", "building"}
  BY <1>1, <1>2 DEF WorkerOK
<1> QED BY <1>1, <1>3, <1>4

\* When a call leaves the tables its listed channels go.
LEMMA ChannelsGone ==
  ASSUME IInv, ChannelInv, NEW c \in Call, phase[c] = "stopping",
         DelTransformInfo(ports[c]), m_recv_info[ports[c]] = c,
         phase' = [phase EXCEPT ![c] = "over"], UNCHANGED <<m_cid, threadVars>>,
         \A d : BeingBuilt(d) => BeingBuilt(d)'
  PROVE  ChannelInv'
<1> SUFFICES ASSUME NEW s \in channels' PROVE ChannelOK(s)'
  BY DEF ChannelInv
<1>1. channels' = channels \ {<<c, cid>> : cid \in Listed(c)}
  BY CidsFacts DEF DelTransformInfo
<1>2. s \in channels /\ s \in Session
  BY <1>1 DEF IInv, TypeOK
<1>3. CASE Claimed(s)
  BY <1>3 DEF ChannelOK, Claimed
<1>4. CASE BeingBuilt(s[1])
  BY <1>4 DEF ChannelOK
<1>5. CASE phase[s[1]] \in Live /\ s[2] \in Listed(s[1])
  <2>1. s = <<s[1], s[2]>> /\ s[1] \in Call
    BY <1>2 DEF Session
  <2>2. s[1] # c
    BY <1>1, <1>5, <2>1
  <2>3. phase'[s[1]] = phase[s[1]]
    BY <2>1, <2>2 DEF IInv, TypeOK
  <2> QED BY <1>5, <2>3 DEF ChannelOK, Listed
<1> QED BY <1>2, <1>3, <1>4, <1>5 DEF ChannelInv, ChannelOK

\* A session's cid tells its call.
LEMMA SessionsDiffer ==
  ASSUME IInv, CidsDiffer, NEW s \in Session, NEW r \in Session,
         OwnPath(s), OwnPath(r), s[2] = r[2]
  PROVE  s = r
<1>1. PICK i \in 1 .. PathNum(s[1]) : Cids[s[1]][i] = s[2]
  BY DEF OwnPath
<1>2. PICK j \in 1 .. PathNum(r[1]) : Cids[r[1]][j] = r[2]
  BY DEF OwnPath
<1>3. s[1] \in Call /\ r[1] \in Call /\ s = <<s[1], s[2]>> /\ r = <<r[1], r[2]>>
  BY DEF Session
<1>4. s[1] = r[1]
  BY <1>1, <1>2, <1>3 DEF CidsDiffer, PathNum
<1> QED BY <1>3, <1>4

LEMMA ChannelStep ==
  ASSUME IInv, IInv', CidsDiffer, ChannelInv, [Next]_vars
  PROVE  ChannelInv'
<1>1. ASSUME NEW w \in Worker, NEW c \in Call, NEW p \in Pair, ReceiveStart(w, c, p)
      PROVE  ChannelInv'
  <2>1. \A d : BeingBuilt(d) => BeingBuilt(d)'
    BY <1>1 DEF ReceiveStart, Goto, BeingBuilt, Building, IInv, TypeOK
  <2> QED BY <1>1, <2>1, ChannelsStay DEF ReceiveStart, Claimed, IInv, TypeOK, Live
<1>2. ASSUME NEW w \in Worker, NEW c \in Call, ReceiveBuild(w, c) \/ ReceiveStop(w, c)
      PROVE  ChannelInv'
  <2>1. \A d : BeingBuilt(d) => BeingBuilt(d)'
    BY <1>2 DEF ReceiveBuild, ReceiveStop, Goto, BeingBuilt, Building, IInv, TypeOK
  <2>2. \A d \in Call : phase[d] \in Live => phase'[d] \in Live
    BY <1>2 DEF ReceiveBuild, ReceiveStop, IInv, TypeOK, Live
  <2>3. \A s \in channels : s[1] \in Call
    BY DEF IInv, TypeOK, Session
  <2>4. channels' = channels /\ UNCHANGED <<m_cid, threadVars>>
    BY <1>2 DEF ReceiveBuild, ReceiveStop
  <2> QED BY <2>1, <2>2, <2>3, <2>4, ChannelsStay DEF Claimed
<1>3. ASSUME NEW w \in Worker, ReceiveOffline(w) PROVE ChannelInv'
  <2>1. \A d : ~ BeingBuilt(d)
    BY <1>3 DEF ReceiveOffline, BeingBuilt, Building
  <2>2. \A d \in Call : phase[d] \in Live => phase'[d] \in Live
    BY <1>3 DEF ReceiveOffline, IInv, TypeOK, Live
  <2>3. \A s \in channels : s[1] \in Call
    BY DEF IInv, TypeOK, Session
  <2>4. channels' = channels /\ UNCHANGED <<m_cid, threadVars>>
    BY <1>3 DEF ReceiveOffline
  <2> QED BY <2>1, <2>2, <2>3, <2>4, ChannelsStay DEF Claimed
<1>4. ASSUME NEW w \in Worker, AddRecvInfo(w) \/ AddSentInfo(w) \/ AddKeepAlive(w)
      PROVE  ChannelInv'
  <2>1. \A d : BeingBuilt(d) => BeingBuilt(d)'
    BY <1>4 DEF AddRecvInfo, AddSentInfo, AddKeepAlive, Goto, BeingBuilt, Building,
                IInv, TypeOK
  <2>2. channels' = channels /\ UNCHANGED <<m_cid, threadVars, phase>>
    BY <1>4 DEF AddRecvInfo, AddSentInfo, AddKeepAlive
  <2> QED BY <2>1, <2>2, ChannelsStay DEF Claimed
<1>5. ASSUME NEW w \in Worker, AddShortLink(w) PROVE ChannelInv'
  <2>1. \A d : BeingBuilt(d) => BeingBuilt(d)'
    BY <1>5 DEF AddShortLink, Return, Goto, BeingBuilt, Building, IInv, TypeOK
  <2>2. channels' = channels /\ UNCHANGED <<m_cid, threadVars, phase>>
    BY <1>5 DEF AddShortLink
  <2> QED BY <2>1, <2>2, ChannelsStay DEF Claimed
<1>6. ASSUME NEW w \in Worker, BuildChannel(w) PROVE ChannelInv'
  <2>1. \A d : BeingBuilt(d) => BeingBuilt(d)'
    BY <1>6 DEF BuildChannel, Goto, BeingBuilt, Building, IInv, TypeOK
  <2>2. \A s : s = PathSession(w) => BeingBuilt(s[1])'
    <3>1. call' = call /\ pc'[w] = "keep_alive"
      BY <1>6 DEF BuildChannel, Goto, IInv, TypeOK
    <3> QED BY <3>1 DEF BeingBuilt, Building, PathSession
  <2>3. /\ channels' = channels \cup {PathSession(w)}
        /\ UNCHANGED <<m_cid, threadVars, phase>>
    BY <1>6 DEF BuildChannel
  <2>4. \A s \in channels : ChannelOK(s)'
    BY <2>1, <2>3 DEF ChannelInv, ChannelOK, Listed, Claimed
  <2>5. \A s : s = PathSession(w) => ChannelOK(s)'
    BY <2>2, <2>3 DEF ChannelOK
  <2> QED BY <2>3, <2>4, <2>5 DEF ChannelInv
<1>7. ASSUME NEW w \in Worker, ModifyFind(w) PROVE ChannelInv'
  <2>0. m_recv_info[OnPort(w)] # None
    BY <1>7, CallerFacts, EntriesOf, CidsFacts DEF ModifyFind
  <2>1. \A d : BeingBuilt(d) => BeingBuilt(d)'
    BY <1>7, <2>0 DEF ModifyFind, Goto, BeingBuilt, Building, IInv, TypeOK
  <2>2. channels' = channels /\ UNCHANGED <<m_cid, threadVars, phase>>
    BY <1>7 DEF ModifyFind
  <2> QED BY <2>1, <2>2, ChannelsStay DEF Claimed
<1>8. ASSUME NEW w \in Worker, Modify(w) PROVE ChannelInv'
  <2>0. /\ call[w] \in Call /\ target[w] = call[w]
        /\ phase[call[w]] \in Live
    BY <1>8, CallerFacts DEF Modify, IInv, Workers, WorkerOK
  <2>1. /\ m_cid'[call[w]] = Cids[call[w]]
        /\ \A d \in Call : d # call[w] => m_cid'[d] = m_cid[d]
        /\ channels' = channels /\ UNCHANGED <<threadVars, phase, ports>>
    BY <1>8, <2>0 DEF Modify, IInv, TypeOK
  <2>2. \A d : d # call[w] => (BeingBuilt(d) => BeingBuilt(d)')
    BY <1>8 DEF Modify, Goto, BeingBuilt, Building, IInv, TypeOK
  <2> SUFFICES ASSUME NEW s \in channels PROVE ChannelOK(s)'
    BY <2>1 DEF ChannelInv
  <2>3. s \in Session /\ s[1] \in Call /\ OwnPath(s) /\ ChannelOK(s)
    BY DEF IInv, TypeOK, Relay, Session, ChannelInv
  <2>4. CASE s[1] = call[w]
    <3>1. PICK i \in 1 .. PathNum(s[1]) : Cids[s[1]][i] = s[2]
      BY <2>3 DEF OwnPath
    <3>2. s[2] \in Listed(s[1])'
      BY <3>1, <2>1, <2>3, <2>4, CidsFacts DEF Listed, PathNum
    <3> QED BY <3>2, <2>0, <2>1, <2>4 DEF ChannelOK
  <2>5. CASE s[1] # call[w]
    BY <2>1, <2>2, <2>3, <2>5 DEF ChannelOK, Listed, Claimed
  <2> QED BY <2>4, <2>5
<1>9. ASSUME NEW w \in Worker, Answer(w) PROVE ChannelInv'
  <2>1. \A d : BeingBuilt(d) => BeingBuilt(d)'
    BY <1>9 DEF Answer, Return, Goto, BeingBuilt, Building, IInv, TypeOK
  <2>2. channels' = channels /\ UNCHANGED <<m_cid, threadVars>>
    BY <1>9 DEF Answer
  <2>3. \A d \in Call : phase[d] \in Live => phase'[d] \in Live
    BY <1>9 DEF Answer, IInv, TypeOK, Live
  <2>4. \A s \in channels : s[1] \in Call
    BY DEF IInv, TypeOK, Session
  <2> QED BY <2>1, <2>2, <2>3, <2>4, ChannelsStay DEF Claimed
<1>10. ASSUME NEW w \in Worker, StopCall(w) PROVE ChannelInv'
  <2>1. \A d : BeingBuilt(d) => BeingBuilt(d)'
    BY <1>10 DEF StopCall, Return, Goto, BeingBuilt, Building, IInv, TypeOK
  <2>2. /\ call[w] \in Call /\ phase[call[w]] = "stopping"
        /\ OnPort(w) = ports[call[w]] /\ m_recv_info[ports[call[w]]] = call[w]
    BY <1>10, CallerFacts, EntriesOf DEF StopCall, IInv, Workers, WorkerOK
  <2>3. /\ phase' = [phase EXCEPT ![call[w]] = "over"]
        /\ UNCHANGED <<m_cid, threadVars>> /\ DelTransformInfo(ports[call[w]])
    BY <1>10, <2>2 DEF StopCall
  <2> QED BY <2>1, <2>2, <2>3, ChannelsGone
<1>11. ASSUME NEW w \in Worker, Sweep(w) PROVE ChannelInv'
  <2>1. CASE Goto(w, "idle") /\ UNCHANGED <<tableVars, relayVars, todo, phase>>
    <3>1. \A d : BeingBuilt(d) => BeingBuilt(d)'
      BY <1>11, <2>1 DEF Sweep, Goto, BeingBuilt, Building, IInv, TypeOK
    <3>2. UNCHANGED <<m_cid, threadVars>>
      BY <1>11 DEF Sweep
    <3> QED BY <2>1, <3>1, <3>2, ChannelsStay DEF Claimed
  <2>2. ASSUME NEW p \in todo[w], DelTransformInfo(p), UNCHANGED pc,
               phase' = [c \in Call |-> IF phase[c] = "stopping" /\ ports[c] = p
                                          THEN "over" ELSE phase[c]]
        PROVE  ChannelInv'
    <3>1. PICK c \in Call : /\ phase[c] = "stopping" /\ ports[c] = p
                            /\ phase' = [phase EXCEPT ![c] = "over"]
      BY <2>2, SweptCall
    <3>2. UNCHANGED <<m_cid, threadVars, call>>
      BY <1>11 DEF Sweep
    <3>3. \A d : BeingBuilt(d) => BeingBuilt(d)'
      BY <2>2, <3>2 DEF BeingBuilt
    <3>4. CallOK(c) /\ ~ At(c, {"add_recv"})
      BY <3>1 DEF IInv, Calls, At, Workers, WorkerOK, Starting
    <3>5. m_recv_info[ports[c]] = c
      BY <3>1, <3>4 DEF CallOK, Live
    <3> QED BY <2>2, <3>1, <3>2, <3>3, <3>5, ChannelsGone
  <2> QED BY <1>11, <2>1, <2>2 DEF Sweep
<1>12. ASSUME NEW s \in Session, KeepAliveFails(s) PROVE ChannelInv'
  <2>1. /\ UNCHANGED <<channels, m_cid, phase, call, pc>>
        /\ \A t : ~ Claimed(t)
    BY <1>12 DEF KeepAliveFails, Claimed
  <2> QED BY <2>1, ChannelsStay DEF BeingBuilt
<1>13. CASE FindInfo \/ NotifySipProxy
  <2>1. /\ UNCHANGED <<channels, m_cid, phase, call, pc>>
        /\ \A t : ~ Claimed(t)
    BY <1>13 DEF FindInfo, NotifySipProxy, Claimed
  <2> QED BY <2>1, ChannelsStay DEF BeingBuilt
<1>14. CASE ForgetSession
  <2>1. /\ UNCHANGED <<channels, m_cid, phase, call, pc, r_session>>
        /\ \A t : Claimed(t) => Claimed(t)'
    BY <1>14 DEF ForgetSession, RGoto, Claimed
  <2> QED BY <2>1, ChannelsStay DEF BeingBuilt
<1>15. CASE DropChannel
  <2>1. /\ UNCHANGED <<m_cid, phase, call, pc>>
        /\ channels' = channels \ {r_session}
    BY <1>15 DEF DropChannel
  <2>2. \A t \in channels' : ~ Claimed(t)
    BY <2>1 DEF Claimed
  <2> QED BY <2>1, <2>2, ChannelsStay DEF BeingBuilt
<1>16. CASE RemoveCid
  <2>0. /\ r_info \in Call /\ r_session \in Session /\ OwnPath(r_session)
        /\ m_cid[r_info] \in Seq(Cid \cup {0})
        /\ Len(m_cid[r_info]) = PathNum(r_info)
    BY <1>16 DEF RemoveCid, IInv, Relay, TypeOK, Calls, CallOK
  <2>1. /\ m_cid'[r_info] = [i \in DOMAIN m_cid[r_info] |->
              IF i \in Places(r_info, r_session[2]) THEN 0 ELSE m_cid[r_info][i]]
        /\ \A d \in Call : d # r_info => m_cid'[d] = m_cid[d]
        /\ UNCHANGED <<channels, phase, call, pc, r_session>> /\ r_pc' = "session"
    BY <1>16, <2>0 DEF RemoveCid, RGoto, IInv, TypeOK
  <2> SUFFICES ASSUME NEW s \in channels PROVE ChannelOK(s)'
    BY <2>1 DEF ChannelInv
  <2>2. s \in Session /\ s[1] \in Call /\ OwnPath(s) /\ ChannelOK(s)
    BY DEF IInv, TypeOK, Relay, Session, ChannelInv
  <2>3. CASE s = r_session
    BY <2>1, <2>3 DEF ChannelOK, Claimed
  <2>4. CASE s # r_session
    <3>1. s[2] # r_session[2]
      BY <2>0, <2>2, <2>4, SessionsDiffer
    <3>2. s[2] \in Listed(s[1]) => s[2] \in Listed(s[1])'
      <4>1. CASE s[1] = r_info
        <5>1. /\ DOMAIN m_cid[r_info] = 1 .. Len(m_cid[r_info])
              /\ Len(m_cid'[r_info]) = Len(m_cid[r_info])
              /\ m_cid'[r_info] \in Seq(Cid \cup {0})
          BY <2>0, <2>1, LenProperties, Cleared
        <5> QED BY <3>1, <4>1, <5>1, <2>1 DEF Listed, Places
      <4>2. CASE s[1] # r_info
        BY <2>1, <2>2, <4>2 DEF Listed
      <4> QED BY <4>1, <4>2
    <3>3. BeingBuilt(s[1]) => BeingBuilt(s[1])'
      BY <2>1 DEF BeingBuilt
    <3> QED BY <2>1, <2>2, <2>4, <3>2, <3>3 DEF ChannelOK, Claimed
  <2> QED BY <2>3, <2>4
<1>17. CASE UNCHANGED vars
  BY <1>17 DEF vars, ChannelInv, ChannelOK, Claimed, BeingBuilt, Listed
<1> QED BY <1>1, <1>2, <1>3, <1>4, <1>5, <1>6, <1>7, <1>8, <1>9, <1>10, <1>11,
           <1>12, <1>13, <1>14, <1>15, <1>16, <1>17
        DEF Next, Receive, Handle, Failure

\* Every channel is one a live call lists, or a thread is about to list or to
\* destroy it, when cids of different calls differ.
THEOREM ChannelsHaveOwners == Spec => []ChannelsAccounted
<1>1. CASE CidsDiffer
  <2>1. Init => ChannelInv
    BY DEF Init, ChannelInv
  <2>2. ChannelInv => ChannelsAccounted
    BY DEF ChannelInv, ChannelOK, ChannelsAccounted, BeingBuilt, Building, Claimed
  <2> QED BY <1>1, <2>1, <2>2, ChannelStep, CallsInv, PTL DEF Spec
<1>2. CASE ~ CidsDiffer
  <2>1. ChannelsAccounted
    BY <1>2 DEF ChannelsAccounted
  <2> QED BY <2>1, PTL
<1> QED BY <1>1, <1>2

-----------------------------------------------------------------------------
(* Reports.  A failure that ends a call's paths is on its way to the        *)
(* SipProxy while the relay thread goes on to the notice.                   *)

OnItsWay(c) == /\ r_info = c /\ r_path_num = 0
               /\ r_pc \in {"session", "channel", "notify"}
ReportInv == /\ r_pc = "idle" => r_info = None
             /\ \A c \in Call : PathNum(c) = 1 /\ Listed(c) = {} =>
                                  c \in notified \/ OnItsWay(c)
ReportedInv == \A c \in Call : c \in notified \/ OnItsWay(c) =>
                                 (HasPath(c) => OwnPathsFailed(c))

\* What a list of one cid looks like.
LEMMA OneCid ==
  ASSUME IInv, NEW c \in Call, PathNum(c) = 1
  PROVE  Listed(c) = {} <=> m_cid[c][1] = 0
<1>1. m_cid[c] \in Seq(Cid \cup {0}) /\ Len(m_cid[c]) = 1
  BY DEF IInv, TypeOK, Calls, CallOK
<1> QED BY <1>1 DEF Listed

\* What removing a cid tells of the number of paths that are left.
LEMMA RemoveCidFacts ==
  ASSUME IInv, RemoveCid
  PROVE  /\ r_info \in Call /\ r_session \in failed /\ r_session \in Session
         /\ OwnPath(r_session) /\ r_session[2] # 0
         /\ \A d \in Call : d # r_info => m_cid'[d] = m_cid[d]
         /\ PathNum(r_info) = 1 /\ m_cid[r_info][1] # 0 /\ m_cid'[r_info][1] = 0
              => r_path_num' = 0
         /\ r_path_num' = 0 => \A i \in 1 .. PathNum(r_info) :
                                 Cids[r_info][i] = r_session[2]
<1> DEFINE n == PathNum(r_info)
           found == Places(r_info, r_session[2])
<1>1. /\ r_info \in Call /\ r_session \in failed /\ r_session \in Session
      /\ OwnPath(r_session) /\ CallOK(r_info)
      /\ m_cid[r_info] \in Seq(Cid \cup {0})
  BY DEF RemoveCid, IInv, Relay, TypeOK, Calls
<1>2. r_session[2] # 0
  BY <1>1, CidsFacts DEF OwnPath, Session
<1>3. /\ r_path_num' = Len(m_cid[r_info]) - Cardinality(found)
      /\ \A d \in Call : d # r_info => m_cid'[d] = m_cid[d]
      /\ m_cid'[r_info] = [i \in DOMAIN m_cid[r_info] |->
                             IF i \in found THEN 0 ELSE m_cid[r_info][i]]
  BY <1>1 DEF RemoveCid, IInv, TypeOK
<1>4. /\ Len(m_cid[r_info]) = n /\ n \in Nat
      /\ \A i \in 1 .. n : m_cid[r_info][i] \in {0, Cids[r_info][i]}
  BY <1>1, CidsFacts DEF CallOK
<1>5. DOMAIN m_cid[r_info] = 1 .. n
  BY <1>1, <1>4, LenProperties
<1>6. /\ found \subseteq 1 .. n
      /\ \A i \in 1 .. n : i \in found <=> m_cid[r_info][i] = r_session[2]
  BY <1>4 DEF Places
<1> HIDE DEF found, n
<1>7. IsFiniteSet(1 .. n) /\ Cardinality(1 .. n) = n
  <2>1. n \in Int /\ 1 \in Int /\ (1 > n => n = 0) /\ n - 1 + 1 = n
    BY <1>4
  <2> QED BY <2>1, FS_Interval
<1>8. ASSUME n = 1, m_cid[r_info][1] # 0, m_cid'[r_info][1] = 0 PROVE r_path_num' = 0
  <2>1. found = {1}
    <3>1. 1 .. n = {1}
      BY <1>8
    <3>2. 1 \in found
      BY <3>1, <1>3, <1>5, <1>8
    <3> QED BY <3>1, <3>2, <1>6
  <2>2. Cardinality(found) = 1
    BY <2>1, FS_Singleton
  <2> QED BY <2>2, <1>3, <1>4, <1>8
<1>9. ASSUME r_path_num' = 0, NEW i \in 1 .. n PROVE Cids[r_info][i] = r_session[2]
  <2>1. Cardinality(found) \in Nat
    BY <1>6, <1>7, FS_Subset, FS_CardinalityType
  <2>2. Cardinality(found) = n
    BY <2>1, <1>3, <1>4, <1>9
  <2>3. found = 1 .. n
    BY <2>2, <1>6, <1>7, FS_Subset
  <2> QED BY <2>3, <1>2, <1>4, <1>6
<1> QED BY <1>1, <1>2, <1>3, <1>8, <1>9 DEF n

\* Steps that leave the relay thread, the reports and the lists alone.
LEMMA OtherSteps ==
  ASSUME IInv, [Next]_vars
  PROVE  \/ UNCHANGED <<threadVars, notified, failed, m_cid>>
         \/ \E w \in Worker : Modify(w)
         \/ \E s \in Session : KeepAliveFails(s)
         \/ Failure
<1>1. ASSUME NEW w \in Worker, Receive(w)
      PROVE  UNCHANGED <<threadVars, notified, failed, m_cid>>
  BY <1>1 DEF Receive, ReceiveStart, ReceiveBuild, ReceiveStop, ReceiveOffline
<1>2. ASSUME NEW w \in Worker, Handle(w), ~ Modify(w)
      PROVE  UNCHANGED <<threadVars, notified, failed, m_cid>>
  BY <1>2 DEF Handle, AddRecvInfo, AddSentInfo, AddShortLink, BuildChannel, AddKeepAlive,
              ModifyFind, Answer, StopCall, Sweep
<1>3. ASSUME UNCHANGED vars PROVE UNCHANGED <<threadVars, notified, failed, m_cid>>
  BY <1>3 DEF vars
<1> QED BY <1>1, <1>2, <1>3 DEF Next

\* Storing the cids built.
LEMMA ModifyFacts ==
  ASSUME IInv, NEW w \in Worker, Modify(w)
  PROVE  /\ call[w] \in Call /\ m_cid'[call[w]] = Cids[call[w]]
         /\ \A d \in Call : d # call[w] => m_cid'[d] = m_cid[d]
         /\ UNCHANGED <<threadVars, notified, failed>>
<1>1. call[w] \in Call /\ target[w] = call[w]
  BY CallerFacts DEF Modify, IInv, Workers, WorkerOK
<1> QED BY <1>1 DEF Modify, IInv, TypeOK

LEMMA ReportStep ==
  ASSUME IInv, IInv', ReportInv, [Next]_vars
  PROVE  ReportInv'
<1>1. CASE UNCHANGED <<threadVars, notified, failed, m_cid>>
  BY <1>1 DEF ReportInv, OnItsWay, Listed
<1>2. ASSUME NEW w \in Worker, Modify(w) PROVE ReportInv'
  <2>1. /\ call[w] \in Call /\ m_cid'[call[w]] = Cids[call[w]]
        /\ \A d \in Call : d # call[w] => m_cid'[d] = m_cid[d]
        /\ UNCHANGED <<threadVars, notified, failed>>
    BY <1>2, ModifyFacts
  <2> SUFFICES ASSUME NEW c \in Call, PathNum(c) = 1, Listed(c)' = {}
               PROVE  c \in notified' \/ OnItsWay(c)'
    BY <2>1 DEF ReportInv
  <2>2. c # call[w]
    <3> SUFFICES ASSUME c = call[w] PROVE FALSE
      OBVIOUS
    <3>1. Cids[c][1] # 0
      BY CidsFacts
    <3>2. m_cid'[c] = Cids[c] /\ Len(Cids[c]) = 1
      BY <2>1 DEF PathNum
    <3> QED BY <3>1, <3>2 DEF Listed
  <2>3. Listed(c) = {}
    BY <2>1, <2>2 DEF Listed
  <2> QED BY <2>1, <2>3 DEF ReportInv, OnItsWay
<1>3. ASSUME NEW s \in Session, KeepAliveFails(s) PROVE ReportInv'
  <2>1. /\ r_pc = "idle" /\ r_pc' # "idle" /\ UNCHANGED <<notified, m_cid>>
    BY <1>3 DEF KeepAliveFails, RGoto
  <2> QED BY <2>1 DEF ReportInv, OnItsWay, Listed
<1>4. CASE FindInfo \/ ForgetSession \/ DropChannel
  <2>1. /\ r_pc' # "idle" /\ UNCHANGED <<notified, m_cid>>
        /\ \A c : OnItsWay(c) => OnItsWay(c)'
    BY <1>4 DEF FindInfo, ForgetSession, DropChannel, RGoto, OnItsWay
  <2> QED BY <2>1 DEF ReportInv, Listed
<1>5. CASE RemoveCid
  <2>1. /\ r_info \in Call
        /\ \A d \in Call : d # r_info => m_cid'[d] = m_cid[d]
        /\ PathNum(r_info) = 1 /\ m_cid[r_info][1] # 0 /\ m_cid'[r_info][1] = 0
             => r_path_num' = 0
    BY <1>5, RemoveCidFacts
  <2>2. r_pc = "remove_cid" /\ r_pc' = "session" /\ UNCHANGED <<notified, r_info>>
    BY <1>5 DEF RemoveCid, RGoto
  <2> SUFFICES ASSUME NEW c \in Call, PathNum(c) = 1, Listed(c)' = {}
               PROVE  c \in notified' \/ OnItsWay(c)'
    BY <2>2 DEF ReportInv
  <2>3. Listed(c) = {} => c \in notified
    BY <2>2 DEF ReportInv, OnItsWay
  <2>4. CASE Listed(c) = {}
    BY <2>2, <2>3, <2>4
  <2>5. CASE Listed(c) # {}
    <3>1. c = r_info
      BY <2>1, <2>5 DEF Listed
    <3>2. m_cid[c][1] # 0 /\ m_cid'[c][1] = 0
      <4>1. m_cid[c][1] # 0
        BY <2>5, OneCid
      <4>2. /\ m_cid'[c] \in Seq(Cid \cup {0}) /\ Len(m_cid'[c]) = 1
        <5>1. TypeOK' /\ CallOK(c)'
          BY DEF IInv, Calls
        <5> QED BY <5>1 DEF TypeOK, CallOK
      <4> QED BY <4>1, <4>2 DEF Listed
    <3> QED BY <3>1, <3>2, <2>1, <2>2 DEF OnItsWay
  <2> QED BY <2>4, <2>5
<1>6. CASE NotifySipProxy
  <2>1. /\ r_pc' = "idle" /\ r_info' = None /\ UNCHANGED m_cid
        /\ \A c \in Call : c \in notified \/ OnItsWay(c) => c \in notified'
    BY <1>6, CidsFacts DEF NotifySipProxy, OnItsWay
  <2> QED BY <2>1 DEF ReportInv, Listed
<1> QED BY <1>1, <1>2, <1>3, <1>4, <1>5, <1>6, OtherSteps DEF Failure

\* A call whose only path has failed is reported, whenever the failure comes
\* in the life of the call.
THEOREM OnePathReported == Spec => []OnePathFailureReported
<1>1. Init => ReportInv
  <2> SUFFICES ASSUME Init, NEW c \in Call, PathNum(c) = 1 PROVE Listed(c) # {}
    BY DEF ReportInv, Init
  <2> QED BY CidsFacts DEF Init, Listed, PathNum
<1>2. IInv /\ ReportInv => OnePathFailureReported
  <2> SUFFICES ASSUME IInv, ReportInv, NEW p \in Pair, NEW c \in {m_recv_info[p]} \ {None},
                      AllPathsGone(c), Len(Cids[c]) = 1
               PROVE  c \in notified
    BY DEF OnePathFailureReported
  <2>1. c \in Call
    BY DEF IInv, TypeOK
  <2> QED BY <2>1 DEF ReportInv, OnItsWay, AllPathsGone, PathNum
<1> QED BY <1>1, <1>2, ReportStep, CallsInv, PTL DEF Spec

LEMMA ReportedStep ==
  ASSUME IInv, IInv', CidsDiffer, ReportedInv, [Next]_vars
  PROVE  ReportedInv'
<1>1. CASE UNCHANGED <<threadVars, notified, failed, m_cid>>
  BY <1>1 DEF ReportedInv, OnItsWay, OwnPathsFailed, HasPath
<1>2. ASSUME NEW w \in Worker, Modify(w) PROVE ReportedInv'
  BY <1>2 DEF Modify, ReportedInv, OnItsWay, OwnPathsFailed, HasPath
<1>3. ASSUME NEW s \in Session, KeepAliveFails(s) PROVE ReportedInv'
  <2>1. r_pc' = "find" /\ notified' = notified /\ failed \subseteq failed'
    BY <1>3 DEF KeepAliveFails, RGoto
  <2> QED BY <2>1 DEF ReportedInv, OnItsWay, OwnPathsFailed, HasPath
<1>4. CASE FindInfo
  <2>1. notified' = notified /\ failed' = failed /\ \A c \in Call : ~ OnItsWay(c)'
    BY <1>4, CidsFacts DEF FindInfo, RGoto, OnItsWay
  <2> QED BY <2>1 DEF ReportedInv, OwnPathsFailed, HasPath
<1>5. CASE ForgetSession \/ DropChannel
  <2>1. /\ notified' = notified /\ failed' = failed
        /\ \A c \in Call : OnItsWay(c)' => OnItsWay(c)
    BY <1>5 DEF ForgetSession, DropChannel, RGoto, OnItsWay
  <2> QED BY <2>1 DEF ReportedInv, OwnPathsFailed, HasPath
<1>6. CASE RemoveCid
  <2>1. /\ r_info \in Call /\ r_session \in failed /\ r_session \in Session
        /\ OwnPath(r_session)
        /\ r_path_num' = 0 => \A i \in 1 .. PathNum(r_info) :
                                Cids[r_info][i] = r_session[2]
    BY <1>6, RemoveCidFacts
  <2>2. r_info' = r_info /\ notified' = notified /\ failed' = failed
    BY <1>6 DEF RemoveCid
  <2> SUFFICES ASSUME NEW c \in Call, c \in notified' \/ OnItsWay(c)', HasPath(c)
               PROVE  OwnPathsFailed(c)'
    BY DEF ReportedInv
  <2>3. CASE c \in notified
    BY <2>2, <2>3 DEF ReportedInv, OwnPathsFailed
  <2>4. CASE c \notin notified
    <3>1. c = r_info /\ r_path_num' = 0
      BY <2>2, <2>4 DEF OnItsWay
    <3>2. ASSUME NEW i \in 1 .. PathNum(c) PROVE <<c, Cids[c][i]>> = r_session
      <4>1. Cids[c][i] = r_session[2]
        BY <3>1, <2>1
      <4>2. PICK j \in 1 .. PathNum(r_session[1]) : Cids[r_session[1]][j] = r_session[2]
        BY <2>1 DEF OwnPath
      <4>3. r_session[1] \in Call /\ r_session = <<r_session[1], r_session[2]>>
        BY <2>1 DEF Session
      <4>4. r_session[1] = c
        BY <4>1, <4>2, <4>3 DEF CidsDiffer, PathNum
      <4> QED BY <4>1, <4>3, <4>4
    <3> QED BY <3>2, <2>1, <2>2 DEF OwnPathsFailed, PathNum
  <2> QED BY <2>3, <2>4
<1>7. CASE NotifySipProxy
  <2>1. /\ failed' = failed
        /\ \A c \in Call : c \in notified' \/ OnItsWay(c)' => c \in notified \/ OnItsWay(c)
    <3>1. \A c \in Call : ~ OnItsWay(c)'
      BY <1>7, CidsFacts DEF NotifySipProxy, OnItsWay
    <3> QED BY <1>7, <3>1 DEF NotifySipProxy, OnItsWay
  <2> QED BY <2>1 DEF ReportedInv, OwnPathsFailed, HasPath
<1> QED BY <1>1, <1>2, <1>3, <1>4, <1>5, <1>6, <1>7, OtherSteps DEF Failure

\* A call with paths is reported only after each of them has failed, when
\* cids of different calls differ.
THEOREM ReportsAreRight == Spec => []PathCallReportedRightly
<1>1. CASE CidsDiffer
  <2>1. Init => ReportedInv
    BY DEF Init, ReportedInv, OnItsWay
  <2>2. IInv /\ ReportedInv => PathCallReportedRightly
    BY DEF IInv, TypeOK, ReportedInv, PathCallReportedRightly
  <2> QED BY <1>1, <2>1, <2>2, ReportedStep, CallsInv, PTL DEF Spec
<1>2. CASE ~ CidsDiffer
  <2>1. PathCallReportedRightly
    BY <1>2 DEF PathCallReportedRightly
  <2> QED BY <2>1, PTL
<1> QED BY <1>1, <1>2

-----------------------------------------------------------------------------
(***************************************************************************)
(* CallPaths implements CallTable: whatever the workers and the relay      *)
(* thread do, for any number of calls and threads, the entries, cids and   *)
(* sessions that the forwarding of media reads change only as CallTable    *)
(* allows.  Each step of CallPaths is one step of CallTable or none.       *)
(***************************************************************************)

Over == {c \in Call : phase[c] = "over"}

\* The part of the state CallTable sees, but for the calls that are over.
seen == <<ports, m_recv_info, m_sent_info, m_cid, m_path_status,
          m_session_to_port_map, failed>>

\* A step CallTable does not see.
LEMMA QuietSteps ==
  ASSUME UNCHANGED seen, \A c \in Call : phase'[c] = "over" <=> phase[c] = "over"
  PROVE  UNCHANGED Table!tableVars
BY DEF seen, Table!tableVars

\* A path of a call is one that is relayed.
LEMMA PathIsRelayed ==
  ASSUME IInv, NEW s \in Session, OwnPath(s)
  PROVE  Table!HasPath(s)
<1>1. PICK i \in 1 .. PathNum(s[1]) : Cids[s[1]][i] = s[2]
  BY DEF OwnPath
<1>2. s[1] \in Call /\ Cids[s[1]] \in Seq(Cid) /\ PathNum(s[1]) # 0
  BY <1>1, CidsFacts DEF Session
<1>3. CallType[s[1]] = "CT_TRANSFORM"
  BY <1>2, CidsFacts
<1>4. i \in DOMAIN Cids[s[1]]
  BY <1>1, <1>2, LenProperties DEF PathNum
<1> QED BY <1>1, <1>3, <1>4 DEF Table!HasPath, OwnPath

-----------------------------------------------------------------------------
LEMMA RequestStep ==
  ASSUME IInv, NEW w \in Worker, NEW c \in Call, NEW p \in Pair, ReceiveStart(w, c, p)
  PROVE  Table!Request(c, p)
<1>1. ports[c] = None
  BY DEF ReceiveStart, IInv, Calls, CallOK
<1>2. ASSUME NEW d \in Call, ports[d] = p PROVE phase[d] = "over"
  <2>1. phase[d] # "new" /\ phase[d] \notin Live /\ phase[d] \in Phase
    BY <1>2, CidsFacts DEF ReceiveStart, IInv, TypeOK, Calls, CallOK
  <2> QED BY <2>1 DEF Phase, Live
<1>3. \A d \in Call : phase'[d] = "over" <=> phase[d] = "over"
  BY DEF ReceiveStart, IInv, TypeOK
<1>4. Over' = Over
  BY <1>3 DEF Over
<1> QED BY <1>1, <1>2, <1>4 DEF ReceiveStart, Table!Request, Over

LEMMA AddRecvStep ==
  ASSUME IInv, NEW w \in Worker, AddRecvInfo(w)
  PROVE  Table!AddRecv(call[w])
<1>1. /\ call[w] \in Call /\ OnPort(w) \in Pair /\ OnPort(w) = ports[call[w]]
      /\ phase[call[w]] \in Live
  BY CallerFacts DEF AddRecvInfo
<1>2. m_recv_info[OnPort(w)] = None
  BY EntriesOf DEF AddRecvInfo
<1>3. m_recv_info' = [m_recv_info EXCEPT ![ports[call[w]]] = call[w]]
  BY <1>1, <1>2 DEF AddRecvInfo, Inserted
<1>4. ports[call[w]] # None /\ phase[call[w]] # "over"
  BY <1>1, CidsFacts DEF Live
<1> QED BY <1>1, <1>2, <1>3, <1>4 DEF AddRecvInfo, Table!AddRecv

LEMMA AddSentStep ==
  ASSUME IInv, NEW w \in Worker, AddSentInfo(w)
  PROVE  Table!AddSent(call[w])
<1>1. /\ call[w] \in Call /\ OnPort(w) \in Pair /\ OnPort(w) = ports[call[w]]
  BY CallerFacts DEF AddSentInfo
<1>2. m_sent_info[OnPort(w)] = None /\ m_recv_info[OnPort(w)] = call[w]
  BY EntriesOf DEF AddSentInfo
<1>3. m_sent_info' = [m_sent_info EXCEPT ![ports[call[w]]] = call[w]]
  BY <1>1, <1>2 DEF AddSentInfo, Inserted
<1> QED BY <1>1, <1>2, <1>3, CidsFacts DEF AddSentInfo, Table!AddSent

LEMMA AddSessionStep ==
  ASSUME IInv, NEW w \in Worker, BuildChannel(w)
  PROVE  Table!AddSession(PathSession(w)) \/ UNCHANGED Table!tableVars
<1>1. /\ call[w] \in Call /\ OnPort(w) = ports[call[w]]
      /\ PathSession(w) \in Session /\ PathSession(w)[1] = call[w]
      /\ OwnPath(PathSession(w)) /\ m_sent_info[OnPort(w)] = call[w]
  BY CallerFacts, PathFacts, EntriesOf DEF BuildChannel
<1>2. Table!HasPath(PathSession(w))
  BY <1>1, PathIsRelayed
<1>3. CASE m_session_to_port_map[PathSession(w)] = None
  <2>1. m_session_to_port_map' =
          [m_session_to_port_map EXCEPT ![PathSession(w)] = ports[call[w]]]
    BY <1>1, <1>3 DEF BuildChannel, Inserted
  <2> QED BY <1>1, <1>2, <1>3, <2>1 DEF BuildChannel, Table!AddSession
<1>4. CASE m_session_to_port_map[PathSession(w)] # None
  <2>1. UNCHANGED m_session_to_port_map
    BY <1>4 DEF BuildChannel, Inserted
  <2> QED BY <2>1, QuietSteps DEF BuildChannel, seen
<1> QED BY <1>3, <1>4

LEMMA SetPathsStep ==
  ASSUME IInv, NEW w \in Worker, Modify(w)
  PROVE  Table!SetPaths(call[w])
<1>1. /\ call[w] \in Call /\ OnPort(w) \in Pair /\ OnPort(w) = ports[call[w]]
      /\ m_sent_info[OnPort(w)] = call[w]
  BY CallerFacts, EntriesOf DEF Modify
<1>2. target[w] = call[w] /\ HasPath(call[w])
  BY DEF Modify, IInv, Workers, WorkerOK, Building
<1> QED BY <1>1, <1>2, CidsFacts DEF Modify, HasPath, Table!SetPaths

\* A stopping call leaves the tables.
LEMMA StopStep ==
  ASSUME IInv, NEW c \in Call, phase[c] = "stopping", DelTransformInfo(ports[c]),
         phase' = [phase EXCEPT ![c] = "over"],
         UNCHANGED <<infoVars, ports, m_session_to_port_map, failed>>
  PROVE  Table!Stop(c)
<1>1. CallOK(c) /\ ports[c] \in Pair
  BY DEF IInv, Calls, CallOK, TypeOK, Live
<1>2. ~ At(c, {"add_recv", "add_sent"})
  BY DEF At, IInv, Workers, WorkerOK, Starting
<1>3. m_sent_info[ports[c]] = c
  BY <1>1, <1>2 DEF CallOK, Live
<1>4. /\ m_recv_info' = [m_recv_info EXCEPT ![ports[c]] = None]
      /\ m_sent_info' = [m_sent_info EXCEPT ![ports[c]] = None]
  BY DEF DelTransformInfo
<1>5. Over' = Over \cup {c} /\ c \notin Over
  BY DEF Over, IInv, TypeOK
<1> QED BY <1>1, <1>3, <1>4, <1>5, CidsFacts DEF Table!Stop, Over

LEMMA RemoveFailedStep ==
  ASSUME IInv, RemoveCid
  PROVE  Table!RemoveFailed(r_info, r_session)
<1>1. r_info \in Call /\ r_session \in failed
  BY RemoveCidFacts
<1>2. m_cid[r_info] \in Seq(Cid \cup {0})
  BY <1>1 DEF IInv, TypeOK
<1>3. \A i \in DOMAIN m_cid[r_info] :
        i \in Places(r_info, r_session[2]) <=> m_cid[r_info][i] = r_session[2]
  BY <1>2, LenProperties DEF Places
<1>4. m_cid' = [m_cid EXCEPT ![r_info] =
                  [i \in DOMAIN @ |-> IF @[i] = r_session[2] THEN 0 ELSE @[i]]]
  BY <1>1, <1>3 DEF RemoveCid
<1> QED BY <1>1, <1>4 DEF RemoveCid, Table!RemoveFailed

-----------------------------------------------------------------------------
LEMMA TableStep ==
  ASSUME IInv, [Next]_vars
  PROVE  Table!TableNext \/ UNCHANGED Table!tableVars
<1> DEFINE Goal == Table!TableNext \/ UNCHANGED Table!tableVars
<1> USE DEF Table!TableNext
<1>1. ASSUME NEW w \in Worker, Receive(w) PROVE Goal
  <2>1. ASSUME NEW c \in Call, NEW p \in Pair, ReceiveStart(w, c, p) PROVE Goal
    BY <2>1, RequestStep
  <2>2. ASSUME NEW c \in Call, ReceiveBuild(w, c) \/ ReceiveStop(w, c) PROVE Goal
    <3>1. UNCHANGED seen
      BY <2>2 DEF ReceiveBuild, ReceiveStop, seen
    <3>2. \A d \in Call : phase'[d] = "over" <=> phase[d] = "over"
      BY <2>2 DEF ReceiveBuild, ReceiveStop, IInv, TypeOK
    <3> QED BY <3>1, <3>2, QuietSteps
  <2>3. ASSUME ReceiveOffline(w) PROVE Goal
    <3>1. UNCHANGED seen
      BY <2>3 DEF ReceiveOffline, seen
    <3>2. \A d \in Call : phase'[d] = "over" <=> phase[d] = "over"
      BY <2>3 DEF ReceiveOffline, IInv, TypeOK
    <3> QED BY <3>1, <3>2, QuietSteps
  <2> QED BY <1>1, <2>1, <2>2, <2>3 DEF Receive
<1>2. ASSUME NEW w \in Worker, Handle(w) PROVE Goal
  <2>1. ASSUME AddRecvInfo(w) \/ AddSentInfo(w) \/ Modify(w) PROVE Goal
    <3>1. call[w] \in Call
      BY <2>1, CallerFacts DEF AddRecvInfo, AddSentInfo, Modify
    <3> QED BY <2>1, <3>1, AddRecvStep, AddSentStep, SetPathsStep
  <2>2. ASSUME BuildChannel(w) PROVE Goal
    <3>1. PathSession(w) \in Session
      BY <2>2, PathFacts DEF BuildChannel
    <3>2. Session = Table!Session
      BY DEF Session, Cid, Table!Session, Table!Cid
    <3> QED BY <2>2, <3>1, <3>2, AddSessionStep
  <2>3. ASSUME AddShortLink(w) \/ AddKeepAlive(w) \/ ModifyFind(w) PROVE Goal
    <3>1. UNCHANGED <<seen, phase>>
      BY <2>3 DEF AddShortLink, AddKeepAlive, ModifyFind, seen
    <3> QED BY <3>1, QuietSteps
  <2>4. ASSUME Answer(w) PROVE Goal
    <3>1. UNCHANGED seen
      BY <2>4 DEF Answer, seen
    <3>2. call[w] \in Call /\ phase[call[w]] \in Live
      BY <2>4, CallerFacts DEF Answer
    <3>3. \A d \in Call : phase'[d] = "over" <=> phase[d] = "over"
      BY <2>4, <3>2 DEF Answer, IInv, TypeOK, Live
    <3> QED BY <3>1, <3>3, QuietSteps
  <2>5. ASSUME StopCall(w) PROVE Goal
    <3>1. call[w] \in Call /\ phase[call[w]] = "stopping" /\ OnPort(w) = ports[call[w]]
      BY <2>5, CallerFacts DEF StopCall, IInv, Workers, WorkerOK
    <3> QED BY <2>5, <3>1, StopStep DEF StopCall
  <2>6. ASSUME Sweep(w) PROVE Goal
    <3>1. CASE UNCHANGED <<tableVars, phase>>
      BY <2>6, <3>1, QuietSteps DEF Sweep, seen
    <3>2. ASSUME NEW p \in todo[w], DelTransformInfo(p),
                 phase' = [c \in Call |-> IF phase[c] = "stopping" /\ ports[c] = p
                                            THEN "over" ELSE phase[c]]
          PROVE  Goal
      <4>1. PICK c \in Call : /\ phase[c] = "stopping" /\ ports[c] = p
                              /\ phase' = [phase EXCEPT ![c] = "over"]
        BY <3>2, SweptCall
      <4> QED BY <2>6, <3>2, <4>1, StopStep DEF Sweep
    <3> QED BY <2>6, <3>1, <3>2 DEF Sweep
  <2> QED BY <1>2, <2>1, <2>2, <2>3, <2>4, <2>5, <2>6 DEF Handle
<1>3. ASSUME NEW s \in Session, KeepAliveFails(s) PROVE Goal
  <2>1. OwnPath(s)
    BY <1>3, CidsFacts DEF KeepAliveFails, IInv, Relay
  <2>2. Table!Fail(s)
    BY <1>3, <2>1, PathIsRelayed DEF KeepAliveFails, Table!Fail
  <2>3. Session = Table!Session
    BY DEF Session, Cid, Table!Session, Table!Cid
  <2> QED BY <2>2, <2>3
<1>4. CASE Failure
  <2>1. CASE FindInfo \/ DropChannel \/ NotifySipProxy
    <3>1. UNCHANGED <<seen, phase>>
      BY <2>1 DEF FindInfo, DropChannel, NotifySipProxy, seen
    <3> QED BY <3>1, QuietSteps
  <2>2. Session = Table!Session
    BY DEF Session, Cid, Table!Session, Table!Cid
  <2>3. CASE RemoveCid
    BY <2>2, <2>3, RemoveFailedStep, RemoveCidFacts
  <2>4. CASE ForgetSession
    <3>1. r_session \in failed /\ r_session \in Session
      BY <2>4 DEF ForgetSession, IInv, Relay, TypeOK
    <3>2. Table!Forget(r_session)
      BY <2>4, <3>1 DEF ForgetSession, Table!Forget
    <3> QED BY <2>2, <3>1, <3>2
  <2> QED BY <1>4, <2>1, <2>3, <2>4 DEF Failure
<1>5. CASE UNCHANGED vars
  BY <1>5, QuietSteps DEF vars, seen
<1> QED BY <1>1, <1>2, <1>3, <1>4, <1>5 DEF Next

\* The calls of CallPaths look to the forwarding of media as CallTable says.
THEOREM CallsKeepTable == Spec => KeepsTable
<1>1. Init => Table!TableInit
  <2> SUFFICES ASSUME Init PROVE Table!TableInit
    OBVIOUS
  <2>1. Session = Table!Session
    BY DEF Session, Cid, Table!Session, Table!Cid
  <2>2. Over = {}
    BY DEF Init, Over
  <2> QED BY <2>1, <2>2 DEF Init, Table!TableInit, Over
<1>2. IInv /\ [Next]_vars => [Table!TableNext]_(Table!tableVars)
  BY TableStep
<1> QED BY <1>1, <1>2, CallsInv, PTL DEF Spec, KeepsTable, Table!TableSpec
=============================================================================
