--------------------------- MODULE PortPoolProofs ---------------------------
(* Theorems about PortPool, for every value of its constants. *)
EXTENDS PortPool, FiniteSetTheorems, TLAPS

\* The inductive invariant: a worker's locals have to be what the code left in
\* them for a pair to be returned to the list, or recorded, once.
IInv == TypeOK /\ Locals /\ SingleOwner

USE DEF Login, AnyLogin, NoUser

-----------------------------------------------------------------------------
(* Types *)

\* The initial state has the types declared.
LEMMA InitTypes == Init => TypeOK /\ Locals
  BY PairAssumption, LoginAssumption
     DEF Init, TypeOK, Locals, LocalsOf, NoRequest, NoUsers, Label

\* What a worker holds: the part of TypeOK that is about threads.
ThreadTypes ==
  /\ pc \in [Worker -> Label]
  /\ req \in [Worker -> Request \cup {NoRequest}]
  /\ container \in [Worker -> Container \cup {None}]
  /\ it \in [Worker -> Container \cup {None}]
  /\ key \in [Worker -> User \cup {NoUser}]
  /\ ports \in [Worker -> Pair \cup {None}]

\* The fields of a worker.
ThreadOf(x) == <<pc[x], req[x], container[x], it[x], key[x], ports[x]>>

\* A step of one worker keeps the other workers' locals as they are.
LEMMA OtherLocals ==
  ASSUME Locals, NEW w \in Worker, LocalsOf(w)',
         \A x \in Worker : x # w => ThreadOf(x)' = ThreadOf(x)
  PROVE  Locals'
  BY DEF Locals, LocalsOf, ThreadOf

\* The end of a handler, and of its parts, keeps the types of the locals.
LEMMA ReturnTypes ==
  ASSUME ThreadTypes, Locals, NEW w \in Worker, Return(w)
  PROVE  ThreadTypes' /\ Locals'
<1>1. \A x \in Worker : x # w => ThreadOf(x)' = ThreadOf(x)
  BY DEF Return, Goto, ThreadTypes, ThreadOf
<1>2. LocalsOf(w)'
  BY DEF Return, Goto, ThreadTypes, LocalsOf, NoRequest
<1>3. Locals'
  BY <1>1, <1>2, OtherLocals
<1> QED
  BY <1>3 DEF Return, Goto, ThreadTypes, Label

\* A part of a handler that moves to another label.
LEMMA AfterFreeTypes ==
  ASSUME ThreadTypes, Locals, NEW w \in Worker, AfterFree(w),
         pc[w] \in {"del_find", "remove_user", "add_portpair"}
  PROVE  ThreadTypes' /\ Locals'
<1>1. CASE req[w].op = "free"
  BY <1>1, ReturnTypes DEF AfterFree
<1>2. CASE req[w].op # "free"
  <2>1. \A x \in Worker : x # w => ThreadOf(x)' = ThreadOf(x)
    BY <1>2 DEF AfterFree, Goto, ThreadTypes, ThreadOf
  <2>2. LocalsOf(w)'
    BY <1>2 DEF AfterFree, Goto, ThreadTypes, Locals, LocalsOf, Request, NoRequest
  <2>3. Locals'
    BY <2>1, <2>2, OtherLocals
  <2> QED
    BY <1>2, <2>3 DEF AfterFree, Goto, ThreadTypes, Label
<1> QED
  BY <1>1, <1>2

\* The end of a sweep: back in get_ports or done with the offline notice.
LEMMA AfterSweepTypes ==
  ASSUME ThreadTypes, Locals, NEW w \in Worker, AfterSweep(w),
         pc[w] \in {"del_container", "clear"}
  PROVE  ThreadTypes' /\ Locals'
<1>1. CASE req[w].op = "offline"
  BY <1>1, ReturnTypes DEF AfterSweep
<1>2. CASE req[w].op # "offline"
  <2>1. \A x \in Worker : x # w => ThreadOf(x)' = ThreadOf(x)
    BY <1>2 DEF AfterSweep, Goto, ThreadTypes, ThreadOf
  <2>2. LocalsOf(w)'
    BY <1>2 DEF AfterSweep, Goto, ThreadTypes, Locals, LocalsOf, Request, NoRequest
  <2>3. Locals'
    BY <2>1, <2>2, OtherLocals
  <2> QED
    BY <1>2, <2>3 DEF AfterSweep, Goto, ThreadTypes, Label
<1> QED
  BY <1>1, <1>2

-----------------------------------------------------------------------------
(* One lemma per group of actions *)

\* A request that arrives is well formed.
LEMMA ReceiveTypes ==
  ASSUME TypeOK, Locals, NEW w \in Worker, Receive(w)
  PROVE  TypeOK' /\ Locals'
<1> SUFFICES ASSUME NEW s \in SipProxy,
                    \/ \E u \in User : ReceiveGet(w, s, u) \/ ReceiveFree(w, s, u)
                    \/ \E l \in Login \cup {AnyLogin} : ReceiveOffline(w, s, l)
             PROVE  TypeOK' /\ Locals'
  BY DEF Receive
<1>1. \A x \in Worker : x # w => ThreadOf(x)' = ThreadOf(x)
  BY DEF ReceiveGet, ReceiveFree, ReceiveOffline, Goto, TypeOK, ThreadOf, localVars
<1>2. ASSUME NEW u \in User, ReceiveGet(w, s, u)
      PROVE  TypeOK' /\ LocalsOf(w)'
  BY <1>2 DEF ReceiveGet, Goto, TypeOK, LocalsOf, Request, Label, localVars,
              tableVars, poolVars
<1>3. ASSUME NEW u \in User, ReceiveFree(w, s, u)
      PROVE  TypeOK' /\ LocalsOf(w)'
  BY <1>3 DEF ReceiveFree, Goto, TypeOK, LocalsOf, Request, Label, localVars,
              tableVars, poolVars
<1>4. ASSUME NEW l \in Login \cup {AnyLogin}, ReceiveOffline(w, s, l)
      PROVE  TypeOK' /\ LocalsOf(w)'
  BY <1>4 DEF ReceiveOffline, Goto, TypeOK, LocalsOf, Request, Label, localVars,
              tableVars, poolVars
<1> QED
  BY <1>1, <1>2, <1>3, <1>4, OtherLocals

\* The sections of get_ports.
LEMMA GetTypes ==
  ASSUME TypeOK, Locals, NEW w \in Worker,
         \/ FindContainer(w) \/ GetUserInRlock(w) \/ GetUserInWlock(w)
         \/ GetPortsInWlockFound(w) \/ GetPortsInWlockNew(w)
  PROVE  TypeOK' /\ Locals'
<1> USE DEF tableVars, poolVars, localVars
<1>0. ThreadTypes
  BY DEF TypeOK, ThreadTypes
<1>1. CASE FindContainer(w)
  <2>1. \A x \in Worker : x # w => ThreadOf(x)' = ThreadOf(x)
    BY <1>1 DEF FindContainer, Goto, TypeOK, ThreadOf
  <2>2. req[w] \in Request /\ m_user_portpair_info[req[w].sip] \in Container \cup {None}
    BY <1>1 DEF FindContainer, At, Locals, LocalsOf, Request, TypeOK
  <2>3. LocalsOf(w)'
    BY <1>1, <2>2 DEF FindContainer, At, Goto, TypeOK, Locals, LocalsOf
  <2> QED
    BY <1>1, <2>1, <2>2, <2>3, OtherLocals DEF FindContainer, Goto, TypeOK, Label
<1>2. CASE GetUserInRlock(w)
  <2>1. CASE Return(w)
    BY <1>0, <1>2, <2>1, ReturnTypes DEF GetUserInRlock, TypeOK, ThreadTypes
  <2>2. CASE Goto(w, "user_wlock") /\ UNCHANGED <<req, localVars>>
    <3>1. \A x \in Worker : x # w => ThreadOf(x)' = ThreadOf(x)
      BY <2>2 DEF Goto, TypeOK, ThreadOf
    <3>2. LocalsOf(w)'
      BY <1>2, <2>2 DEF GetUserInRlock, At, Goto, TypeOK, Locals, LocalsOf
    <3> QED
      BY <1>2, <2>2, <3>1, <3>2, OtherLocals DEF GetUserInRlock, Goto, TypeOK, Label
  <2> QED
    BY <1>2, <2>1, <2>2 DEF GetUserInRlock
<1>3. CASE GetUserInWlock(w)
  <2>1. ThreadTypes' /\ Locals'
    BY <1>0, <1>3, ReturnTypes DEF GetUserInWlock
  <2>2. container[w] \in Container /\ req[w].user \in User
    BY <1>3 DEF GetUserInWlock, At, Locals, LocalsOf
  <2>3. CASE UNCHANGED <<m_user_infos, poolVars>>
    BY <1>3, <2>1, <2>3 DEF GetUserInWlock, TypeOK, ThreadTypes
  <2>4. ASSUME TakeFront,
               m_user_infos' = [m_user_infos EXCEPT
                 ![container[w]][req[w].user] = Head(m_free_portpairs)]
        PROVE  TypeOK'
    <3>1. Head(m_free_portpairs) \in Pair
      BY <2>4 DEF TakeFront, TypeOK
    <3>2. m_user_infos' \in [Container -> [User -> Pair \cup {None}]]
      BY <2>2, <2>4, <3>1 DEF TypeOK
    <3>3. m_free_portpairs' \in Seq(Pair) /\ m_used_num' \in Nat
      BY <2>4 DEF TakeFront, TypeOK
    <3> QED
      BY <1>3, <2>1, <3>2, <3>3 DEF GetUserInWlock, TypeOK, ThreadTypes
  <2> QED
    BY <1>3, <2>1, <2>3, <2>4 DEF GetUserInWlock
<1>4. CASE GetPortsInWlockFound(w)
  <2> DEFINE c == m_user_portpair_info[req[w].sip]
  <2>1. CASE m_sipproxy_fake_id[c] = req[w].login
    <3>1. \A x \in Worker : x # w => ThreadOf(x)' = ThreadOf(x)
      BY <1>4, <2>1 DEF GetPortsInWlockFound, Goto, TypeOK, ThreadOf
    <3>2. req[w] \in Request /\ c \in Container
      BY <1>4 DEF GetPortsInWlockFound, At, Locals, LocalsOf, Request, TypeOK
    <3>3. LocalsOf(w)'
      BY <1>4, <2>1, <3>2 DEF GetPortsInWlockFound, At, Goto, TypeOK, Locals, LocalsOf
    <3> QED
      BY <1>4, <2>1, <3>1, <3>2, <3>3, OtherLocals
         DEF GetPortsInWlockFound, Goto, TypeOK, Label
  <2>2. CASE m_sipproxy_fake_id[c] # req[w].login
    BY <1>0, <1>4, <2>2, ReturnTypes DEF GetPortsInWlockFound, TypeOK, ThreadTypes
  <2> QED
    BY <2>1, <2>2
<1>5. CASE GetPortsInWlockNew(w)
  <2>1. ThreadTypes' /\ Locals'
    BY <1>0, <1>5, ReturnTypes DEF GetPortsInWlockNew
  <2>2. /\ req[w].sip \in SipProxy /\ req[w].user \in User
        /\ req[w].login \in Login
    BY <1>5 DEF GetPortsInWlockNew, At, Locals, LocalsOf, Request
  <2>3. CASE UNCHANGED <<tableVars, m_user_infos, poolVars>>
    BY <1>5, <2>1, <2>3 DEF GetPortsInWlockNew, TypeOK, ThreadTypes
  <2>4. ASSUME NEW c \in Container, TakeFront,
               m_user_portpair_info' = [m_user_portpair_info EXCEPT ![req[w].sip] = c],
               m_sipproxy_fake_id' = [m_sipproxy_fake_id EXCEPT ![c] = req[w].login],
               m_user_infos' = [m_user_infos EXCEPT
                 ![c] = OnlyUser(req[w].user, Head(m_free_portpairs))]
        PROVE  TypeOK'
    <3>1. Head(m_free_portpairs) \in Pair
      BY <2>4 DEF TakeFront, TypeOK
    <3>2. OnlyUser(req[w].user, Head(m_free_portpairs)) \in [User -> Pair \cup {None}]
      BY <2>2, <3>1 DEF OnlyUser, NoUsers
    <3>3. m_free_portpairs' \in Seq(Pair) /\ m_used_num' \in Nat
      BY <2>4 DEF TakeFront, TypeOK
    <3> QED
      BY <1>5, <2>1, <2>2, <2>4, <3>2, <3>3
         DEF GetPortsInWlockNew, TypeOK, ThreadTypes
  <2> QED
    BY <1>5, <2>1, <2>3, <2>4 DEF GetPortsInWlockNew
<1> QED
  BY <1>1, <1>2, <1>3, <1>4, <1>5

\* The sections of free_ports.
LEMMA FreeTypes ==
  ASSUME TypeOK, Locals, NEW w \in Worker,
         DelUserPortInfo(w) \/ RemoveUserInfo(w) \/ AddPortpair(w)
  PROVE  TypeOK' /\ Locals'
<1> USE DEF tableVars, poolVars, localVars
<1>0. ThreadTypes
  BY DEF TypeOK, ThreadTypes
<1>1. CASE DelUserPortInfo(w)
  <2> DEFINE c == m_user_portpair_info[req[w].sip]
  <2>1. CASE c = None
    BY <1>0, <1>1, <2>1, AfterFreeTypes DEF DelUserPortInfo, At, TypeOK, ThreadTypes
  <2>2. CASE c # None
    <3>1. \A x \in Worker : x # w => ThreadOf(x)' = ThreadOf(x)
      BY <1>1, <2>2 DEF DelUserPortInfo, Goto, TypeOK, ThreadOf
    <3>2. req[w] \in Request /\ c \in Container
      BY <1>1, <2>2 DEF DelUserPortInfo, At, Locals, LocalsOf, Request, TypeOK
    <3>3. LocalsOf(w)'
      BY <1>1, <2>2, <3>2 DEF DelUserPortInfo, At, Goto, TypeOK, Locals, LocalsOf
    <3> QED
      BY <1>1, <2>2, <3>1, <3>2, <3>3, OtherLocals
         DEF DelUserPortInfo, Goto, TypeOK, Label
  <2> QED
    BY <2>1, <2>2
<1>2. CASE RemoveUserInfo(w)
  <2>1. key[w] \in User
    BY <1>2 DEF RemoveUserInfo, At, Locals, LocalsOf
  <2>2. CASE AfterFree(w) /\ UNCHANGED m_user_infos
    BY <1>0, <1>2, <2>2, AfterFreeTypes DEF RemoveUserInfo, At, TypeOK, ThreadTypes
  <2>3. ASSUME NEW c \in IteratorTargets(w), m_user_infos[c][key[w]] # None,
               m_user_infos' = [m_user_infos EXCEPT ![c][key[w]] = None],
               ports' = [ports EXCEPT ![w] = m_user_infos[c][key[w]]],
               it' = [it EXCEPT ![w] = None],
               Goto(w, "add_portpair"),
               UNCHANGED <<req, container, key>>
        PROVE  TypeOK' /\ Locals'
    <3>1. c \in Container
      BY <1>2 DEF IteratorTargets, RemoveUserInfo, At, Locals, LocalsOf, TypeOK
    <3>2. m_user_infos[c][key[w]] \in Pair
      BY <2>1, <2>3, <3>1 DEF TypeOK
    <3>3. \A x \in Worker : x # w => ThreadOf(x)' = ThreadOf(x)
      BY <2>3 DEF Goto, TypeOK, ThreadOf
    <3>4. LocalsOf(w)'
      BY <1>2, <2>3, <3>2 DEF RemoveUserInfo, At, Goto, TypeOK, Locals, LocalsOf
    <3>5. m_user_infos' \in [Container -> [User -> Pair \cup {None}]]
      BY <2>1, <2>3, <3>1 DEF TypeOK
    <3> QED
      BY <1>2, <2>3, <3>2, <3>3, <3>4, <3>5, OtherLocals
         DEF RemoveUserInfo, Goto, TypeOK, Label
  <2> QED
    BY <1>2, <2>2, <2>3 DEF RemoveUserInfo
<1>3. CASE AddPortpair(w)
  <2>1. ThreadTypes' /\ Locals'
    BY <1>0, <1>3, AfterFreeTypes DEF AddPortpair, At
  <2>2. ports[w] \in Pair
    BY <1>3 DEF AddPortpair, At, Locals, LocalsOf
  <2>3. m_free_portpairs' \in Seq(Pair) /\ m_used_num' \in Nat
    BY <1>3, <2>2 DEF AddPortpair, TypeOK
  <2> QED
    BY <1>3, <2>1, <2>3 DEF AddPortpair, TypeOK, ThreadTypes
<1> QED
  BY <1>1, <1>2, <1>3

\* The sections of deal_dead_sipproxy.
LEMMA SweepTypes ==
  ASSUME TypeOK, Locals, NEW w \in Worker,
         DelContainer(w) \/ SweepNext(w) \/ SweepClear(w)
  PROVE  TypeOK' /\ Locals'
<1> USE DEF tableVars, poolVars, localVars
<1>0. ThreadTypes
  BY DEF TypeOK, ThreadTypes
<1>1. CASE DelContainer(w)
  <2> DEFINE c == m_user_portpair_info[req[w].sip]
  <2>1. req[w].sip \in SipProxy
    BY <1>1 DEF DelContainer, At, Locals, LocalsOf, Request
  <2>2. CASE AfterSweep(w) /\ UNCHANGED m_user_portpair_info
    BY <1>0, <1>1, <2>2, AfterSweepTypes DEF DelContainer, At, TypeOK, ThreadTypes
  <2>3. CASE /\ c # None
             /\ m_user_portpair_info' = [m_user_portpair_info EXCEPT ![req[w].sip] = None]
             /\ container' = [container EXCEPT ![w] = c]
             /\ Goto(w, "sweep")
             /\ UNCHANGED <<req, it, key, ports>>
    <3>1. c \in Container
      BY <2>1, <2>3 DEF TypeOK
    <3>2. \A x \in Worker : x # w => ThreadOf(x)' = ThreadOf(x)
      BY <2>3 DEF Goto, TypeOK, ThreadOf
    <3>3. LocalsOf(w)'
      BY <1>1, <2>3, <3>1 DEF DelContainer, At, Goto, TypeOK, Locals, LocalsOf
    <3> QED
      BY <1>1, <2>1, <2>3, <3>1, <3>2, <3>3, OtherLocals
         DEF DelContainer, Goto, TypeOK, Label
  <2> QED
    BY <1>1, <2>2, <2>3 DEF DelContainer
<1>2. CASE SweepNext(w)
  <2>1. container[w] \in Container /\ req[w].op \in {"get", "offline"}
    BY <1>2 DEF SweepNext, At, Locals, LocalsOf
  <2>2. \A x \in Worker : x # w => ThreadOf(x)' = ThreadOf(x)
    BY <1>2 DEF SweepNext, Goto, TypeOK, ThreadOf
  <2>3. CASE Goto(w, "clear") /\ UNCHANGED <<key, ports>>
    <3>1. LocalsOf(w)'
      BY <1>2, <2>1, <2>3 DEF SweepNext, At, Goto, TypeOK, Locals, LocalsOf
    <3> QED
      BY <1>2, <2>2, <2>3, <3>1, OtherLocals DEF SweepNext, Goto, TypeOK, Label
  <2>4. ASSUME NEW u \in Ahead(w),
               key' = [key EXCEPT ![w] = u],
               ports' = [ports EXCEPT ![w] = m_user_infos[container[w]][u]],
               Goto(w, "del_find")
        PROVE  TypeOK' /\ Locals'
    <3>1. u \in User /\ m_user_infos[container[w]][u] \in Pair \cup {None}
      BY <2>1 DEF Ahead, TypeOK
    <3>2. LocalsOf(w)'
      BY <1>2, <2>1, <2>4, <3>1 DEF SweepNext, At, Goto, TypeOK, Locals, LocalsOf
    <3> QED
      BY <1>2, <2>2, <2>4, <3>1, <3>2, OtherLocals DEF SweepNext, Goto, TypeOK, Label
  <2> QED
    BY <1>2, <2>3, <2>4 DEF SweepNext
<1>3. CASE SweepClear(w)
  <2>1. ThreadTypes' /\ Locals'
    BY <1>0, <1>3, AfterSweepTypes DEF SweepClear, At
  <2>2. m_user_infos' \in [Container -> [User -> Pair \cup {None}]]
    BY <1>3 DEF SweepClear, TypeOK, NoUsers
  <2> QED
    BY <1>3, <2>1, <2>2 DEF SweepClear, TypeOK, ThreadTypes
<1> QED
  BY <1>1, <1>2, <1>3

\* Every step keeps the types.
LEMMA NextTypes == TypeOK /\ Locals /\ [Next]_vars => TypeOK' /\ Locals'
<1> SUFFICES ASSUME TypeOK, Locals, [Next]_vars
             PROVE  TypeOK' /\ Locals'
  OBVIOUS
<1> USE DEF vars, tableVars, poolVars, localVars
<1>1. ASSUME NEW w \in Worker, Receive(w)
      PROVE  TypeOK' /\ Locals'
  BY <1>1, ReceiveTypes
<1>2. ASSUME NEW w \in Worker, Handle(w)
      PROVE  TypeOK' /\ Locals'
  <2>1. CASE RemoveUserInfoCrash(w) \/ SweepCrash(w)
    BY <2>1 DEF RemoveUserInfoCrash, SweepCrash, Crash, TypeOK, Locals, LocalsOf
  <2> QED
    BY <1>2, <2>1, GetTypes, FreeTypes, SweepTypes DEF Handle
<1>3. ASSUME NEW s \in SipProxy, Restart(s)
      PROVE  TypeOK' /\ Locals'
  BY <1>3, LoginAssumption DEF Restart, TypeOK, Locals, LocalsOf
<1>4. CASE UNCHANGED vars
  BY <1>4 DEF TypeOK, Locals, LocalsOf
<1> QED
  BY <1>1, <1>2, <1>3, <1>4 DEF Next, Dead

\* Every reachable state is well typed, whatever the threads interleave.
THEOREM TypeCorrect == Spec => []TypeOK
<1>1. Spec => [](TypeOK /\ Locals)
  BY InitTypes, NextTypes, PTL DEF Spec
<1> QED
  BY <1>1, PTL

-----------------------------------------------------------------------------
(* One owner per pair *)

\* No worker starts to return a pair, and those that do keep theirs.
ReturningShrinks ==
  \A x \in Worker : Returning(x)' => Returning(x) /\ ports'[x] = ports[x]

\* Records only disappear.
RecordsShrink ==
  \A c \in Container, u \in User :
    m_user_infos'[c][u] \in {None, m_user_infos[c][u]}

\* Neither a listed pair nor one a worker returns is the null pair.
LEMMA PairsNotNull ==
  ASSUME TypeOK, Locals
  PROVE  /\ \A i \in 1 .. Len(m_free_portpairs) : m_free_portpairs[i] # None
         /\ \A w \in Worker : Returning(w) => ports[w] # None
  BY NoneAssumption DEF TypeOK, Locals, LocalsOf, Returning

\* A step that adds no record, no pair to the list, and no returning worker.
LEMMA QuietStep ==
  ASSUME TypeOK, Locals, SingleOwner,
         ReturningShrinks, RecordsShrink, UNCHANGED m_free_portpairs
  PROVE  SingleOwner'
<1> USE DEF SingleOwner
<1>1. ListedOnce'
  BY DEF ListedOnce
<1>2. RecordedOnce'
  BY DEF RecordedOnce, RecordsShrink
<1>3. ReturnedOnce'
  BY DEF ReturnedOnce, ReturningShrinks
<1>4. ListedNotRecorded'
  BY PairsNotNull DEF ListedNotRecorded, RecordsShrink
<1>5. ReturningNotListed'
  BY DEF ReturningNotListed, ReturningShrinks
<1>6. ReturningNotRecorded'
  BY PairsNotNull DEF ReturningNotRecorded, RecordsShrink, ReturningShrinks
<1> QED
  BY <1>1, <1>2, <1>3, <1>4, <1>5, <1>6

\* A step that takes the first listed pair into one record.
LEMMA TakeStep ==
  ASSUME TypeOK, Locals, SingleOwner, ReturningShrinks, TakeFront,
         NEW c \in Container, NEW u \in User,
         m_user_infos'[c][u] = Head(m_free_portpairs),
         \A d \in Container, v \in User :
           c # d \/ u # v => m_user_infos'[d][v] \in {None, m_user_infos[d][v]}
  PROVE  SingleOwner'
<1> USE DEF SingleOwner
<1> DEFINE p == Head(m_free_portpairs)
<1>1. /\ p = m_free_portpairs[1] /\ p # None
      /\ 1 \in 1 .. Len(m_free_portpairs)
      /\ \A i \in 1 .. Len(m_free_portpairs)' :
           /\ m_free_portpairs'[i] = m_free_portpairs[i + 1]
           /\ i + 1 \in 1 .. Len(m_free_portpairs)
  <2>1. m_free_portpairs \in Seq(Pair) /\ m_free_portpairs # <<>>
    BY DEF TakeFront, TypeOK
  <2>2. m_free_portpairs' = Tail(m_free_portpairs)
    BY DEF TakeFront
  <2>3. p = m_free_portpairs[1] /\ 1 \in 1 .. Len(m_free_portpairs)
    BY <2>1
  <2> QED
    BY <2>1, <2>2, <2>3, PairsNotNull
<1>2. ListedOnce'
  <2> SUFFICES ASSUME NEW i \in 1 .. Len(m_free_portpairs)',
                      NEW j \in 1 .. Len(m_free_portpairs)',
                      m_free_portpairs'[i] = m_free_portpairs'[j]
               PROVE  i = j
    BY DEF ListedOnce
  <2>1. i + 1 = j + 1
    BY <1>1 DEF ListedOnce
  <2> QED
    BY <2>1
<1>3. \A d \in Container, v \in User : m_user_infos[d][v] # p
  BY <1>1 DEF ListedNotRecorded
<1>4. RecordedOnce'
  BY <1>1, <1>3 DEF RecordedOnce
<1>5. ReturnedOnce'
  BY DEF ReturnedOnce, ReturningShrinks
<1>6. \A i \in 1 .. Len(m_free_portpairs)' :
        m_free_portpairs'[i] # p /\ m_free_portpairs'[i] # None
  <2> TAKE i \in 1 .. Len(m_free_portpairs)'
  <2>1. i + 1 # 1
    OBVIOUS
  <2> QED
    BY <1>1, <2>1, PairsNotNull DEF ListedOnce
<1>7. ListedNotRecorded'
  BY <1>1, <1>6 DEF ListedNotRecorded
<1>8. ReturningNotListed'
  BY <1>1 DEF ReturningNotListed, ReturningShrinks
<1>9. ReturningNotRecorded'
  BY <1>1, PairsNotNull
     DEF ReturningNotRecorded, ReturningNotListed, ReturningShrinks
<1> QED
  BY <1>2, <1>4, <1>5, <1>7, <1>8, <1>9

\* A step in which one worker takes a recorded pair to return it.
LEMMA RemoveStep ==
  ASSUME TypeOK, Locals, SingleOwner, UNCHANGED m_free_portpairs,
         NEW w \in Worker, NEW c \in Container, NEW u \in User,
         m_user_infos[c][u] # None,
         m_user_infos' = [m_user_infos EXCEPT ![c][u] = None],
         ports'[w] = m_user_infos[c][u],
         \A x \in Worker : x # w /\ Returning(x)' =>
           Returning(x) /\ ports'[x] = ports[x]
  PROVE  SingleOwner'
<1> USE DEF SingleOwner
<1>1. RecordsShrink /\ m_user_infos'[c][u] = None
  BY DEF RecordsShrink, TypeOK
<1>2. ListedOnce'
  BY DEF ListedOnce
<1>3. RecordedOnce'
  BY <1>1 DEF RecordedOnce, RecordsShrink
<1>4. ReturnedOnce'
  BY DEF ReturnedOnce, ReturningNotRecorded
<1>5. ListedNotRecorded'
  BY <1>1, PairsNotNull DEF ListedNotRecorded, RecordsShrink
<1>6. ReturningNotListed'
  BY DEF ReturningNotListed, ListedNotRecorded
<1>7. ReturningNotRecorded'
  <2> SUFFICES ASSUME NEW x \in Worker, Returning(x)',
                      NEW d \in Container, NEW v \in User
               PROVE  m_user_infos'[d][v] # ports'[x]
    BY DEF ReturningNotRecorded
  <2>1. CASE x = w
    BY <1>1, <2>1 DEF RecordsShrink, RecordedOnce
  <2>2. CASE x # w
    BY <1>1, <2>2, PairsNotNull DEF RecordsShrink, ReturningNotRecorded
  <2> QED
    BY <2>1, <2>2
<1> QED
  BY <1>2, <1>3, <1>4, <1>5, <1>6, <1>7

\* A step in which one worker puts the pair it returns at the list's end.
LEMMA AddStep ==
  ASSUME TypeOK, Locals, SingleOwner, UNCHANGED m_user_infos,
         NEW w \in Worker, Returning(w), ~Returning(w)', ReturningShrinks,
         m_free_portpairs' = Append(m_free_portpairs, ports[w])
  PROVE  SingleOwner'
<1> USE DEF SingleOwner
<1> DEFINE n == Len(m_free_portpairs)
<1>1. n \in Nat /\ m_free_portpairs \in Seq(Pair) /\ ports[w] \in Pair
  BY DEF TypeOK, Locals, LocalsOf, Returning
<1>2. /\ Len(m_free_portpairs)' = n + 1 /\ m_free_portpairs'[n + 1] = ports[w]
      /\ \A i \in 1 .. n : m_free_portpairs'[i] = m_free_portpairs[i]
  BY <1>1
<1>3. \A i \in 1 .. Len(m_free_portpairs)' : i \in 1 .. n \/ i = n + 1
  BY <1>1, <1>2
<1>4. ListedOnce'
  BY <1>2, <1>3 DEF ListedOnce, ReturningNotListed
<1>5. RecordedOnce'
  BY DEF RecordedOnce
<1>6. ReturnedOnce'
  BY DEF ReturnedOnce, ReturningShrinks
<1>7. ListedNotRecorded'
  BY <1>2, <1>3 DEF ListedNotRecorded, ReturningNotRecorded
<1>8. ReturningNotListed'
  <2> SUFFICES ASSUME NEW x \in Worker, Returning(x)',
                      NEW i \in 1 .. Len(m_free_portpairs)'
               PROVE  m_free_portpairs'[i] # ports'[x]
    BY DEF ReturningNotListed
  <2>1. x # w /\ Returning(x) /\ ports'[x] = ports[x]
    BY DEF ReturningShrinks
  <2> QED
    BY <1>2, <1>3, <2>1 DEF ReturningNotListed, ReturnedOnce
<1>9. ReturningNotRecorded'
  BY DEF ReturningNotRecorded, ReturningShrinks
<1> QED
  BY <1>4, <1>5, <1>6, <1>7, <1>8, <1>9

\* Leaving a section starts no return.
LEMMA ReturnShrinks ==
  ASSUME TypeOK, NEW w \in Worker, Return(w) \/ AfterFree(w) \/ AfterSweep(w)
  PROVE  ReturningShrinks /\ ~Returning(w)'
  BY DEF Return, AfterFree, AfterSweep, Goto, TypeOK, ReturningShrinks, Returning

\* Every step keeps each pair in one place.
LEMMA NextOwner == IInv /\ [Next]_vars => SingleOwner'
<1> SUFFICES ASSUME TypeOK, Locals, SingleOwner, [Next]_vars
             PROVE  SingleOwner'
  BY DEF IInv
<1> USE DEF vars, tableVars, poolVars, localVars
<1>0. UNCHANGED m_user_infos => RecordsShrink
  BY DEF RecordsShrink
<1>1. ASSUME NEW w \in Worker, Receive(w)
      PROVE  SingleOwner'
  <2>1. ReturningShrinks
    BY <1>1 DEF Receive, ReceiveGet, ReceiveFree, ReceiveOffline, Goto, TypeOK,
                ReturningShrinks, Returning
  <2> QED
    BY <1>0, <1>1, <2>1, QuietStep
       DEF Receive, ReceiveGet, ReceiveFree, ReceiveOffline
<1>2. ASSUME NEW w \in Worker, FindContainer(w)
      PROVE  SingleOwner'
  <2>1. ReturningShrinks
    BY <1>2 DEF FindContainer, Goto, TypeOK, ReturningShrinks, Returning
  <2> QED
    BY <1>0, <1>2, <2>1, QuietStep DEF FindContainer
<1>3. ASSUME NEW w \in Worker, GetUserInRlock(w)
      PROVE  SingleOwner'
  <2>1. ReturningShrinks
    BY <1>3, ReturnShrinks
       DEF GetUserInRlock, Goto, TypeOK, ReturningShrinks, Returning
  <2> QED
    BY <1>0, <1>3, <2>1, QuietStep DEF GetUserInRlock
<1>4. ASSUME NEW w \in Worker, GetUserInWlock(w)
      PROVE  SingleOwner'
  <2> DEFINE c == container[w]
             u == req[w].user
  <2>1. ReturningShrinks
    BY <1>4, ReturnShrinks DEF GetUserInWlock
  <2>2. CASE UNCHANGED <<m_user_infos, poolVars>>
    BY <1>0, <2>1, <2>2, QuietStep
  <2>3. CASE /\ TakeFront
             /\ m_user_infos' =
                  [m_user_infos EXCEPT ![c][u] = Head(m_free_portpairs)]
    <3>1. c \in Container /\ u \in User
      BY <1>4 DEF GetUserInWlock, At, Locals, LocalsOf
    <3>2. /\ m_user_infos'[c][u] = Head(m_free_portpairs)
          /\ \A d \in Container, v \in User :
               c # d \/ u # v => m_user_infos'[d][v] = m_user_infos[d][v]
      BY <2>3, <3>1 DEF TypeOK
    <3> QED
      BY <2>1, <2>3, <3>1, <3>2, TakeStep
  <2> QED
    BY <1>4, <2>2, <2>3 DEF GetUserInWlock
<1>5. ASSUME NEW w \in Worker, GetPortsInWlockFound(w)
      PROVE  SingleOwner'
  <2>1. ReturningShrinks
    BY <1>5, ReturnShrinks
       DEF GetPortsInWlockFound, Goto, TypeOK, ReturningShrinks, Returning
  <2> QED
    BY <1>0, <1>5, <2>1, QuietStep DEF GetPortsInWlockFound
<1>6. ASSUME NEW w \in Worker, GetPortsInWlockNew(w)
      PROVE  SingleOwner'
  <2> DEFINE u == req[w].user
  <2>1. ReturningShrinks
    BY <1>6, ReturnShrinks DEF GetPortsInWlockNew
  <2>2. CASE UNCHANGED <<m_user_infos, poolVars>>
    BY <1>0, <2>1, <2>2, QuietStep
  <2>3. ASSUME NEW c \in Container, TakeFront,
               m_user_infos' = [m_user_infos EXCEPT
                 ![c] = OnlyUser(u, Head(m_free_portpairs))]
        PROVE  SingleOwner'
    <3>1. u \in User
      BY <1>6 DEF GetPortsInWlockNew, At, Locals, LocalsOf
    <3>2. /\ m_user_infos'[c][u] = Head(m_free_portpairs)
          /\ \A d \in Container, v \in User :
               c # d \/ u # v => m_user_infos'[d][v] \in {None, m_user_infos[d][v]}
      BY <2>3, <3>1 DEF TypeOK, OnlyUser, NoUsers
    <3> QED
      BY <2>1, <2>3, <3>1, <3>2, TakeStep
  <2> QED
    BY <1>6, <2>2, <2>3 DEF GetPortsInWlockNew
<1>7. ASSUME NEW w \in Worker, DelUserPortInfo(w)
      PROVE  SingleOwner'
  <2>1. ReturningShrinks
    BY <1>7, ReturnShrinks
       DEF DelUserPortInfo, Goto, TypeOK, ReturningShrinks, Returning
  <2> QED
    BY <1>0, <1>7, <2>1, QuietStep DEF DelUserPortInfo
<1>8. ASSUME NEW w \in Worker, RemoveUserInfo(w)
      PROVE  SingleOwner'
  <2>1. CASE AfterFree(w) /\ UNCHANGED m_user_infos
    BY <1>0, <1>8, <2>1, ReturnShrinks, QuietStep DEF RemoveUserInfo
  <2>2. ASSUME NEW c \in IteratorTargets(w), m_user_infos[c][key[w]] # None,
               m_user_infos' = [m_user_infos EXCEPT ![c][key[w]] = None],
               ports' = [ports EXCEPT ![w] = m_user_infos[c][key[w]]],
               Goto(w, "add_portpair")
        PROVE  SingleOwner'
    <3>1. key[w] \in User /\ c \in Container
      BY <1>8 DEF RemoveUserInfo, At, Locals, LocalsOf, IteratorTargets, TypeOK
    <3>2. /\ ports'[w] = m_user_infos[c][key[w]]
          /\ \A x \in Worker : x # w /\ Returning(x)' =>
               Returning(x) /\ ports'[x] = ports[x]
      BY <2>2 DEF Goto, TypeOK, Returning
    <3> QED
      BY <1>8, <2>2, <3>1, <3>2, RemoveStep DEF RemoveUserInfo
  <2> QED
    BY <1>8, <2>1, <2>2 DEF RemoveUserInfo
<1>9. ASSUME NEW w \in Worker, AddPortpair(w)
      PROVE  SingleOwner'
  BY <1>9, ReturnShrinks, AddStep DEF AddPortpair, At, Returning
<1>10. ASSUME NEW w \in Worker, DelContainer(w)
       PROVE  SingleOwner'
  <2>1. ReturningShrinks
    BY <1>10, ReturnShrinks
       DEF DelContainer, Goto, TypeOK, ReturningShrinks, Returning
  <2> QED
    BY <1>0, <1>10, <2>1, QuietStep DEF DelContainer
<1>11. ASSUME NEW w \in Worker, SweepNext(w)
       PROVE  SingleOwner'
  <2>1. ReturningShrinks
    BY <1>11 DEF SweepNext, Goto, TypeOK, ReturningShrinks, Returning
  <2> QED
    BY <1>0, <1>11, <2>1, QuietStep DEF SweepNext
<1>12. ASSUME NEW w \in Worker, SweepClear(w)
       PROVE  SingleOwner'
  <2>1. RecordsShrink
    BY <1>12 DEF SweepClear, RecordsShrink, NoUsers, TypeOK
  <2> QED
    BY <1>12, <2>1, ReturnShrinks, QuietStep DEF SweepClear
<1>13. CASE \/ \E w \in Worker : RemoveUserInfoCrash(w) \/ SweepCrash(w)
            \/ \E s \in SipProxy : Restart(s)
            \/ UNCHANGED vars
  <2>1. ReturningShrinks
    BY <1>13 DEF RemoveUserInfoCrash, SweepCrash, Crash, Restart, Returning,
                 ReturningShrinks
  <2> QED
    BY <1>0, <1>13, <2>1, QuietStep
       DEF RemoveUserInfoCrash, SweepCrash, Crash, Restart
<1> QED
  BY <1>1, <1>2, <1>3, <1>4, <1>5, <1>6, <1>7, <1>8, <1>9, <1>10, <1>11, <1>12,
     <1>13 DEF Next, Handle, Dead

\* Initially every pair is listed once and nowhere else.
LEMMA InitOwner == Init => SingleOwner
  BY PairAssumption, NoneAssumption
     DEF Init, SingleOwner, ListedOnce, RecordedOnce, ReturnedOnce,
         ListedNotRecorded, ReturningNotListed, ReturningNotRecorded, Returning,
         NoUsers

\* No interleaving of gets, frees, offline notices and restarts gives a pair
\* two owners, with any number of threads, SipProxies, users and pairs.
THEOREM PairHasOneOwner == Spec => []SingleOwner
<1>1. Init => IInv
  BY InitTypes, InitOwner DEF IInv
<1>2. IInv /\ [Next]_vars => IInv'
  BY NextTypes, NextOwner DEF IInv
<1>3. IInv => SingleOwner
  BY DEF IInv
<1> QED
  BY <1>1, <1>2, <1>3, PTL DEF Spec

-----------------------------------------------------------------------------
(* The counter of used pairs *)

\* The size of an interval of indices.
LEMMA CountTo ==
  ASSUME NEW n \in Nat
  PROVE  IsFiniteSet(1 .. n) /\ Cardinality(1 .. n) = n
  BY FS_Interval

\* There are as many pairs as start() listed.
LEMMA PairCount ==
  IsFiniteSet(Pair) /\ Cardinality(Pair) = Len(PairList)
<1> DEFINE S == 1 .. Len(PairList)
<1>1. Len(PairList) \in Nat
  BY PairAssumption
<1>2. IsFiniteSet(S) /\ Cardinality(S) = Len(PairList)
  BY <1>1, CountTo
<1>3. PairList \in Bijection(S, Pair)
  BY PairAssumption DEF Bijection, Injection, Surjection, IsInjective, Pair
<1>4. ExistsBijection(S, Pair)
  BY <1>3 DEF ExistsBijection
<1> QED
  BY <1>2, <1>4, FS_Bijection

\* While a worker returns a pair, the list is not full.
LEMMA ListNotFull ==
  ASSUME TypeOK, Locals, SingleOwner, NEW w \in Worker, Returning(w)
  PROVE  Len(m_free_portpairs) < Len(PairList)
<1> DEFINE n == Len(m_free_portpairs)
           T == Pair \ {ports[w]}
<1>1. n \in Nat /\ m_free_portpairs \in Seq(Pair) /\ ports[w] \in Pair
  BY DEF TypeOK, Locals, LocalsOf, Returning
<1>2. IsFiniteSet(T) /\ Cardinality(T) = Len(PairList) - 1
  BY <1>1, PairCount, FS_RemoveElement
<1>3. m_free_portpairs \in Injection(1 .. n, T)
  BY <1>1 DEF Injection, IsInjective, SingleOwner, ListedOnce, ReturningNotListed
<1>4. Cardinality(1 .. n) <= Cardinality(T)
  BY <1>2, <1>3, FS_Injection
<1>5. Cardinality(1 .. n) = n
  BY <1>1, CountTo
<1>6. Len(PairList) \in Nat
  BY PairAssumption
<1> QED
  BY <1>1, <1>2, <1>4, <1>5, <1>6

\* The counter stays exact in every step.
LEMMA NextUsed == IInv /\ UsedNumExact /\ [Next]_vars => UsedNumExact'
<1> SUFFICES ASSUME TypeOK, Locals, SingleOwner, UsedNumExact, [Next]_vars
             PROVE  UsedNumExact'
  BY DEF IInv
<1> USE DEF vars, tableVars, poolVars, localVars
<1>1. CASE UNCHANGED poolVars
  BY <1>1 DEF UsedNumExact
<1>2. CASE TakeFront
  <2>1. m_free_portpairs \in Seq(Pair) /\ m_free_portpairs # <<>>
        /\ m_used_num \in Nat
    BY <1>2 DEF TakeFront, TypeOK
  <2>2. /\ Len(m_free_portpairs)' = Len(m_free_portpairs) - 1
        /\ m_used_num' = m_used_num + 1
        /\ Len(m_free_portpairs) \in Nat /\ Len(PairList) \in Nat
    BY <1>2, <2>1, PairAssumption DEF TakeFront
  <2> QED
    BY <2>1, <2>2 DEF UsedNumExact
<1>3. ASSUME NEW w \in Worker, AddPortpair(w)
      PROVE  UsedNumExact'
  <2>1. Returning(w)
    BY <1>3 DEF AddPortpair, At, Returning
  <2>2. /\ Len(m_free_portpairs) < Len(PairList) /\ m_used_num \in Nat
        /\ Len(m_free_portpairs) \in Nat /\ Len(PairList) \in Nat
    BY <2>1, ListNotFull, PairAssumption DEF TypeOK
  <2>3. m_used_num > 0
    BY <2>2 DEF UsedNumExact
  <2>4. Len(m_free_portpairs)' = Len(m_free_portpairs) + 1
    BY <1>3, <2>1 DEF AddPortpair, TypeOK, Locals, LocalsOf, Returning
  <2> QED
    BY <1>3, <2>2, <2>3, <2>4 DEF AddPortpair, UsedNumExact
<1>4. ASSUME NEW w \in Worker, Handle(w)
      PROVE  UNCHANGED poolVars \/ TakeFront \/ AddPortpair(w)
  <2>1. CASE \/ FindContainer(w) \/ GetUserInRlock(w) \/ GetUserInWlock(w)
             \/ GetPortsInWlockFound(w) \/ GetPortsInWlockNew(w)
    BY <2>1 DEF FindContainer, GetUserInRlock, GetUserInWlock,
                GetPortsInWlockFound, GetPortsInWlockNew
  <2>2. CASE DelUserPortInfo(w) \/ RemoveUserInfo(w) \/ RemoveUserInfoCrash(w)
    BY <2>2 DEF DelUserPortInfo, RemoveUserInfo, RemoveUserInfoCrash, Crash
  <2>3. CASE \/ DelContainer(w) \/ SweepNext(w) \/ SweepCrash(w)
             \/ SweepClear(w)
    BY <2>3 DEF DelContainer, SweepNext, SweepCrash, SweepClear, Crash
  <2> QED
    BY <1>4, <2>1, <2>2, <2>3 DEF Handle
<1>5. ASSUME NEW w \in Worker, Receive(w)
      PROVE  UNCHANGED poolVars
  BY <1>5 DEF Receive, ReceiveGet, ReceiveFree, ReceiveOffline
<1>6. ASSUME NEW s \in SipProxy, Restart(s)
      PROVE  UNCHANGED poolVars
  BY <1>6 DEF Restart
<1> QED
  BY <1>1, <1>2, <1>3, <1>4, <1>5, <1>6 DEF Next, Dead

\* m_used_num is the number of pairs not in the list in every reachable state,
\* so the test that keeps it from going below zero never fails.
THEOREM CounterExact == Spec => []UsedNumExact
<1>1. Init => IInv /\ UsedNumExact
  <2>1. Init => UsedNumExact
    BY PairAssumption DEF Init, UsedNumExact
  <2> QED
    BY <2>1, InitTypes, InitOwner DEF IInv
<1>2. IInv /\ UsedNumExact /\ [Next]_vars => IInv' /\ UsedNumExact'
  BY NextTypes, NextOwner, NextUsed DEF IInv
<1> QED
  BY <1>1, <1>2, PTL DEF Spec

-----------------------------------------------------------------------------
(* Sweeps own the container they run through *)

\* A container is in the table under one SipProxy at most.
RegisteredOnce ==
  \A s, t \in SipProxy :
    m_user_portpair_info[s] = m_user_portpair_info[t]
    /\ m_user_portpair_info[s] # None => s = t

\* Nothing enters the table, and no worker gets a container to sweep.
LEMMA SweepQuiet ==
  ASSUME SweepExclusive, RegisteredOnce, UNCHANGED m_user_portpair_info,
         \A x \in Worker : Sweeping(x)' => Sweeping(x) /\ container'[x] = container[x]
  PROVE  SweepExclusive' /\ RegisteredOnce'
  BY DEF SweepExclusive, RegisteredOnce, Registered

\* A handler or a section that ends leaves the other workers' sweeps alone.
LEMMA EndOfSection ==
  ASSUME TypeOK, Locals, NEW w \in Worker,
         \/ Return(w)
         \/ AfterSweep(w)
         \/ AfterFree(w) /\ pc[w] \in {"del_find", "remove_user", "add_portpair"}
  PROVE  \A x \in Worker : Sweeping(x)' => Sweeping(x) /\ container'[x] = container[x]
<1>1. CASE Return(w)
  BY <1>1 DEF Return, Goto, TypeOK, Sweeping
<1>2. CASE AfterSweep(w)
  BY <1>1, <1>2 DEF AfterSweep, Goto, TypeOK, Sweeping
<1>3. CASE AfterFree(w) /\ pc[w] \in {"del_find", "remove_user", "add_portpair"}
  BY <1>1, <1>3 DEF AfterFree, Goto, TypeOK, Sweeping
<1> QED
  BY <1>1, <1>2, <1>3

\* Every step keeps the sweeps apart from each other and from the table.
LEMMA NextSweepExclusive ==
  TypeOK /\ Locals /\ SweepExclusive /\ RegisteredOnce /\ [Next]_vars
    => SweepExclusive' /\ RegisteredOnce'
<1> SUFFICES ASSUME TypeOK, Locals, SweepExclusive, RegisteredOnce, [Next]_vars
             PROVE  SweepExclusive' /\ RegisteredOnce'
  OBVIOUS
<1> USE DEF vars, tableVars, poolVars, localVars
<1> DEFINE Quiet ==
      \A x \in Worker : Sweeping(x)' => Sweeping(x) /\ container'[x] = container[x]
<1>1. ASSUME NEW w \in Worker, Receive(w)
      PROVE  SweepExclusive' /\ RegisteredOnce'
  <2>1. Quiet
    BY <1>1 DEF Receive, ReceiveGet, ReceiveFree, ReceiveOffline, Goto, TypeOK,
                Sweeping
  <2> QED
    BY <1>1, <2>1, SweepQuiet DEF Receive, ReceiveGet, ReceiveFree, ReceiveOffline
<1>2. ASSUME NEW w \in Worker, FindContainer(w)
      PROVE  SweepExclusive' /\ RegisteredOnce'
  <2>1. Quiet
    BY <1>2 DEF FindContainer, At, Goto, TypeOK, Sweeping
  <2> QED
    BY <1>2, <2>1, SweepQuiet DEF FindContainer
<1>3. ASSUME NEW w \in Worker, GetUserInRlock(w) \/ GetUserInWlock(w)
      PROVE  SweepExclusive' /\ RegisteredOnce'
  <2>1. Quiet
    BY <1>3, EndOfSection
       DEF GetUserInRlock, GetUserInWlock, Goto, TypeOK, Sweeping
  <2> QED
    BY <1>3, <2>1, SweepQuiet DEF GetUserInRlock, GetUserInWlock
<1>4. ASSUME NEW w \in Worker, GetPortsInWlockFound(w)
      PROVE  SweepExclusive' /\ RegisteredOnce'
  <2>1. Quiet
    BY <1>4, EndOfSection DEF GetPortsInWlockFound, Goto, TypeOK, Sweeping
  <2> QED
    BY <1>4, <2>1, SweepQuiet DEF GetPortsInWlockFound
<1>5. ASSUME NEW w \in Worker, GetPortsInWlockNew(w)
      PROVE  SweepExclusive' /\ RegisteredOnce'
  <2>1. Quiet
    BY <1>5, EndOfSection DEF GetPortsInWlockNew
  <2>2. CASE UNCHANGED tableVars
    BY <2>1, <2>2, SweepQuiet
  <2>3. ASSUME NEW c \in Container, ~Live(c),
               m_user_portpair_info' = [m_user_portpair_info EXCEPT ![req[w].sip] = c]
        PROVE  SweepExclusive' /\ RegisteredOnce'
    <3>1. /\ \A s \in SipProxy : m_user_portpair_info[s] # c
          /\ \A x \in Worker : container[x] # c
      BY <2>3 DEF Live
    <3>2. SweepExclusive'
      BY <2>1, <2>3, <3>1 DEF SweepExclusive, Registered, TypeOK
    <3>3. RegisteredOnce'
      BY <2>3, <3>1 DEF RegisteredOnce, TypeOK
    <3> QED
      BY <3>2, <3>3
  <2> QED
    BY <1>5, <2>2, <2>3 DEF GetPortsInWlockNew
<1>6. ASSUME NEW w \in Worker, DelUserPortInfo(w)
      PROVE  SweepExclusive' /\ RegisteredOnce'
  <2>1. Quiet
    BY <1>6, EndOfSection DEF DelUserPortInfo, At, Goto, TypeOK, Sweeping
  <2> QED
    BY <1>6, <2>1, SweepQuiet DEF DelUserPortInfo
<1>7. ASSUME NEW w \in Worker, RemoveUserInfo(w)
      PROVE  SweepExclusive' /\ RegisteredOnce'
  <2>1. Quiet
    BY <1>7, EndOfSection DEF RemoveUserInfo, At, Goto, TypeOK, Sweeping
  <2> QED
    BY <1>7, <2>1, SweepQuiet DEF RemoveUserInfo
<1>8. ASSUME NEW w \in Worker, AddPortpair(w)
      PROVE  SweepExclusive' /\ RegisteredOnce'
  <2>1. Quiet
    BY <1>8, EndOfSection DEF AddPortpair, At
  <2> QED
    BY <1>8, <2>1, SweepQuiet DEF AddPortpair
<1>9. ASSUME NEW w \in Worker, DelContainer(w)
      PROVE  SweepExclusive' /\ RegisteredOnce'
  <2>0. PICK s \in SipProxy : s = req[w].sip
    BY <1>9 DEF DelContainer, At, Locals, LocalsOf, Request
  <2>1. CASE AfterSweep(w) /\ UNCHANGED m_user_portpair_info
    BY <2>1, EndOfSection, SweepQuiet
  <2>2. ASSUME NEW c \in Container, c = m_user_portpair_info[s],
               m_user_portpair_info' = [m_user_portpair_info EXCEPT ![s] = None],
               container' = [container EXCEPT ![w] = c],
               Goto(w, "sweep"),
               UNCHANGED req
        PROVE  SweepExclusive' /\ RegisteredOnce'
    <3>1. c # None
      BY NoneAssumption
    <3>2. ~Registered(c)'
      BY <2>2, <3>1 DEF Registered, RegisteredOnce, TypeOK
    <3>3. \A x \in Worker : x # w => /\ Sweeping(x)' = Sweeping(x)
                                     /\ container'[x] = container[x]
      BY <2>2 DEF Goto, Sweeping, TypeOK
    <3>4. \A x \in Worker : x # w /\ Sweeping(x) => container[x] # c
      BY <2>2 DEF SweepExclusive, Registered
    <3>5. \A d : Registered(d)' => Registered(d) \/ d = None
      BY <2>2 DEF Registered, TypeOK
    <3>6. SweepExclusive'
      <4>1. container'[w] = c
        BY <2>2 DEF TypeOK
      <4> QED
        BY <2>2, <3>1, <3>2, <3>3, <3>4, <3>5, <4>1 DEF SweepExclusive
    <3>7. RegisteredOnce'
      BY <2>2 DEF RegisteredOnce, TypeOK
    <3> QED
      BY <3>6, <3>7
  <2> QED
    BY <1>9, <2>0, <2>1, <2>2 DEF DelContainer, TypeOK
<1>10. ASSUME NEW w \in Worker, SweepNext(w)
       PROVE  SweepExclusive' /\ RegisteredOnce'
  <2>1. req[w].op # "free"
    BY <1>10 DEF SweepNext, At, Locals, LocalsOf
  <2>2. Quiet
    BY <1>10, <2>1 DEF SweepNext, At, Goto, TypeOK, Sweeping
  <2> QED
    BY <1>10, <2>2, SweepQuiet DEF SweepNext
<1>11. ASSUME NEW w \in Worker, SweepClear(w)
       PROVE  SweepExclusive' /\ RegisteredOnce'
  BY <1>11, EndOfSection, SweepQuiet DEF SweepClear
<1>12. CASE \/ \E w \in Worker : RemoveUserInfoCrash(w) \/ SweepCrash(w)
            \/ \E s \in SipProxy : Restart(s)
            \/ UNCHANGED vars
  <2>1. Quiet
    BY <1>12 DEF RemoveUserInfoCrash, SweepCrash, Crash, Restart, Sweeping
  <2> QED
    BY <1>12, <2>1, SweepQuiet DEF RemoveUserInfoCrash, SweepCrash, Crash, Restart
<1> QED
  BY <1>1, <1>2, <1>3, <1>4, <1>5, <1>6, <1>7, <1>8, <1>9, <1>10, <1>11, <1>12
     DEF Next, Handle, Dead

\* A container that deal_dead_sipproxy runs through is out of the table and in
\* no other sweep.
THEOREM SweepsAreExclusive == Spec => []SweepExclusive
<1>1. Init => SweepExclusive /\ RegisteredOnce
  BY DEF Init, SweepExclusive, RegisteredOnce, Registered, Sweeping
<1>2. Spec => [](TypeOK /\ Locals /\ SweepExclusive /\ RegisteredOnce)
  BY <1>1, InitTypes, NextTypes, NextSweepExclusive, PTL DEF Spec
<1> QED
  BY <1>2, PTL

-----------------------------------------------------------------------------
(* Records go to the login that asks *)

\* A worker past the comparison still refers to a container of its login.
CheckedLogin ==
  \A w \in Worker : pc[w] \in {"user_rlock", "user_wlock"} =>
    m_sipproxy_fake_id[container[w]] = req[w].login

\* Containers keep their login; a worker that newly passed the comparison
\* compared it.
LEMMA CheckedQuiet ==
  ASSUME CheckedLogin, UNCHANGED m_sipproxy_fake_id,
         \A x \in Worker : pc'[x] \in {"user_rlock", "user_wlock"} =>
           \/ /\ pc[x] \in {"user_rlock", "user_wlock"}
              /\ container'[x] = container[x] /\ req'[x] = req[x]
           \/ m_sipproxy_fake_id[container'[x]] = req'[x].login
  PROVE  CheckedLogin'
  BY DEF CheckedLogin

\* Every step keeps the comparison true of the containers workers refer to.
LEMMA NextCheckedLogin ==
  TypeOK /\ Locals /\ CheckedLogin /\ [Next]_vars => CheckedLogin'
<1> SUFFICES ASSUME TypeOK, Locals, CheckedLogin, [Next]_vars
             PROVE  CheckedLogin'
  OBVIOUS
<1> USE DEF vars, tableVars, poolVars, localVars
<1> DEFINE Quiet ==
      \A x \in Worker : pc'[x] \in {"user_rlock", "user_wlock"} =>
        \/ /\ pc[x] \in {"user_rlock", "user_wlock"}
           /\ container'[x] = container[x] /\ req'[x] = req[x]
        \/ m_sipproxy_fake_id[container'[x]] = req'[x].login
<1>1. ASSUME NEW w \in Worker, Receive(w)
      PROVE  CheckedLogin'
  <2>1. Quiet
    BY <1>1 DEF Receive, ReceiveGet, ReceiveFree, ReceiveOffline, Goto, TypeOK
  <2> QED
    BY <1>1, <2>1, CheckedQuiet DEF Receive, ReceiveGet, ReceiveFree, ReceiveOffline
<1>2. ASSUME NEW w \in Worker, FindContainer(w)
      PROVE  CheckedLogin'
  <2>1. Quiet
    BY <1>2 DEF FindContainer, Goto, TypeOK
  <2> QED
    BY <1>2, <2>1, CheckedQuiet DEF FindContainer
<1>3. ASSUME NEW w \in Worker,
             GetUserInRlock(w) \/ GetUserInWlock(w) \/ GetPortsInWlockFound(w)
      PROVE  CheckedLogin'
  <2>1. Quiet
    BY <1>3 DEF GetUserInRlock, GetUserInWlock, GetPortsInWlockFound, At, Return,
                Goto, TypeOK
  <2> QED
    BY <1>3, <2>1, CheckedQuiet
       DEF GetUserInRlock, GetUserInWlock, GetPortsInWlockFound
<1>4. ASSUME NEW w \in Worker, GetPortsInWlockNew(w)
      PROVE  CheckedLogin'
  <2>1. \A x \in Worker : pc'[x] \in {"user_rlock", "user_wlock"} =>
          /\ pc[x] \in {"user_rlock", "user_wlock"}
          /\ container'[x] = container[x] /\ req'[x] = req[x]
    BY <1>4 DEF GetPortsInWlockNew, Return, Goto, TypeOK
  <2>2. CASE UNCHANGED tableVars
    BY <2>1, <2>2 DEF CheckedLogin
  <2>3. ASSUME NEW c \in Container, ~Live(c),
               m_sipproxy_fake_id' = [m_sipproxy_fake_id EXCEPT ![c] = req[w].login]
        PROVE  CheckedLogin'
    <3>1. \A x \in Worker : pc[x] \in {"user_rlock", "user_wlock"} =>
            m_sipproxy_fake_id'[container[x]] = m_sipproxy_fake_id[container[x]]
      BY <2>3 DEF Live, TypeOK, Locals, LocalsOf
    <3> QED
      BY <2>1, <3>1 DEF CheckedLogin
  <2> QED
    BY <1>4, <2>2, <2>3 DEF GetPortsInWlockNew
<1>5. ASSUME NEW w \in Worker,
             DelUserPortInfo(w) \/ RemoveUserInfo(w) \/ AddPortpair(w)
      PROVE  CheckedLogin'
  <2>1. Quiet
    BY <1>5 DEF DelUserPortInfo, RemoveUserInfo, AddPortpair, At, AfterFree, Return,
                Goto, TypeOK
  <2> QED
    BY <1>5, <2>1, CheckedQuiet DEF DelUserPortInfo, RemoveUserInfo, AddPortpair
<1>6. ASSUME NEW w \in Worker, DelContainer(w) \/ SweepNext(w) \/ SweepClear(w)
      PROVE  CheckedLogin'
  <2>1. Quiet
    BY <1>6 DEF DelContainer, SweepNext, SweepClear, At, AfterSweep, Return, Goto,
                TypeOK
  <2> QED
    BY <1>6, <2>1, CheckedQuiet DEF DelContainer, SweepNext, SweepClear
<1>7. CASE \/ \E w \in Worker : RemoveUserInfoCrash(w) \/ SweepCrash(w)
           \/ \E s \in SipProxy : Restart(s)
           \/ UNCHANGED vars
  <2>1. UNCHANGED <<m_sipproxy_fake_id, container, req, pc>>
    BY <1>7 DEF RemoveUserInfoCrash, SweepCrash, Crash, Restart
  <2> QED
    BY <2>1 DEF CheckedLogin
<1> QED
  BY <1>1, <1>2, <1>3, <1>4, <1>5, <1>6, <1>7 DEF Next, Handle, Dead

\* Only the two sections that take a pair add a record.
LEMMA NewRecord ==
  TypeOK /\ Locals /\ CheckedLogin /\ [Next]_vars => [RecordForItsLogin]_vars
<1> SUFFICES ASSUME TypeOK, Locals, CheckedLogin, Next
             PROVE  RecordForItsLogin
  OBVIOUS
<1> USE DEF vars, tableVars, poolVars, localVars
<1>1. CASE UNCHANGED m_user_infos
  BY <1>1 DEF RecordForItsLogin
<1>2. ASSUME NEW w \in Worker, GetUserInWlock(w)
      PROVE  RecordForItsLogin
  <2> DEFINE c == container[w]
             u == req[w].user
  <2>1. /\ c \in Container /\ u \in User
        /\ pc[w] = "user_wlock"
        /\ m_sipproxy_fake_id'[c] = req[w].login
    BY <1>2 DEF GetUserInWlock, At, Locals, LocalsOf, CheckedLogin
  <2>2. \A d \in Container, v \in User :
          d # c \/ v # u => m_user_infos'[d][v] = m_user_infos[d][v]
    BY <1>2, <2>1 DEF GetUserInWlock, TypeOK
  <2> QED
    BY <2>1, <2>2 DEF RecordForItsLogin
<1>3. ASSUME NEW w \in Worker, GetPortsInWlockNew(w), ~UNCHANGED m_user_infos
      PROVE  RecordForItsLogin
  <2>1. PICK c \in Container :
          /\ m_sipproxy_fake_id' = [m_sipproxy_fake_id EXCEPT ![c] = req[w].login]
          /\ m_user_infos' = [m_user_infos EXCEPT
               ![c] = OnlyUser(req[w].user, Head(m_free_portpairs))]
    BY <1>3 DEF GetPortsInWlockNew
  <2>2. pc[w] = "ports_wlock" /\ m_sipproxy_fake_id'[c] = req[w].login
    BY <1>3, <2>1 DEF GetPortsInWlockNew, At, TypeOK
  <2>3. \A d \in Container, v \in User :
          d # c \/ v # req[w].user => m_user_infos'[d][v] \in {None, m_user_infos[d][v]}
    BY <2>1 DEF TypeOK, OnlyUser, NoUsers
  <2> QED
    BY <2>2, <2>3 DEF RecordForItsLogin
<1>4. ASSUME NEW w \in Worker, RemoveUserInfo(w)
      PROVE  RecordForItsLogin
  <2>1. ASSUME NEW c \in IteratorTargets(w),
               m_user_infos' = [m_user_infos EXCEPT ![c][key[w]] = None]
        PROVE  RecordForItsLogin
    <3>1. c \in Container /\ key[w] \in User
      BY <1>4 DEF RemoveUserInfo, At, Locals, LocalsOf, IteratorTargets, TypeOK
    <3>2. \A d \in Container, v \in User :
            m_user_infos'[d][v] \in {None, m_user_infos[d][v]}
      BY <2>1, <3>1 DEF TypeOK
    <3> QED
      BY <3>2 DEF RecordForItsLogin
  <2> QED
    BY <1>1, <1>4, <2>1 DEF RemoveUserInfo
<1>5. ASSUME NEW w \in Worker, SweepClear(w)
      PROVE  RecordForItsLogin
  BY <1>5 DEF SweepClear, NoUsers, TypeOK, RecordForItsLogin
<1>6. ASSUME NEW w \in Worker, Handle(w)
      PROVE  \/ UNCHANGED m_user_infos
             \/ GetUserInWlock(w) \/ GetPortsInWlockNew(w)
             \/ RemoveUserInfo(w) \/ SweepClear(w)
  BY <1>6 DEF Handle, FindContainer, GetUserInRlock, GetPortsInWlockFound,
              DelUserPortInfo, RemoveUserInfoCrash, AddPortpair, DelContainer,
              SweepNext, SweepCrash, Crash
<1>7. ASSUME NEW w \in Worker, Receive(w)
      PROVE  UNCHANGED m_user_infos
  BY <1>7 DEF Receive, ReceiveGet, ReceiveFree, ReceiveOffline
<1>8. ASSUME NEW s \in SipProxy, Restart(s)
      PROVE  UNCHANGED m_user_infos
  BY <1>8 DEF Restart
<1> QED
  BY <1>1, <1>2, <1>3, <1>4, <1>5, <1>6, <1>7, <1>8 DEF Next, Dead

\* No login's request is ever served from another login's container.
THEOREM RecordsGoToTheirLogin == Spec => RecordsOfOwnLogin
<1>1. Init => CheckedLogin
  BY DEF Init, CheckedLogin
<1>2. Spec => [](TypeOK /\ Locals /\ CheckedLogin)
  BY <1>1, InitTypes, NextTypes, NextCheckedLogin, PTL DEF Spec
<1> QED
  BY <1>2, NewRecord, PTL DEF Spec, RecordsOfOwnLogin

-----------------------------------------------------------------------------
(***************************************************************************)
(* PortPool implements PortLedger, for every value of its constants: each  *)
(* step of the pool moves every pair as the ledger allows, or not at all.  *)
(***************************************************************************)
(* Where pairs are. *)

Listed(p) == \E i \in 1 .. Len(m_free_portpairs) : m_free_portpairs[i] = p
ComingBack(p) == \E w \in Worker : Returning(w) /\ ports[w] = p
In(r, p) == Live(r.con) /\ m_user_infos[r.con][r.user] = p

\* How a step may change where pairs are: what is listed came back, what comes
\* back was in a record, what a record holds was listed, and what comes back
\* does so until it is listed.
Moves ==
  \A p \in Pair :
    /\ Listed(p)' => Listed(p) \/ ComingBack(p)
    /\ ComingBack(p)' => ComingBack(p) \/ \E r \in Records : In(r, p)
    /\ \A r \in Records : In(r, p)' => In(r, p) \/ Listed(p)
    /\ ComingBack(p) => ComingBack(p)' \/ Listed(p)'

\* A pair is in one of these places and in one record at most.
LEMMA PlacesApart ==
  ASSUME TypeOK, Locals, SingleOwner, NEW p \in Pair
  PROVE  /\ Listed(p) => ~ComingBack(p) /\ \A r \in Records : ~In(r, p)
         /\ ComingBack(p) => \A r \in Records : ~In(r, p)
         /\ \A r, q \in Records : In(r, p) /\ In(q, p) => r = q
<1> USE DEF SingleOwner, Records
<1>1. Listed(p) => ~ComingBack(p)
  BY DEF Listed, ComingBack, ReturningNotListed
<1>2. Listed(p) => \A r \in Records : ~In(r, p)
  BY DEF Listed, In, ListedNotRecorded
<1>3. ComingBack(p) => \A r \in Records : ~In(r, p)
  BY DEF ComingBack, In, ReturningNotRecorded
<1>4. \A r, q \in Records : In(r, p) /\ In(q, p) => r = q
  BY NoneAssumption DEF In, RecordedOnce
<1> QED BY <1>1, <1>2, <1>3, <1>4

-----------------------------------------------------------------------------
(* Kinds of steps. *)

\* No container comes to life, and the workers that return pairs go on.
LiveShrinks == \A c \in Container : Live(c)' => Live(c)
ReturningSame ==
  \A x \in Worker : /\ Returning(x)' <=> Returning(x)
                    /\ Returning(x) => ports'[x] = ports[x]

\* A step that moves no pair but into oblivion.
LEMMA QuietMoves ==
  ASSUME LiveShrinks, RecordsShrink, ReturningSame, UNCHANGED m_free_portpairs
  PROVE  Moves
<1> SUFFICES ASSUME NEW p \in Pair
             PROVE  /\ Listed(p)' => Listed(p)
                    /\ ComingBack(p)' <=> ComingBack(p)
                    /\ \A r \in Records : In(r, p)' => In(r, p)
  BY DEF Moves
<1>1. Listed(p)' => Listed(p)
  BY DEF Listed
<1>2. ComingBack(p)' <=> ComingBack(p)
  BY DEF ComingBack, ReturningSame
<1>3. ASSUME NEW r \in Records, In(r, p)' PROVE In(r, p)
  BY <1>3, NoneAssumption DEF In, Records, RecordsShrink, LiveShrinks
<1> QED BY <1>1, <1>2, <1>3

\* A step that puts the first listed pair into a record.
LEMMA TakeMoves ==
  ASSUME TypeOK, TakeFront, ReturningSame, NEW c \in Container, NEW u \in User,
         \A d \in Container : d # c => (Live(d)' => Live(d)),
         m_user_infos'[c][u] = Head(m_free_portpairs),
         \A d \in Container, v \in User :
           c # d \/ u # v => /\ m_user_infos'[d][v] \in {None, m_user_infos[d][v]}
                             /\ m_user_infos'[d][v] # None => (Live(d)' => Live(d))
  PROVE  Moves
<1> SUFFICES ASSUME NEW p \in Pair
             PROVE  /\ Listed(p)' => Listed(p)
                    /\ ComingBack(p)' <=> ComingBack(p)
                    /\ \A r \in Records : In(r, p)' => In(r, p) \/ Listed(p)
  BY DEF Moves
<1>1. m_free_portpairs \in Seq(Pair) /\ m_free_portpairs # <<>>
      /\ m_free_portpairs' = Tail(m_free_portpairs)
  BY DEF TypeOK, TakeFront
<1>2. Listed(p)' => Listed(p)
  <2> SUFFICES ASSUME NEW i \in 1 .. Len(m_free_portpairs'),
                      m_free_portpairs'[i] = p
               PROVE  Listed(p)
    BY DEF Listed
  <2>1. i + 1 \in 1 .. Len(m_free_portpairs) /\ m_free_portpairs[i + 1] = p
    BY <1>1
  <2> QED BY <2>1 DEF Listed
<1>3. ComingBack(p)' <=> ComingBack(p)
  BY DEF ComingBack, ReturningSame
<1>4. ASSUME NEW r \in Records, In(r, p)' PROVE In(r, p) \/ Listed(p)
  <2>1. CASE r.con = c /\ r.user = u
    <3>1. p = Head(m_free_portpairs)
      BY <1>4, <2>1 DEF In
    <3>2. p = m_free_portpairs[1] /\ 1 \in 1 .. Len(m_free_portpairs)
      BY <1>1, <3>1
    <3> QED BY <3>2 DEF Listed
  <2>2. CASE r.con # c \/ r.user # u
    BY <1>4, <2>2, NoneAssumption DEF In, Records
  <2> QED BY <2>1, <2>2
<1> QED BY <1>2, <1>3, <1>4

\* A step by which a worker takes a pair out of a record in use.
LEMMA RemoveMoves ==
  ASSUME TypeOK, UNCHANGED m_free_portpairs, LiveShrinks,
         NEW w \in Worker, NEW c \in Container, NEW u \in User, Live(c),
         m_user_infos' = [m_user_infos EXCEPT ![c][u] = None],
         ports'[w] = m_user_infos[c][u], ~Returning(w),
         \A x \in Worker : x # w => /\ Returning(x)' <=> Returning(x)
                                    /\ ports'[x] = ports[x]
  PROVE  Moves
<1> SUFFICES ASSUME NEW p \in Pair
             PROVE  /\ Listed(p)' => Listed(p)
                    /\ ComingBack(p)' => ComingBack(p) \/ \E r \in Records : In(r, p)
                    /\ \A r \in Records : In(r, p)' => In(r, p)
                    /\ ComingBack(p) => ComingBack(p)'
  BY DEF Moves
<1>1. Listed(p)' => Listed(p)
  BY DEF Listed
<1>2. ASSUME NEW x \in Worker, Returning(x)', ports'[x] = p
      PROVE  ComingBack(p) \/ \E r \in Records : In(r, p)
  <2>1. CASE x # w
    BY <1>2, <2>1 DEF ComingBack
  <2>2. CASE x = w
    <3>1. [con |-> c, user |-> u] \in Records
      BY DEF Records
    <3>2. In([con |-> c, user |-> u], p)
      BY <1>2, <2>2 DEF In
    <3> QED BY <3>1, <3>2
  <2> QED BY <2>1, <2>2
<1>3. ASSUME NEW r \in Records, In(r, p)' PROVE In(r, p)
  BY <1>3, NoneAssumption DEF In, Records, TypeOK, LiveShrinks
<1>4. ComingBack(p) => ComingBack(p)'
  BY DEF ComingBack
<1> QED BY <1>1, <1>2, <1>3, <1>4 DEF ComingBack

\* A step by which a worker puts its pair back at the end of the list.
LEMMA AddMoves ==
  ASSUME TypeOK, Locals, UNCHANGED m_user_infos, LiveShrinks,
         NEW w \in Worker, Returning(w),
         m_free_portpairs' = Append(m_free_portpairs, ports[w]),
         \A x \in Worker : x # w => /\ Returning(x)' <=> Returning(x)
                                    /\ ports'[x] = ports[x],
         ~Returning(w)'
  PROVE  Moves
<1> DEFINE n == Len(m_free_portpairs)
<1>1. n \in Nat /\ m_free_portpairs \in Seq(Pair) /\ ports[w] \in Pair
  BY DEF TypeOK, Locals, LocalsOf, Returning
<1>2. /\ Len(m_free_portpairs') = n + 1 /\ m_free_portpairs'[n + 1] = ports[w]
      /\ \A i \in 1 .. n : m_free_portpairs'[i] = m_free_portpairs[i]
  BY <1>1
<1> SUFFICES ASSUME NEW p \in Pair
             PROVE  /\ Listed(p)' => Listed(p) \/ ComingBack(p)
                    /\ ComingBack(p)' => ComingBack(p)
                    /\ \A r \in Records : In(r, p)' => In(r, p)
                    /\ ComingBack(p) => ComingBack(p)' \/ Listed(p)'
  BY DEF Moves
<1>3. Listed(p)' => Listed(p) \/ ComingBack(p)
  <2> SUFFICES ASSUME NEW i \in 1 .. Len(m_free_portpairs'),
                      m_free_portpairs'[i] = p
               PROVE  Listed(p) \/ ComingBack(p)
    BY DEF Listed
  <2>1. i \in 1 .. n \/ i = n + 1
    BY <1>1, <1>2
  <2>2. CASE i \in 1 .. n
    BY <1>2, <2>2 DEF Listed
  <2>3. CASE i = n + 1
    BY <1>2, <2>3 DEF ComingBack
  <2> QED BY <2>1, <2>2, <2>3
<1>4. ComingBack(p)' => ComingBack(p)
  BY DEF ComingBack
<1>5. \A r \in Records : In(r, p)' => In(r, p)
  BY DEF In, LiveShrinks, Records
<1>6. ASSUME NEW x \in Worker, Returning(x), ports[x] = p
      PROVE  ComingBack(p)' \/ Listed(p)'
  <2>1. CASE x # w
    BY <1>6, <2>1 DEF ComingBack
  <2>2. CASE x = w
    <3>1. n + 1 \in 1 .. Len(m_free_portpairs')
      BY <1>1, <1>2
    <3> QED BY <1>2, <1>6, <2>2, <3>1 DEF Listed
  <2> QED BY <2>1, <2>2
<1> QED BY <1>3, <1>4, <1>5, <1>6 DEF ComingBack

\* Leaving a section drops references and returns no pair.
LEMMA LeaveQuiet ==
  ASSUME TypeOK, NEW w \in Worker, Return(w) \/ AfterFree(w) \/ AfterSweep(w),
         \A s \in SipProxy : m_user_portpair_info'[s] = m_user_portpair_info[s]
  PROVE  /\ LiveShrinks /\ ~Returning(w)'
         /\ \A x \in Worker : x # w => /\ Returning(x)' <=> Returning(x)
                                       /\ ports'[x] = ports[x]
<1>1. \A x \in Worker : container'[x] \in {None, container[x]}
  BY DEF Return, AfterFree, AfterSweep, Goto, TypeOK
<1>2. LiveShrinks
  BY <1>1, NoneAssumption DEF LiveShrinks, Live
<1> QED
  BY <1>2 DEF Return, AfterFree, AfterSweep, Goto, TypeOK, Returning

-----------------------------------------------------------------------------
(* Every step. *)

\* Every step of the pool is of one of these kinds.
LEMMA NextMoves == IInv /\ [Next]_vars => Moves
<1> SUFFICES ASSUME TypeOK, Locals, SingleOwner, [Next]_vars
             PROVE  Moves
  BY DEF IInv
<1> USE DEF vars, tableVars, poolVars, localVars
<1>0. /\ UNCHANGED m_user_infos => RecordsShrink
      /\ UNCHANGED <<tableVars, container>> => LiveShrinks
      /\ UNCHANGED <<pc, ports>> => ReturningSame
  BY DEF RecordsShrink, LiveShrinks, Live, ReturningSame, Returning
<1>1. ASSUME NEW w \in Worker, Receive(w) PROVE Moves
  <2>1. ReturningSame
    BY <1>1 DEF Receive, ReceiveGet, ReceiveFree, ReceiveOffline, At, Goto, TypeOK,
                ReturningSame, Returning
  <2> QED
    BY <1>0, <1>1, <2>1, QuietMoves
       DEF Receive, ReceiveGet, ReceiveFree, ReceiveOffline
<1>2. ASSUME NEW w \in Worker, FindContainer(w) PROVE Moves
  <2>1. ReturningSame
    BY <1>2 DEF FindContainer, At, Goto, TypeOK, ReturningSame, Returning
  <2>2. req[w].sip \in SipProxy
    BY <1>2 DEF FindContainer, At, Locals, LocalsOf, Request
  <2>3. LiveShrinks
    BY <1>2, <2>2 DEF FindContainer, LiveShrinks, Live, TypeOK
  <2> QED
    BY <1>0, <1>2, <2>1, <2>3, QuietMoves DEF FindContainer
<1>3. ASSUME NEW w \in Worker, GetUserInRlock(w) PROVE Moves
  <2>1. CASE Return(w)
    <3>1. LiveShrinks /\ ReturningSame
      BY <1>3, <2>1, LeaveQuiet DEF GetUserInRlock, At, ReturningSame, Returning
    <3> QED BY <1>0, <1>3, <3>1, QuietMoves DEF GetUserInRlock
  <2>2. CASE Goto(w, "user_wlock") /\ UNCHANGED <<req, localVars>>
    <3>1. ReturningSame
      BY <1>3, <2>2 DEF GetUserInRlock, At, Goto, TypeOK, ReturningSame, Returning
    <3> QED BY <1>0, <1>3, <2>2, <3>1, QuietMoves DEF GetUserInRlock
  <2> QED BY <1>3, <2>1, <2>2 DEF GetUserInRlock
<1>4. ASSUME NEW w \in Worker, GetUserInWlock(w) PROVE Moves
  <2> DEFINE c == container[w]
             u == req[w].user
  <2>1. LiveShrinks /\ ReturningSame
    BY <1>4, LeaveQuiet DEF GetUserInWlock, At, ReturningSame, Returning
  <2>2. CASE UNCHANGED <<m_user_infos, poolVars>>
    BY <1>0, <2>1, <2>2, QuietMoves
  <2>3. CASE /\ TakeFront
             /\ m_user_infos' =
                  [m_user_infos EXCEPT ![c][u] = Head(m_free_portpairs)]
    <3>1. c \in Container /\ u \in User
      BY <1>4 DEF GetUserInWlock, At, Locals, LocalsOf
    <3>2. /\ m_user_infos'[c][u] = Head(m_free_portpairs)
          /\ \A d \in Container, v \in User :
               c # d \/ u # v => m_user_infos'[d][v] = m_user_infos[d][v]
      BY <2>3, <3>1 DEF TypeOK
    <3> QED
      BY <2>1, <2>3, <3>1, <3>2, TakeMoves DEF LiveShrinks
  <2> QED
    BY <1>4, <2>2, <2>3 DEF GetUserInWlock
<1>5. ASSUME NEW w \in Worker, GetPortsInWlockFound(w) PROVE Moves
  <2>1. CASE Return(w)
    <3>1. LiveShrinks /\ ReturningSame
      BY <1>5, <2>1, LeaveQuiet DEF GetPortsInWlockFound, At, ReturningSame, Returning
    <3> QED BY <1>0, <1>5, <3>1, QuietMoves DEF GetPortsInWlockFound
  <2>2. CASE /\ container' = [container EXCEPT ![w] = m_user_portpair_info[req[w].sip]]
             /\ Goto(w, "user_rlock") /\ UNCHANGED <<req, it, key, ports>>
    <3>1. ReturningSame
      BY <1>5, <2>2
         DEF GetPortsInWlockFound, At, Goto, TypeOK, ReturningSame, Returning
    <3>2. req[w].sip \in SipProxy
      BY <1>5 DEF GetPortsInWlockFound, At, Locals, LocalsOf, Request
    <3>3. LiveShrinks
      BY <1>5, <2>2, <3>2 DEF GetPortsInWlockFound, LiveShrinks, Live, TypeOK
    <3> QED BY <1>0, <1>5, <3>1, <3>3, QuietMoves DEF GetPortsInWlockFound
  <2> QED BY <1>5, <2>1, <2>2 DEF GetPortsInWlockFound
<1>6. ASSUME NEW w \in Worker, GetPortsInWlockNew(w) PROVE Moves
  <2> DEFINE u == req[w].user
             s == req[w].sip
  <2>0. /\ u \in User /\ Return(w)
        /\ \A x \in Worker : container'[x] \in {None, container[x]}
    BY <1>6 DEF GetPortsInWlockNew, At, Locals, LocalsOf, Return, TypeOK
  <2>1. ReturningSame
    BY <1>6 DEF GetPortsInWlockNew, At, Return, Goto, TypeOK, ReturningSame, Returning
  <2>2. CASE UNCHANGED <<tableVars, m_user_infos, poolVars>>
    <3>1. LiveShrinks
      BY <2>0, <2>2, LeaveQuiet
    <3> QED BY <1>0, <2>1, <2>2, <3>1, QuietMoves
  <2>3. ASSUME NEW c \in Container, ~Live(c), TakeFront,
               m_user_portpair_info' = [m_user_portpair_info EXCEPT ![s] = c],
               m_user_infos' = [m_user_infos EXCEPT
                 ![c] = OnlyUser(u, Head(m_free_portpairs))]
        PROVE  Moves
    <3>1. \A d \in Container : d # c => (Live(d)' => Live(d))
      BY <2>0, <2>3, NoneAssumption DEF Live, TypeOK
    <3>2. /\ m_user_infos'[c][u] = Head(m_free_portpairs)
          /\ \A v \in User : u # v => m_user_infos'[c][v] = None
          /\ \A d \in Container : c # d => m_user_infos'[d] = m_user_infos[d]
      BY <2>0, <2>3 DEF TypeOK, OnlyUser, NoUsers
    <3> QED
      BY <2>0, <2>1, <2>3, <3>1, <3>2, TakeMoves
  <2> QED
    BY <1>6, <2>2, <2>3 DEF GetPortsInWlockNew
<1>7. ASSUME NEW w \in Worker, DelUserPortInfo(w) PROVE Moves
  <2>1. CASE AfterFree(w)
    <3>1. LiveShrinks /\ ReturningSame
      BY <1>7, <2>1, LeaveQuiet DEF DelUserPortInfo, At, ReturningSame, Returning
    <3> QED BY <1>0, <1>7, <3>1, QuietMoves DEF DelUserPortInfo
  <2>2. CASE Goto(w, "remove_user") /\ UNCHANGED <<req, container, key, ports>>
    <3>1. ReturningSame
      BY <1>7, <2>2 DEF DelUserPortInfo, At, Goto, TypeOK, ReturningSame, Returning
    <3> QED BY <1>0, <1>7, <2>2, <3>1, QuietMoves DEF DelUserPortInfo
  <2> QED BY <1>7, <2>1, <2>2 DEF DelUserPortInfo
<1>8. ASSUME NEW w \in Worker, RemoveUserInfo(w) PROVE Moves
  <2>0. ~Returning(w)
    BY <1>8 DEF RemoveUserInfo, At, Returning
  <2>1. CASE AfterFree(w) /\ UNCHANGED m_user_infos
    <3>1. LiveShrinks /\ ReturningSame
      BY <1>8, <2>0, <2>1, LeaveQuiet DEF RemoveUserInfo, ReturningSame
    <3> QED BY <1>0, <1>8, <2>1, <3>1, QuietMoves DEF RemoveUserInfo
  <2>2. ASSUME NEW c \in IteratorTargets(w), Live(c),
               m_user_infos' = [m_user_infos EXCEPT ![c][key[w]] = None],
               ports' = [ports EXCEPT ![w] = m_user_infos[c][key[w]]],
               Goto(w, "add_portpair"), UNCHANGED container
        PROVE  Moves
    <3>1. key[w] \in User /\ c \in Container
      BY <1>8 DEF RemoveUserInfo, At, Locals, LocalsOf, IteratorTargets, TypeOK
    <3>2. /\ ports'[w] = m_user_infos[c][key[w]]
          /\ \A x \in Worker : x # w => /\ Returning(x)' <=> Returning(x)
                                        /\ ports'[x] = ports[x]
      BY <2>2 DEF Goto, TypeOK, Returning
    <3>3. UNCHANGED m_free_portpairs /\ LiveShrinks
      BY <1>0, <1>8, <2>2 DEF RemoveUserInfo
    <3> QED
      BY <2>0, <2>2, <3>1, <3>2, <3>3, RemoveMoves
  <2> QED
    BY <1>8, <2>1, <2>2 DEF RemoveUserInfo
<1>9. ASSUME NEW w \in Worker, AddPortpair(w) PROVE Moves
  <2>1. /\ LiveShrinks /\ ~Returning(w)'
        /\ \A x \in Worker : x # w => /\ Returning(x)' <=> Returning(x)
                                      /\ ports'[x] = ports[x]
    BY <1>9, LeaveQuiet DEF AddPortpair
  <2> QED BY <1>9, <2>1, AddMoves DEF AddPortpair, At, Returning
<1>10. ASSUME NEW w \in Worker, DelContainer(w) PROVE Moves
  <2> DEFINE s == req[w].sip
             c == m_user_portpair_info[s]
  <2>0. ~Returning(w)
    BY <1>10 DEF DelContainer, At, Returning
  <2>1. CASE AfterSweep(w) /\ UNCHANGED m_user_portpair_info
    <3>1. LiveShrinks /\ ReturningSame
      BY <2>0, <2>1, LeaveQuiet DEF ReturningSame
    <3> QED BY <1>0, <1>10, <3>1, QuietMoves DEF DelContainer
  <2>2. CASE /\ m_user_portpair_info' = [m_user_portpair_info EXCEPT ![s] = None]
             /\ container' = [container EXCEPT ![w] = c]
             /\ Goto(w, "sweep") /\ UNCHANGED <<req, it, key, ports>>
    <3>1. ReturningSame
      BY <2>0, <2>2 DEF Goto, TypeOK, ReturningSame, Returning
    <3>2. s \in SipProxy
      BY <1>10 DEF DelContainer, At, Locals, LocalsOf, Request
    <3>3. LiveShrinks
      BY <2>2, <3>2, NoneAssumption DEF LiveShrinks, Live, TypeOK
    <3> QED BY <1>0, <1>10, <3>1, <3>3, QuietMoves DEF DelContainer
  <2> QED BY <1>10, <2>1, <2>2 DEF DelContainer
<1>11. ASSUME NEW w \in Worker, SweepNext(w) PROVE Moves
  <2>1. ReturningSame
    BY <1>11 DEF SweepNext, At, Goto, TypeOK, ReturningSame, Returning
  <2> QED
    BY <1>0, <1>11, <2>1, QuietMoves DEF SweepNext
<1>12. ASSUME NEW w \in Worker, SweepClear(w) PROVE Moves
  <2>1. RecordsShrink
    BY <1>12 DEF SweepClear, RecordsShrink, NoUsers, TypeOK
  <2>2. LiveShrinks /\ ReturningSame
    BY <1>12, LeaveQuiet DEF SweepClear, At, ReturningSame, Returning
  <2> QED
    BY <1>12, <2>1, <2>2, QuietMoves DEF SweepClear
<1>13. CASE \/ \E w \in Worker : RemoveUserInfoCrash(w) \/ SweepCrash(w)
            \/ \E s \in SipProxy : Restart(s)
            \/ UNCHANGED vars
  BY <1>0, <1>13, QuietMoves DEF RemoveUserInfoCrash, SweepCrash, Crash, Restart
<1> QED
  BY <1>1, <1>2, <1>3, <1>4, <1>5, <1>6, <1>7, <1>8, <1>9, <1>10, <1>11, <1>12,
     <1>13 DEF Next, Handle, Dead

-----------------------------------------------------------------------------
(* The refinement. *)

\* The record a pair is in.
RecordOf(p) == CHOOSE r \in Records : In(r, p)

\* The ledger's word for where a pair is.
LEMMA PlaceIs ==
  ASSUME NEW p \in Pair
  PROVE  Place(p) = IF Listed(p) THEN <<"free">>
                    ELSE IF ComingBack(p) THEN <<"returning">>
                    ELSE IF \E r \in Records : In(r, p) THEN <<"held", RecordOf(p)>>
                    ELSE <<"lost">>
BY DEF Place, Listed, ComingBack, In, RecordOf

\* A pair that is in some record is in the one chosen.
LEMMA RecordChosen ==
  ASSUME NEW p \in Pair, NEW r \in Records, In(r, p)
  PROVE  RecordOf(p) \in Records /\ In(RecordOf(p), p)
BY DEF RecordOf

\* What the moves are in the ledger.
LEMMA LedgerStep ==
  ASSUME TypeOK, Locals, SingleOwner, Moves, NEW p \in Pair
  PROVE  /\ Ledger!Move(Place(p), Place(p)')
         /\ Place(p)' \in Ledger!HeldStates
                            \cup {Ledger!Free, Ledger!Returning, Ledger!Lost}
<1> USE DEF Ledger!Move, Ledger!HeldStates, Ledger!Held, Ledger!Free,
            Ledger!Returning, Ledger!Lost
<1>1. /\ Listed(p) => ~ComingBack(p) /\ \A r \in Records : ~In(r, p)
      /\ ComingBack(p) => \A r \in Records : ~In(r, p)
      /\ \A r, q \in Records : In(r, p) /\ In(q, p) => r = q
  BY PlacesApart
<1>2. /\ Listed(p)' => Listed(p) \/ ComingBack(p)
      /\ ComingBack(p)' => ComingBack(p) \/ \E r \in Records : In(r, p)
      /\ \A r \in Records : In(r, p)' => In(r, p) \/ Listed(p)
      /\ ComingBack(p) => ComingBack(p)' \/ Listed(p)'
  BY DEF Moves
<1>3. Place(p)' = IF Listed(p)' THEN <<"free">>
                  ELSE IF ComingBack(p)' THEN <<"returning">>
                  ELSE IF \E r \in Records : In(r, p)' THEN <<"held", RecordOf(p)'>>
                  ELSE <<"lost">>
  BY DEF Place, Listed, ComingBack, In, RecordOf, Records
<1>4. (\E r \in Records : In(r, p)') => RecordOf(p)' \in Records /\ In(RecordOf(p), p)'
  BY DEF RecordOf, In, Records
<1>5. (\E r \in Records : In(r, p)) => RecordOf(p) \in Records /\ In(RecordOf(p), p)
  BY RecordChosen
<1>6. CASE Listed(p)
  <2>1. Place(p) = <<"free">> /\ ~ComingBack(p)'
    BY <1>1, <1>2, <1>6, PlaceIs
  <2> QED BY <1>3, <1>4, <2>1
<1>7. CASE ComingBack(p)
  <2>1. Place(p) = <<"returning">> /\ (ComingBack(p)' \/ Listed(p)')
    BY <1>1, <1>2, <1>7, PlaceIs
  <2> QED BY <1>3, <2>1
<1>8. CASE ~Listed(p) /\ ~ComingBack(p) /\ \E r \in Records : In(r, p)
  <2>1. Place(p) = <<"held", RecordOf(p)>> /\ RecordOf(p) \in Records
    BY <1>5, <1>8, PlaceIs
  <2>2. ~Listed(p)'
    BY <1>2, <1>8
  <2>3. CASE \E r \in Records : In(r, p)'
    <3>1. RecordOf(p)' \in Records /\ In(RecordOf(p)', p)
      BY <1>2, <1>4, <1>8, <2>3
    <3>2. RecordOf(p)' = RecordOf(p)
      BY <1>1, <1>5, <1>8, <3>1
    <3> QED BY <1>3, <2>1, <2>2, <2>3, <3>2
  <2>4. CASE ~\E r \in Records : In(r, p)'
    BY <1>3, <2>1, <2>2, <2>4
  <2> QED BY <2>3, <2>4
<1>9. CASE ~Listed(p) /\ ~ComingBack(p) /\ ~\E r \in Records : In(r, p)
  <2>1. Place(p) = <<"lost">>
    BY <1>9, PlaceIs
  <2>2. ~Listed(p)' /\ ~ComingBack(p)' /\ ~\E r \in Records : In(r, p)'
    BY <1>2, <1>9
  <2> QED BY <1>3, <2>1, <2>2
<1> QED BY <1>6, <1>7, <1>8, <1>9

\* The pool keeps the ledger's promise with any number of threads, SipProxies,
\* users and pairs: a pair passes from one user's record to another's only
\* through the free list, and one that a sweep dropped stays out of use.
THEOREM PoolKeepsLedger == Spec => KeepsLedger
<1>1. Init => Ledger!Init
  <2> SUFFICES ASSUME Init, NEW p \in Pair PROVE Place(p) = Ledger!Free
    BY DEF Ledger!Init
  <2>1. Listed(p)
    BY DEF Init, Listed, Pair
  <2> QED BY <2>1, PlaceIs DEF Ledger!Free
<1>2. IInv /\ [Next]_vars => [Ledger!Next]_([p \in Pair |-> Place(p)])
  <2> SUFFICES ASSUME IInv, [Next]_vars PROVE Ledger!Next
    OBVIOUS
  <2>1. \A p \in Pair :
          /\ Ledger!Move(Place(p), Place(p)')
          /\ Place(p)' \in Ledger!HeldStates
                             \cup {Ledger!Free, Ledger!Returning, Ledger!Lost}
    BY NextMoves, LedgerStep DEF IInv
  <2> QED BY <2>1 DEF Ledger!Next
<1>3. Init => IInv
  BY InitTypes, InitOwner DEF IInv
<1>4. IInv /\ [Next]_vars => IInv'
  BY NextTypes, NextOwner DEF IInv
<1> QED
  BY <1>1, <1>2, <1>3, <1>4, PTL DEF Spec, KeepsLedger, Ledger!Spec
=============================================================================
