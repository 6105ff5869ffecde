------------------------------ MODULE PortPool ------------------------------
(***************************************************************************)
(* The port-pair pool of the RtpProxy server and the table of logged-in    *)
(* SipProxies that hands its pairs out to users.                           *)
(*                                                                         *)
(* Requests are handled by several worker threads at once.  A step of this *)
(* module is one critical section of the code (one lock of                 *)
(* UserPortInfoManager, UserInfoContainer or FreePortPairContainer held),  *)
(* or one unlocked access to shared memory where the code takes no lock.   *)
(* A container is a heap object reached through counted pointers: the      *)
(* table holds one reference, a worker's local smart pointer another, and  *)
(* an object nobody refers to may be allocated again.                      *)
(* The state the same handlers keep about calls is disjoint from this one. *)
(***************************************************************************)
EXTENDS Naturals, Sequences

CONSTANTS
  SipProxy,    \* ids of the SipProxy processes
  User,        \* user ids, ordered: the order of set<UserPortInfo>
  MaxLogin,    \* bound on the logins (fake ids) of one SipProxy
  PairList,    \* the port pairs start() put in the free list, in order
  Worker,      \* threads that run handlers
  Container,   \* addresses a UserInfoContainer can be allocated at
  None         \* the null pointer, "no pair"

ASSUME UserAssumption == User \subseteq Nat \ {0}
ASSUME LoginAssumption == MaxLogin \in Nat \ {0}

Pair == {PairList[i] : i \in 1 .. Len(PairList)}

ASSUME PairAssumption ==
  /\ PairList \in Seq(Pair)
  /\ \A i, j \in 1 .. Len(PairList) : PairList[i] = PairList[j] => i = j
ASSUME NoneAssumption == None \notin Pair \cup Container \cup SipProxy

VARIABLES
  m_user_portpair_info, \* table: SipProxy -> container, None when absent
  m_sipproxy_fake_id,   \* container -> the login it was made for
  m_user_infos,         \* container -> user -> pair, None when absent
  m_free_portpairs,     \* the free list, a queue
  m_used_num,           \* the counter kept beside the free list
  pc,                   \* worker -> the critical section it runs next
  req,                  \* worker -> the request it handles
  container,            \* worker -> its smart pointer to a container
  it,                   \* worker -> raw iterator of the table, not counted
  key,                  \* worker -> the user whose pair it is freeing
  ports,                \* worker -> the pair in info.ports
  login,                \* SipProxy -> its current login (environment)
  alive                 \* FALSE once undefined behaviour killed the process

tableVars == <<m_user_portpair_info, m_sipproxy_fake_id>>
poolVars == <<m_free_portpairs, m_used_num>>
localVars == <<container, it, key, ports>>
vars == <<tableVars, m_user_infos, poolVars, pc, req, localVars, login, alive>>

-----------------------------------------------------------------------------
NoUser == 0      \* iterator before begin(): no user has id 0
AnyLogin == 0    \* fake id 0: del_container matches every login
Login == 1 .. MaxLogin

Label == {"idle", "find_container", "user_rlock", "user_wlock", "ports_wlock",
          "del_find", "remove_user", "add_portpair", "del_container", "sweep",
          "clear"}

Request == [op : {"get", "free", "offline"}, sip : SipProxy,
            login : Login \cup {AnyLogin}, user : User \cup {NoUser}]
NoRequest == [op |-> "none", sip |-> None, login |-> AnyLogin, user |-> NoUser]

NoUsers == [u \in User |-> None]
OnlyUser(u, p) == [NoUsers EXCEPT ![u] = p]

\* A container some counted pointer refers to.
Live(c) == \/ \E s \in SipProxy : m_user_portpair_info[s] = c
           \/ \E w \in Worker : container[w] = c

TypeOK ==
  /\ m_user_portpair_info \in [SipProxy -> Container \cup {None}]
  /\ m_sipproxy_fake_id \in [Container -> Login]
  /\ m_user_infos \in [Container -> [User -> Pair \cup {None}]]
  /\ m_free_portpairs \in Seq(Pair)
  /\ m_used_num \in Nat
  /\ pc \in [Worker -> Label]
  /\ req \in [Worker -> Request \cup {NoRequest}]
  /\ container \in [Worker -> Container \cup {None}]
  /\ it \in [Worker -> Container \cup {None}]
  /\ key \in [Worker -> User \cup {NoUser}]
  /\ ports \in [Worker -> Pair \cup {None}]
  /\ login \in [SipProxy -> Login]
  /\ alive \in BOOLEAN

Init ==
  /\ m_user_portpair_info = [s \in SipProxy |-> None]
  /\ m_sipproxy_fake_id = [c \in Container |-> 1]
  /\ m_user_infos = [c \in Container |-> NoUsers]
  /\ m_free_portpairs = PairList
  /\ m_used_num = 0
  /\ pc = [w \in Worker |-> "idle"]
  /\ req = [w \in Worker |-> NoRequest]
  /\ container = [w \in Worker |-> None]
  /\ it = [w \in Worker |-> None]
  /\ key = [w \in Worker |-> NoUser]
  /\ ports = [w \in Worker |-> None]
  /\ login = [s \in SipProxy |-> 1]
  /\ alive = TRUE

-----------------------------------------------------------------------------
At(w, label) == alive /\ pc[w] = label
Goto(w, label) == pc' = [pc EXCEPT ![w] = label]

\* The handler answers: its locals go out of scope.
Return(w) ==
  /\ Goto(w, "idle")
  /\ req' = [req EXCEPT ![w] = NoRequest]
  /\ container' = [container EXCEPT ![w] = None]
  /\ it' = [it EXCEPT ![w] = None]
  /\ key' = [key EXCEPT ![w] = NoUser]
  /\ ports' = [ports EXCEPT ![w] = None]

\* Undefined behaviour may end the process.
Crash == /\ alive' = FALSE
         /\ UNCHANGED <<tableVars, m_user_infos, poolVars, pc, req, localVars,
                        login>>

-----------------------------------------------------------------------------
(* A request arrives on a TCP worker; the fake id in it is the login its   *)
(* SipProxy has when it sends it.  An offline notice may carry id 0, as    *)
(* the dead-process timer does.                                            *)

ReceiveGet(w, s, u) ==
  /\ At(w, "idle")
  /\ req' = [req EXCEPT ![w] =
               [op |-> "get", sip |-> s, login |-> login[s], user |-> u]]
  /\ Goto(w, "find_container")
  /\ UNCHANGED <<tableVars, m_user_infos, poolVars, localVars, login, alive>>

ReceiveFree(w, s, u) ==
  /\ At(w, "idle")
  /\ req' = [req EXCEPT ![w] =
               [op |-> "free", sip |-> s, login |-> login[s], user |-> u]]
  /\ key' = [key EXCEPT ![w] = u]
  /\ Goto(w, "del_find")
  /\ UNCHANGED <<tableVars, m_user_infos, poolVars, container, it, ports,
                 login, alive>>

ReceiveOffline(w, s, l) ==
  /\ At(w, "idle")
  /\ l \in {login[s], AnyLogin}
  /\ req' = [req EXCEPT ![w] =
               [op |-> "offline", sip |-> s, login |-> l, user |-> NoUser]]
  /\ Goto(w, "del_container")
  /\ UNCHANGED <<tableVars, m_user_infos, poolVars, localVars, login, alive>>

\* The SipProxy process restarts and logs in again with a new fake id.
Restart(s) ==
  /\ alive
  /\ login[s] < MaxLogin
  /\ login' = [login EXCEPT ![s] = @ + 1]
  /\ UNCHANGED <<tableVars, m_user_infos, poolVars, pc, req, localVars, alive>>

-----------------------------------------------------------------------------
(* get_ports *)

\* find_container_in_rlock, then the comparison of the logins (a container's
\* login never changes).  A container of another login is swept first.
FindContainer(w) ==
  LET c == m_user_portpair_info[req[w].sip] IN
  /\ At(w, "find_container")
  /\ container' = [container EXCEPT ![w] = c]
  /\ Goto(w, IF c = None THEN "ports_wlock"
             ELSE IF m_sipproxy_fake_id[c] = req[w].login THEN "user_rlock"
             ELSE "del_container")
  /\ UNCHANGED <<tableVars, m_user_infos, poolVars, req, it, key, ports,
                 login, alive>>

\* get_user_info_in_rlock: a user that has a pair is answered with it.
GetUserInRlock(w) ==
  /\ At(w, "user_rlock")
  /\ IF m_user_infos[container[w]][req[w].user] # None
     THEN Return(w)
     ELSE /\ Goto(w, "user_wlock")
          /\ UNCHANGED <<req, localVars>>
  /\ UNCHANGED <<tableVars, m_user_infos, poolVars, login, alive>>

\* Wrong variant: the counter is not incremented.
TakeFrontUncounted == /\ m_free_portpairs # <<>>
                      /\ m_free_portpairs' = Tail(m_free_portpairs)
                      /\ UNCHANGED m_used_num

\* FreePortPairContainer::get_portpair on a list that is not empty.
TakeFront == /\ m_free_portpairs # <<>>
             /\ m_free_portpairs' = Tail(m_free_portpairs)
             /\ m_used_num' = m_used_num + 1

Has(w) == m_user_infos[container[w]][req[w].user] # None

\* get_user_info_in_wlock: look again, else take a pair and record it.
GetUserInWlock(w) ==
  /\ At(w, "user_wlock")
  /\ \/ /\ Has(w) \/ m_free_portpairs = <<>>
        /\ UNCHANGED <<m_user_infos, poolVars>>
     \/ /\ ~Has(w)
        /\ TakeFront
        /\ m_user_infos' = [m_user_infos EXCEPT
             ![container[w]][req[w].user] = Head(m_free_portpairs)]
  /\ Return(w)
  /\ UNCHANGED <<tableVars, login, alive>>

\* Wrong variant: the second look does not compare the logins.
GetPortsInWlockFoundAnyLogin(w) ==
  LET c == m_user_portpair_info[req[w].sip] IN
  /\ At(w, "ports_wlock")
  /\ c # None
  /\ container' = [container EXCEPT ![w] = c]
  /\ Goto(w, "user_rlock")
  /\ UNCHANGED <<tableVars, m_user_infos, poolVars, req, it, key, ports, login,
                 alive>>

\* get_ports_in_wlock finds a container: another worker registered this
\* SipProxy meanwhile.  A login that differs again is refused.
GetPortsInWlockFound(w) ==
  LET c == m_user_portpair_info[req[w].sip] IN
  /\ At(w, "ports_wlock")
  /\ c # None
  /\ IF m_sipproxy_fake_id[c] = req[w].login
     THEN /\ container' = [container EXCEPT ![w] = c]
          /\ Goto(w, "user_rlock")
          /\ UNCHANGED <<req, it, key, ports>>
     ELSE Return(w)
  /\ UNCHANGED <<tableVars, m_user_infos, poolVars, login, alive>>

\* get_ports_in_wlock finds none: under the table's write lock a container
\* with the user's first pair is made and registered, if there is a pair.
GetPortsInWlockNew(w) ==
  LET s == req[w].sip IN
  /\ At(w, "ports_wlock")
  /\ m_user_portpair_info[s] = None
  /\ \/ /\ m_free_portpairs = <<>>
        /\ UNCHANGED <<tableVars, m_user_infos, poolVars>>
     \/ \E c \in Container :
          /\ ~Live(c)
          /\ TakeFront
          /\ m_user_portpair_info' = [m_user_portpair_info EXCEPT ![s] = c]
          /\ m_sipproxy_fake_id' =
               [m_sipproxy_fake_id EXCEPT ![c] = req[w].login]
          /\ m_user_infos' = [m_user_infos EXCEPT
               ![c] = OnlyUser(req[w].user, Head(m_free_portpairs))]
  /\ Return(w)
  /\ UNCHANGED <<login, alive>>

-----------------------------------------------------------------------------
(* free_ports, called by a free request and, per user, by a sweep *)

\* Back in the caller: a free request is done, a sweep advances.
AfterFree(w) ==
  IF req[w].op = "free" THEN Return(w)
  ELSE /\ Goto(w, "sweep")
       /\ it' = [it EXCEPT ![w] = None]
       /\ ports' = [ports EXCEPT ![w] = None]
       /\ UNCHANGED <<req, container, key>>

\* Wrong variant: free_ports returns a pair even if there is no record.
DelUserPortInfoUnchecked(w) ==
  LET c == m_user_portpair_info[req[w].sip] IN
  /\ At(w, "del_find")
  /\ it' = [it EXCEPT ![w] = c]
  /\ Goto(w, IF c = None THEN "add_portpair" ELSE "remove_user")
  /\ UNCHANGED <<tableVars, m_user_infos, poolVars, req, container, key, ports,
                 login, alive>>

\* del_user_port_info finds the SipProxy's entry and drops the read lock.
DelUserPortInfo(w) ==
  LET c == m_user_portpair_info[req[w].sip] IN
  /\ At(w, "del_find")
  /\ IF c = None THEN AfterFree(w)
     ELSE /\ it' = [it EXCEPT ![w] = c]
          /\ Goto(w, "remove_user")
          /\ UNCHANGED <<req, container, key, ports>>
  /\ UNCHANGED <<tableVars, m_user_infos, poolVars, login, alive>>

\* The iterator is dereferenced without the lock.  If its entry was erased
\* meanwhile, its memory still shows the old pointer or that of whatever
\* entry was made there since.
IteratorTargets(w) ==
  {c \in {it[w]} \cup {m_user_portpair_info[s] : s \in SipProxy} :
     /\ c # None
     /\ m_user_portpair_info[req[w].sip] = it[w] => c = it[w]}

\* Wrong variant: info.ports is not replaced by what the record holds.
RemoveUserInfoKeepPorts(w) ==
  /\ At(w, "remove_user")
  /\ \E c \in IteratorTargets(w) :
       LET p == m_user_infos[c][key[w]] IN
       IF Live(c) /\ p # None
       THEN /\ m_user_infos' = [m_user_infos EXCEPT ![c][key[w]] = None]
            /\ ports' = [ports EXCEPT ![w] = IF @ = None THEN p ELSE @]
            /\ it' = [it EXCEPT ![w] = None]
            /\ Goto(w, "add_portpair")
            /\ UNCHANGED <<req, container, key>>
       ELSE /\ AfterFree(w)
            /\ UNCHANGED m_user_infos
  /\ UNCHANGED <<tableVars, poolVars, login, alive>>

\* remove_user_info: what the record holds replaces info.ports.
RemoveUserInfo(w) ==
  /\ At(w, "remove_user")
  /\ \E c \in IteratorTargets(w) :
       LET p == m_user_infos[c][key[w]] IN
       IF Live(c) /\ p # None
       THEN /\ m_user_infos' = [m_user_infos EXCEPT ![c][key[w]] = None]
            /\ ports' = [ports EXCEPT ![w] = p]
            /\ it' = [it EXCEPT ![w] = None]
            /\ Goto(w, "add_portpair")
            /\ UNCHANGED <<req, container, key>>
       ELSE /\ AfterFree(w)
            /\ UNCHANGED m_user_infos
  /\ UNCHANGED <<tableVars, poolVars, login, alive>>

\* Dereferencing the iterator of an erased entry may also crash.
RemoveUserInfoCrash(w) ==
  /\ At(w, "remove_user")
  /\ m_user_portpair_info[req[w].sip] # it[w]
  /\ Crash

AddPortpair(w) ==
  /\ At(w, "add_portpair")
  /\ m_free_portpairs' = Append(m_free_portpairs, ports[w])
  /\ m_used_num' = IF m_used_num > 0 THEN m_used_num - 1 ELSE 0
  /\ AfterFree(w)
  /\ UNCHANGED <<tableVars, m_user_infos, login, alive>>

-----------------------------------------------------------------------------
(* deal_dead_sipproxy, called for an offline notice, by the dead-process   *)
(* timer, and by get_ports when it meets a container of another login      *)

\* Wrong variant: get_ports starts over from find_container_in_rlock.
AfterSweepRetry(w) ==
  IF req[w].op = "offline" THEN Return(w)
  ELSE /\ Goto(w, "find_container")
       /\ container' = [container EXCEPT ![w] = None]
       /\ key' = [key EXCEPT ![w] = NoUser]
       /\ UNCHANGED <<req, it, ports>>

AfterSweep(w) ==
  IF req[w].op = "offline" THEN Return(w)
  ELSE /\ Goto(w, "ports_wlock")
       /\ container' = [container EXCEPT ![w] = None]
       /\ key' = [key EXCEPT ![w] = NoUser]
       /\ UNCHANGED <<req, it, ports>>

\* The login a sweep is for: the request's, or that of the container found.
SweptLogin(w) == IF req[w].op = "offline" THEN req[w].login
                 ELSE m_sipproxy_fake_id[container[w]]

LoginMatches(c, l) == m_sipproxy_fake_id[c] = l \/ l = AnyLogin

\* Wrong variant: the container stays in the table.
DelContainerStays(w) ==
  LET s == req[w].sip
      c == m_user_portpair_info[s] IN
  /\ At(w, "del_container")
  /\ IF c # None /\ LoginMatches(c, SweptLogin(w))
     THEN /\ container' = [container EXCEPT ![w] = c]
          /\ Goto(w, "sweep")
          /\ UNCHANGED <<req, it, key, ports>>
     ELSE AfterSweep(w)
  /\ UNCHANGED <<tableVars, m_user_infos, poolVars, login, alive>>

DelContainer(w) ==
  LET s == req[w].sip
      c == m_user_portpair_info[s] IN
  /\ At(w, "del_container")
  /\ IF c # None /\ LoginMatches(c, SweptLogin(w))
     THEN /\ m_user_portpair_info' = [m_user_portpair_info EXCEPT ![s] = None]
          /\ container' = [container EXCEPT ![w] = c]
          /\ Goto(w, "sweep")
          /\ UNCHANGED <<req, it, key, ports>>
     ELSE /\ AfterSweep(w)
          /\ UNCHANGED m_user_portpair_info
  /\ UNCHANGED <<m_sipproxy_fake_id, m_user_infos, poolVars, login, alive>>

\* The users the iteration, at key, has still to visit.
Ahead(w) == {u \in User : u > key[w] /\ m_user_infos[container[w]][u] # None}

\* Wrong variant: the pair is returned and its record left to the clear().
SweepNextDirect(w) ==
  /\ At(w, "sweep")
  /\ IF Ahead(w) = {}
     THEN /\ Goto(w, "clear")
          /\ UNCHANGED <<key, ports>>
     ELSE \E u \in Ahead(w) :
          /\ \A v \in Ahead(w) : u <= v
          /\ key' = [key EXCEPT ![w] = u]
          /\ ports' = [ports EXCEPT ![w] = m_user_infos[container[w]][u]]
          /\ Goto(w, "add_portpair")
  /\ UNCHANGED <<tableVars, m_user_infos, poolVars, req, container, it, login,
                 alive>>

\* One turn of the loop: the next user in order, copied into info.
SweepNext(w) ==
  /\ At(w, "sweep")
  /\ IF Ahead(w) = {}
     THEN /\ Goto(w, "clear")
          /\ UNCHANGED <<key, ports>>
     ELSE \E u \in Ahead(w) :
          /\ \A v \in Ahead(w) : u <= v
          /\ key' = [key EXCEPT ![w] = u]
          /\ ports' = [ports EXCEPT ![w] = m_user_infos[container[w]][u]]
          /\ Goto(w, "del_find")
  /\ UNCHANGED <<tableVars, m_user_infos, poolVars, req, container, it, login,
                 alive>>

\* Advancing from an element another thread erased may crash.
SweepCrash(w) ==
  /\ At(w, "sweep")
  /\ key[w] # NoUser
  /\ m_user_infos[container[w]][key[w]] = None
  /\ Crash

\* m_user_infos.clear().
SweepClear(w) ==
  /\ At(w, "clear")
  /\ m_user_infos' = [m_user_infos EXCEPT ![container[w]] = NoUsers]
  /\ AfterSweep(w)
  /\ UNCHANGED <<tableVars, poolVars, login, alive>>

-----------------------------------------------------------------------------
Handle(w) ==
  \/ FindContainer(w) \/ GetUserInRlock(w) \/ GetUserInWlock(w)
  \/ GetPortsInWlockFound(w) \/ GetPortsInWlockNew(w)
  \/ DelUserPortInfo(w) \/ RemoveUserInfo(w) \/ RemoveUserInfoCrash(w)
  \/ AddPortpair(w)
  \/ DelContainer(w) \/ SweepNext(w) \/ SweepCrash(w) \/ SweepClear(w)

Receive(w) ==
  \E s \in SipProxy :
    \/ \E u \in User : ReceiveGet(w, s, u) \/ ReceiveFree(w, s, u)
    \/ \E l \in Login \cup {AnyLogin} : ReceiveOffline(w, s, l)

\* Nothing happens after a crash.
Dead == ~alive /\ UNCHANGED vars

Next == \/ \E w \in Worker : Receive(w) \/ Handle(w)
        \/ \E s \in SipProxy : Restart(s)
        \/ Dead

\* A worker that has a request runs it to its end: no step waits for another
\* thread, since no lock is held between two steps.
Fairness == \A w \in Worker : WF_vars(Handle(w))

Spec == Init /\ [][Next]_vars /\ Fairness

-----------------------------------------------------------------------------
\* What a worker's locals hold at each point of its handler.
LocalsOf(w) ==
  /\ pc[w] # "idle" => req[w] \in Request
  /\ req[w].op = "get" => req[w].user \in User /\ req[w].login \in Login
  /\ pc[w] \in {"find_container", "user_rlock", "user_wlock", "ports_wlock"} =>
       req[w].op = "get"
  /\ pc[w] \in {"del_container", "sweep", "clear"} =>
       req[w].op \in {"get", "offline"}
  /\ pc[w] \in {"user_rlock", "user_wlock", "sweep", "clear"} =>
       container[w] \in Container
  /\ pc[w] = "del_container" /\ req[w].op = "get" =>
       container[w] \in Container
  /\ pc[w] \in {"del_find", "remove_user", "add_portpair"} =>
       /\ key[w] \in User
       /\ req[w].op \in {"get", "offline"} => container[w] \in Container
  /\ pc[w] = "remove_user" => it[w] \in Container
  /\ pc[w] = "add_portpair" => ports[w] \in Pair
Locals == \A w \in Worker : LocalsOf(w)

Registered(c) == \E s \in SipProxy : m_user_portpair_info[s] = c
Sweeping(w) == /\ req[w].op # "free"
               /\ pc[w] \in {"sweep", "clear", "del_find", "remove_user",
                             "add_portpair"}
Returning(w) == pc[w] = "add_portpair"

ListedOnce ==
  \A i, j \in 1 .. Len(m_free_portpairs) :
    m_free_portpairs[i] = m_free_portpairs[j] => i = j
RecordedOnce ==
  \A c, d \in Container, u, v \in User :
    m_user_infos[c][u] = m_user_infos[d][v] /\ m_user_infos[c][u] # None
      => c = d /\ u = v
ReturnedOnce ==
  \A w, x \in Worker :
    Returning(w) /\ Returning(x) /\ ports[w] = ports[x] => w = x
ListedNotRecorded ==
  \A i \in 1 .. Len(m_free_portpairs), c \in Container, u \in User :
    m_user_infos[c][u] # m_free_portpairs[i]
ReturningNotListed ==
  \A w \in Worker, i \in 1 .. Len(m_free_portpairs) :
    Returning(w) => m_free_portpairs[i] # ports[w]
ReturningNotRecorded ==
  \A w \in Worker, c \in Container, u \in User :
    Returning(w) => m_user_infos[c][u] # ports[w]

\* A pair is in one place at most: once in the free list, in one record of one
\* container, or in the hands of one worker on its way back.  No interleaving
\* of get_ports, free_ports and deal_dead_sipproxy gives a pair to two users
\* or returns it twice.
SingleOwner ==
  /\ ListedOnce /\ RecordedOnce /\ ReturnedOnce
  /\ ListedNotRecorded /\ ReturningNotListed /\ ReturningNotRecorded

\* m_used_num counts exactly the pairs that are not in the free list: the
\* "m_used_num > 0" of add_portpair never hides a decrement.
UsedNumExact == m_used_num + Len(m_free_portpairs) = Len(PairList)

\* A record that appears is one a get-ports request asks for, in a container
\* made for the login of that request.
RecordForItsLogin ==
  \A c \in Container, u \in User :
    m_user_infos'[c][u] \notin {None, m_user_infos[c][u]} =>
      \E w \in Worker : /\ pc[w] \in {"user_wlock", "ports_wlock"}
                       /\ req[w].user = u
                       /\ m_sipproxy_fake_id'[c] = req[w].login

\* The comparison of logins is made without a lock and trusted later: a record
\* is only ever put in a container made for the login that asks, although
\* containers are deregistered, destroyed and made anew in between.
RecordsOfOwnLogin == [][RecordForItsLogin]_vars

\* del_container hands a container to one sweep: while deal_dead_sipproxy runs
\* through it and clears it, no other sweep has it and no request can find it.
SweepExclusive ==
  \A w \in Worker : Sweeping(w) =>
    /\ container[w] # None
    /\ ~Registered(container[w])
    /\ \A x \in Worker : Sweeping(x) /\ container[x] = container[w] => x = w

\* Every request is answered, unless the process dies, although requests sweep
\* and start over inside get_ports.
EveryRequestAnswered ==
  \A w \in Worker : pc[w] # "idle" ~> pc[w] = "idle" \/ ~alive

\* Where the ledger says a pair is: in the free list, on its way back, in a
\* user's record in a container that is still referred to, or nowhere.
Records == [con : Container, user : User]
Place(p) ==
  IF \E i \in 1 .. Len(m_free_portpairs) : m_free_portpairs[i] = p
  THEN <<"free">>
  ELSE IF \E w \in Worker : Returning(w) /\ ports[w] = p
  THEN <<"returning">>
  ELSE IF \E r \in Records : Live(r.con) /\ m_user_infos[r.con][r.user] = p
  THEN <<"held", CHOOSE r \in Records :
                   Live(r.con) /\ m_user_infos[r.con][r.user] = p>>
  ELSE <<"lost">>

Ledger == INSTANCE PortLedger WITH
            Pair <- Pair, Holder <- Records, owner <- [p \in Pair |-> Place(p)]

\* The pool keeps the ledger's promise: whatever gets, frees and sweeps are
\* under way, a pair passes from one user's record to another's only through
\* the free list, and a pair that a sweep dropped stays out of use.
KeepsLedger == Ledger!Spec

\* What the comment at the release of a swept user's ports says: they are put
\* back in the free list.  At rest, a pair is free or in a registered record.
PairsComeBack ==
  (alive /\ \A w \in Worker : pc[w] = "idle") =>
    \A p \in Pair :
      \/ \E i \in 1 .. Len(m_free_portpairs) : m_free_portpairs[i] = p
      \/ \E c \in Container, u \in User : Registered(c) /\ m_user_infos[c][u] = p

\* What the test that gets ports twice expects of a login: the record of a
\* user of the SipProxy's current login stays until that user is freed or that
\* login goes offline.  The sweep of an earlier login leaves it alone.
SweepSparesNewLogin ==
  [][\A s \in SipProxy, u \in User :
       LET c == m_user_portpair_info[s] IN
       (/\ c # None
        /\ m_sipproxy_fake_id[c] = login[s]
        /\ m_user_infos[c][u] # None
        /\ m_user_infos'[c][u] = None)
       => \E w \in Worker :
            /\ pc[w] = "remove_user"
            /\ \/ req[w].op = "free"
               \/ req[w].op = "offline" /\ req[w].login \in {AnyLogin, login[s]}]_vars
=============================================================================
