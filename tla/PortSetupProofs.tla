--------------------------- MODULE PortSetupProofs ---------------------------
(***************************************************************************)
(* Theorems about PortSetup for every range of ports, number of users and  *)
(* number of starts.                                                       *)
(***************************************************************************)
EXTENDS PortSetup, FiniteSetTheorems, TLAPS

PairType == [rtp_recv_port : Nat, rtp_sent_port : Nat]

-----------------------------------------------------------------------------
(* The inductive invariant. *)

Types ==
  /\ pc \in {"stopped", "tcp", "udp", "bind", "running"}
  /\ starts \in Nat /\ port \in Nat
  /\ portpair \in PairType /\ portpair.rtp_sent_port = 0
  /\ m_free_portpairs \in Seq(PairType)
  /\ held \in [User -> PairType \cup {None}]

\* The places of pairs that are made: indices of the list, and users.
Owners == DOMAIN m_free_portpairs \cup {u \in User : held[u] # None}

\* Before the loop there is nothing.
NothingYet ==
  /\ m_free_portpairs = << >> /\ \A u \in User : held[u] = None
  /\ portpair = NoPair
  /\ DOMAIN cpid = {} /\ DOMAIN m_cpid_2_addr_map = {}
BeforeLoop == starts = 0 \/ pc \in {"tcp", "udp"}

\* The ports of a pair have been passed by the loop; no two pairs have one port.
PassedBy(p) == p # 0 /\ p < port
PairsApart ==
  /\ \A o \in Owners :
       LET pair == PairOf(o) IN
       /\ PassedBy(pair.rtp_recv_port) /\ PassedBy(pair.rtp_sent_port)
       /\ pair.rtp_recv_port # pair.rtp_sent_port
  /\ \A o1, o2 \in Owners : o1 # o2 =>
       {PairOf(o1).rtp_recv_port, PairOf(o1).rtp_sent_port}
         \cap {PairOf(o2).rtp_recv_port, PairOf(o2).rtp_sent_port} = {}

\* So has the port that waits for its partner, and it is in no pair.
HalfPairApart ==
  portpair.rtp_recv_port # 0 =>
    /\ portpair.rtp_recv_port < port
    /\ \A o \in Owners : portpair.rtp_recv_port \notin
                           {PairOf(o).rtp_recv_port, PairOf(o).rtp_sent_port}

\* The two maps lead to and fro, for the ports that have been passed.
MapsAgree ==
  /\ IsFiniteSet(DOMAIN m_cpid_2_addr_map)
  /\ Cardinality(DOMAIN m_cpid_2_addr_map) <= port
  /\ \A p \in DOMAIN cpid :
       /\ p \in Nat /\ p < port /\ p \in reading
       /\ cpid[p] \in DOMAIN m_cpid_2_addr_map /\ m_cpid_2_addr_map[cpid[p]] = p
  /\ \A id \in DOMAIN m_cpid_2_addr_map : id \in Range(cpid)

\* Every port of a pair is bound, with the one after it.
Bound(p) == p \in DOMAIN cpid /\ p + 1 \in DOMAIN cpid
AllBound ==
  /\ \A o \in Owners :
       Bound(PairOf(o).rtp_recv_port) /\ Bound(PairOf(o).rtp_sent_port)
  /\ portpair.rtp_recv_port # 0 => Bound(portpair.rtp_recv_port)

FirstStart ==
  starts <= 1 =>
    /\ BeforeLoop => NothingYet
    /\ PairsApart /\ HalfPairApart
    /\ pc # "stopped" => MapsAgree /\ AllBound

IInv ==
  /\ Types
  /\ starts = 0 => pc = "stopped"
  /\ pc = "bind" => port # 0
  /\ FirstStart

-----------------------------------------------------------------------------
(* Moving pairs about. *)

\* A place of a pair is an index or a user, never both.
LEMMA OwnerIs ==
  ASSUME Types
  PROVE  /\ \A i \in DOMAIN m_free_portpairs : /\ i \in Owners /\ i \notin User
                                               /\ PairOf(i) = m_free_portpairs[i]
                                               /\ m_free_portpairs[i] \in PairType
         /\ \A u \in User : PairOf(u) = held[u] /\ (held[u] # None => u \in Owners)
         /\ \A o \in Owners : PairOf(o) \in PairType
<1>1. DOMAIN m_free_portpairs = 1 .. Len(m_free_portpairs)
  BY DEF Types
<1>2. ASSUME NEW i \in DOMAIN m_free_portpairs
      PROVE  i \notin User /\ m_free_portpairs[i] \in PairType
  BY <1>1, UserAssumption DEF Types
<1> QED BY <1>2 DEF Owners, PairOf, Types

\* A step by which each pair was somewhere before keeps the pairs apart.
LEMMA Shuffled ==
  ASSUME UNCHANGED <<port, portpair>>, PairsApart, HalfPairApart,
         NEW was, \A o \in Owners' : was[o] \in Owners /\ PairOf(o)' = PairOf(was[o]),
         \A o1, o2 \in Owners' : o1 # o2 => was[o1] # was[o2]
  PROVE  PairsApart' /\ HalfPairApart'
<1>1. PairsApart'
  BY DEF PairsApart, PassedBy
<1>2. HalfPairApart'
  BY DEF HalfPairApart
<1> QED BY <1>1, <1>2

\* Nor does it make them lose a bound port.
LEMMA ShuffledBound ==
  ASSUME UNCHANGED <<cpid, portpair>>, AllBound,
         NEW was, \A o \in Owners' : was[o] \in Owners /\ PairOf(o)' = PairOf(was[o])
  PROVE  AllBound'
BY DEF AllBound, Bound

\* get_portpair moves the first pair of the list to a user.
LEMMA GetShuffles ==
  ASSUME Types, NEW u \in User, GetPortpair(u)
  PROVE  /\ Types'
         /\ \E was : /\ \A o \in Owners' : was[o] \in Owners /\ PairOf(o)' = PairOf(was[o])
                     /\ \A o1, o2 \in Owners' : o1 # o2 => was[o1] # was[o2]
<1> DEFINE n == Len(m_free_portpairs)
<1>1. /\ m_free_portpairs \in Seq(PairType) /\ m_free_portpairs # << >>
      /\ m_free_portpairs' = Tail(m_free_portpairs)
      /\ held' = [held EXCEPT ![u] = Head(m_free_portpairs)] /\ held[u] = None
      /\ UNCHANGED <<pc, starts, loopVars>>
  BY DEF GetPortpair, Types
<1>2. /\ n \in Nat /\ n >= 1 /\ DOMAIN m_free_portpairs = 1 .. n
      /\ DOMAIN m_free_portpairs' = 1 .. n - 1
      /\ \A i \in 1 .. n - 1 : m_free_portpairs'[i] = m_free_portpairs[i + 1]
      /\ Head(m_free_portpairs) = m_free_portpairs[1]
      /\ m_free_portpairs[1] \in PairType
      /\ Tail(m_free_portpairs) \in Seq(PairType)
  BY <1>1
<1>3. Types'
  BY <1>1, <1>2 DEF Types, loopVars
<1> DEFINE was == [o \in Owners' |-> IF o = u THEN 1 ELSE IF o \in User THEN o ELSE o + 1]
<1>4. m_free_portpairs[1] # None
  BY <1>2, UserAssumption DEF PairType
<1>5. Owners' = (1 .. n - 1) \cup {v \in User : v = u \/ held[v] # None}
  BY <1>1, <1>2, <1>4 DEF Owners, Types
<1>6. \A i \in 1 .. n : i \notin User
  BY <1>2, UserAssumption
<1>7. ASSUME NEW o \in Owners' PROVE was[o] \in Owners /\ PairOf(o)' = PairOf(was[o])
  <2>1. CASE o = u
    <3>1. was[o] = 1 /\ 1 \in Owners /\ PairOf(1) = m_free_portpairs[1]
      BY <1>2, <2>1, OwnerIs
    <3>2. PairOf(o)' = m_free_portpairs[1]
      BY <1>1, <1>2, <2>1 DEF PairOf, Types
    <3> QED BY <3>1, <3>2
  <2>2. CASE o # u /\ o \in User
    <3>1. was[o] = o /\ held'[o] = held[o] /\ held[o] # None
      BY <1>1, <1>5, <1>6, <2>2 DEF Types
    <3> QED BY <2>2, <3>1 DEF Owners, PairOf
  <2>3. CASE o \notin User
    <3>1. o \in 1 .. n - 1 /\ was[o] = o + 1 /\ o + 1 \in 1 .. n
      BY <1>2, <1>5, <2>3
    <3>2. PairOf(o)' = m_free_portpairs[o + 1]
      BY <1>2, <2>3, <3>1 DEF PairOf
    <3> QED BY <1>2, <3>1, <3>2, OwnerIs
  <2> QED BY <2>1, <2>2, <2>3
<1>8. ASSUME NEW o1 \in Owners', NEW o2 \in Owners', o1 # o2 PROVE was[o1] # was[o2]
  <2>1. \A o \in Owners' : \/ o = u /\ was[o] = 1
                           \/ o # u /\ o \in User /\ was[o] = o
                           \/ o \in 1 .. n - 1 /\ was[o] = o + 1
    BY <1>5
  <2>2. 1 \notin User /\ \A i \in 1 .. n - 1 : i + 1 \notin User /\ i + 1 # 1
    BY <1>2, <1>6
  <2> QED BY <1>8, <2>1, <2>2
<1> QED
  <2> HIDE DEF was
  <2> QED BY <1>3, <1>7, <1>8

\* add_portpair moves a user's pair to the end of the list.
LEMMA FreeShuffles ==
  ASSUME Types, NEW u \in User, FreePortpair(u)
  PROVE  /\ Types'
         /\ \E was : /\ \A o \in Owners' : was[o] \in Owners /\ PairOf(o)' = PairOf(was[o])
                     /\ \A o1, o2 \in Owners' : o1 # o2 => was[o1] # was[o2]
<1> DEFINE n == Len(m_free_portpairs)
<1>1. /\ m_free_portpairs \in Seq(PairType) /\ held[u] \in PairType /\ held[u] # None
      /\ m_free_portpairs' = Append(m_free_portpairs, held[u])
      /\ held' = [held EXCEPT ![u] = None]
      /\ UNCHANGED <<pc, starts, loopVars>>
  BY DEF FreePortpair, AddPortpair, Types
<1>2. /\ n \in Nat /\ DOMAIN m_free_portpairs = 1 .. n
      /\ DOMAIN m_free_portpairs' = 1 .. n + 1
      /\ \A i \in 1 .. n : m_free_portpairs'[i] = m_free_portpairs[i]
      /\ m_free_portpairs'[n + 1] = held[u]
      /\ Append(m_free_portpairs, held[u]) \in Seq(PairType)
  BY <1>1
<1>3. Types'
  BY <1>1, <1>2 DEF Types, loopVars
<1> DEFINE was == [o \in Owners' |-> IF o = n + 1 THEN u ELSE o]
<1>5. Owners' = (1 .. n + 1) \cup {v \in User : v # u /\ held[v] # None}
  BY <1>1, <1>2 DEF Owners, Types
<1>6. \A i \in 1 .. n + 1 : i \notin User
  BY <1>2, UserAssumption
<1>7. ASSUME NEW o \in Owners' PROVE was[o] \in Owners /\ PairOf(o)' = PairOf(was[o])
  <2>1. CASE o = n + 1
    <3>1. was[o] = u /\ u \in Owners /\ PairOf(u) = held[u]
      BY <1>1, <2>1, OwnerIs
    <3>2. PairOf(o)' = held[u]
      BY <1>2, <1>6, <2>1 DEF PairOf
    <3> QED BY <3>1, <3>2
  <2>2. CASE o # n + 1 /\ o \in User
    <3>1. was[o] = o /\ held'[o] = held[o] /\ held[o] # None
      BY <1>1, <1>5, <1>6, <2>2 DEF Types
    <3> QED BY <2>2, <3>1 DEF Owners, PairOf
  <2>3. CASE o # n + 1 /\ o \notin User
    <3>1. o \in 1 .. n /\ was[o] = o
      BY <1>2, <1>5, <2>3
    <3>2. PairOf(o)' = m_free_portpairs[o]
      BY <1>2, <2>3, <3>1 DEF PairOf
    <3> QED BY <1>2, <3>1, <3>2, OwnerIs
  <2> QED BY <2>1, <2>2, <2>3
<1>8. ASSUME NEW o1 \in Owners', NEW o2 \in Owners', o1 # o2 PROVE was[o1] # was[o2]
  <2>1. \A o \in Owners' : \/ o = n + 1 /\ was[o] = u
                           \/ o # n + 1 /\ o # u /\ was[o] = o
    BY <1>2, <1>5, <1>6
  <2> QED BY <1>8, <2>1
<1> QED
  <2> HIDE DEF was
  <2> QED BY <1>3, <1>7, <1>8

-----------------------------------------------------------------------------
(* Binding a pair of ports. *)

\* An id that is not in use is found while there are fewer ids than numbers.
LEMMA UnusedId ==
  ASSUME NEW given, IsFiniteSet(given), Cardinality(given) <= MaxPort + 1
  PROVE  (CHOOSE id \in 1 .. 4 * (MaxPort + 2) : id \notin given) \notin given
<1> DEFINE ids == 1 .. 4 * (MaxPort + 2)
<1>1. MaxPort \in Nat /\ Cardinality(given) \in Nat
  BY PortAssumption, FS_CardinalityType
<1>2. Cardinality(ids) = 4 * (MaxPort + 2)
  BY <1>1, FS_Interval
<1>3. \E id \in ids : id \notin given
  <2> SUFFICES ASSUME ids \subseteq given PROVE FALSE
    OBVIOUS
  <2>1. Cardinality(ids) <= Cardinality(given)
    BY FS_Subset
  <2> QED BY <1>1, <1>2, <2>1
<1> QED BY <1>3

\* The ids of a port and of the one after it are new and differ.
LEMMA IdsAreNew ==
  ASSUME Types, MapsAgree, port <= MaxPort,
         NEW id \in NewIds(Range(cpid)), NEW id1 \in NewIds(Range(cpid) \cup {id})
  PROVE  /\ id \notin DOMAIN m_cpid_2_addr_map /\ id1 \notin DOMAIN m_cpid_2_addr_map
         /\ id # id1
<1> DEFINE used == DOMAIN m_cpid_2_addr_map
<1>1. Range(cpid) = used
  BY DEF MapsAgree, Range
<1>2. /\ IsFiniteSet(used) /\ Cardinality(used) \in Nat /\ Cardinality(used) <= port
      /\ port \in Nat /\ MaxPort \in Nat
  BY PortAssumption, FS_CardinalityType DEF MapsAgree, Types
<1>3. IsFiniteSet(used \cup {id}) /\ Cardinality(used \cup {id}) <= MaxPort + 1
  <2>1. /\ IsFiniteSet(used \cup {id})
        /\ Cardinality(used \cup {id}) =
             IF id \in used THEN Cardinality(used) ELSE Cardinality(used) + 1
    BY <1>2, FS_AddElement
  <2> QED BY <1>2, <2>1
<1>4. id = CHOOSE i \in 1 .. 4 * (MaxPort + 2) : i \notin used
  <2>1. used \cup used = used
    OBVIOUS
  <2> QED BY <1>1, <2>1 DEF NewIds
<1>5. id \notin used
  <2>1. Cardinality(used) <= MaxPort + 1
    BY <1>2
  <2> QED BY <1>2, <1>4, <2>1, UnusedId
<1>6. id1 = CHOOSE i \in 1 .. 4 * (MaxPort + 2) : i \notin used \cup {id}
  <2>1. (used \cup {id}) \cup used = used \cup {id}
    OBVIOUS
  <2> QED BY <1>1, <2>1 DEF NewIds
<1>7. id1 \notin used \cup {id}
  BY <1>3, <1>6, UnusedId
<1> QED BY <1>5, <1>7

\* After the two ports are bound the maps still lead to and fro, and whatever
\* was bound is.
LEMMA BindMaps ==
  ASSUME Types, MapsAgree, BindPair
  PROVE  /\ MapsAgree' /\ DOMAIN cpid' = DOMAIN cpid \cup {port, port + 1}
<1>1. PICK id \in NewIds(Range(cpid)) : \E id1 \in NewIds(Range(cpid) \cup {id}) :
         /\ cpid' = Inserted(Inserted(cpid, port, id), port + 1, id1)
         /\ m_cpid_2_addr_map' =
              Inserted(Inserted(m_cpid_2_addr_map, id, port), id1, port + 1)
  BY DEF BindPair
<1>2. PICK id1 \in NewIds(Range(cpid) \cup {id}) :
         /\ cpid' = Inserted(Inserted(cpid, port, id), port + 1, id1)
         /\ m_cpid_2_addr_map' =
              Inserted(Inserted(m_cpid_2_addr_map, id, port), id1, port + 1)
  BY <1>1
<1> DEFINE used == DOMAIN m_cpid_2_addr_map
<1>3. /\ port \in Nat /\ port' = port + 2 /\ port <= MaxPort
      /\ reading' = reading \cup {port, port + 1}
  BY DEF Types, BindPair
<1>4. id \notin used /\ id1 \notin used /\ id # id1
  BY <1>3, IdsAreNew
<1>5. port \notin DOMAIN cpid /\ port + 1 \notin DOMAIN cpid
  BY <1>3 DEF MapsAgree
<1>6. /\ DOMAIN cpid' = DOMAIN cpid \cup {port, port + 1}
      /\ cpid'[port] = id /\ cpid'[port + 1] = id1
      /\ \A p \in DOMAIN cpid : cpid'[p] = cpid[p]
  BY <1>2, <1>3, <1>5 DEF Inserted
<1>7. /\ DOMAIN m_cpid_2_addr_map' = used \cup {id, id1}
      /\ m_cpid_2_addr_map'[id] = port /\ m_cpid_2_addr_map'[id1] = port + 1
      /\ \A i \in used : m_cpid_2_addr_map'[i] = m_cpid_2_addr_map[i]
  BY <1>2, <1>4 DEF Inserted
<1>8. IsFiniteSet(used \cup {id, id1}) /\ Cardinality(used \cup {id, id1}) <= port + 2
  <2>1. IsFiniteSet(used) /\ Cardinality(used) \in Nat /\ Cardinality(used) <= port
    BY FS_CardinalityType DEF MapsAgree
  <2>2. IsFiniteSet(used \cup {id}) /\ Cardinality(used \cup {id}) = Cardinality(used) + 1
    BY <1>4, <2>1, FS_AddElement
  <2>3. /\ IsFiniteSet((used \cup {id}) \cup {id1})
        /\ Cardinality((used \cup {id}) \cup {id1}) = Cardinality(used \cup {id}) + 1
    BY <1>4, <2>2, FS_AddElement
  <2>4. (used \cup {id}) \cup {id1} = used \cup {id, id1}
    OBVIOUS
  <2>5. /\ IsFiniteSet(used \cup {id, id1})
        /\ Cardinality(used \cup {id, id1}) = Cardinality(used \cup {id}) + 1
    BY <2>3, <2>4, Zenon
  <2>6. Cardinality(used) + 1 + 1 <= port + 2
    BY <1>3, <2>1
  <2> QED BY <2>2, <2>5, <2>6
<1>9. \A p \in DOMAIN cpid' :
        /\ p \in Nat /\ p < port' /\ p \in reading'
        /\ cpid'[p] \in DOMAIN m_cpid_2_addr_map' /\ m_cpid_2_addr_map'[cpid'[p]] = p
  BY <1>3, <1>6, <1>7 DEF MapsAgree
<1>10. \A i \in DOMAIN m_cpid_2_addr_map' : i \in Range(cpid')
  BY <1>6, <1>7 DEF MapsAgree, Range
<1> QED BY <1>3, <1>6, <1>7, <1>8, <1>9, <1>10 DEF MapsAgree

\* The loop leaves the pairs that are made as they are, but for one at the end.
LEMMA BindOwners ==
  ASSUME Types, UNCHANGED held, NEW pair \in PairType, NEW n,
         n = Len(m_free_portpairs) + 1,
         m_free_portpairs' = Append(m_free_portpairs, pair)
  PROVE  /\ Owners' = Owners \cup {n} /\ n \notin Owners
         /\ \A o \in Owners : PairOf(o)' = PairOf(o)
         /\ PairOf(n)' = pair
         /\ m_free_portpairs' \in Seq(PairType)
<1>1. /\ n \in Nat \ {0} /\ DOMAIN m_free_portpairs = 1 .. n - 1
      /\ DOMAIN m_free_portpairs' = 1 .. n
      /\ \A i \in 1 .. n - 1 : m_free_portpairs'[i] = m_free_portpairs[i]
      /\ m_free_portpairs'[n] = pair
      /\ m_free_portpairs' \in Seq(PairType)
  BY DEF Types
<1>2. n \notin User /\ n \notin 1 .. n - 1 /\ 1 .. n = (1 .. n - 1) \cup {n}
  BY <1>1, UserAssumption
<1>3. Owners' = Owners \cup {n} /\ n \notin Owners
  BY <1>1, <1>2 DEF Owners
<1>4. ASSUME NEW o \in Owners PROVE PairOf(o)' = PairOf(o)
  <2>1. o \in User \/ o \in 1 .. n - 1
    BY <1>1 DEF Owners
  <2> QED BY <1>1, <2>1 DEF PairOf
<1>5. PairOf(n)' = pair
  BY <1>1, <1>2 DEF PairOf
<1> QED BY <1>1, <1>3, <1>4, <1>5

\* A bound port pairs up with the one that waits, or waits itself.
LEMMA BindPairs ==
  ASSUME Types, NEW rtp, rtp = port, rtp # 0, PairsApart, HalfPairApart, AllBound,
         UNCHANGED held, port' = rtp + 2, PairUp(rtp),
         DOMAIN cpid' = DOMAIN cpid \cup {rtp, rtp + 1}
  PROVE  /\ portpair' \in PairType /\ portpair'.rtp_sent_port = 0
         /\ m_free_portpairs' \in Seq(PairType)
         /\ PairsApart' /\ HalfPairApart' /\ AllBound'
<1>1. /\ rtp \in Nat /\ portpair \in PairType /\ portpair.rtp_sent_port = 0
      /\ m_free_portpairs \in Seq(PairType)
  BY DEF Types
<1>2. Bound(rtp)' /\ \A p \in Nat : Bound(p) => Bound(p)'
  BY <1>1 DEF Bound
<1>3. CASE portpair.rtp_recv_port = 0
  <2>1. /\ portpair' = [portpair EXCEPT !.rtp_recv_port = rtp]
        /\ UNCHANGED m_free_portpairs
    BY <1>3 DEF PairUp
  <2>2. /\ portpair' \in PairType /\ portpair'.rtp_sent_port = 0
        /\ portpair'.rtp_recv_port = rtp
    BY <1>1, <2>1 DEF PairType
  <2>3. Owners' = Owners /\ \A o \in Owners : PairOf(o)' = PairOf(o)
    BY <2>1 DEF Owners, PairOf
  <2>4. \A o \in Owners : PairOf(o) \in PairType
    BY OwnerIs
  <2>5. PairsApart'
    BY <1>1, <2>3, <2>4 DEF PairsApart, PassedBy, PairType
  <2>6. HalfPairApart'
    BY <1>1, <2>2, <2>3, <2>4 DEF HalfPairApart, PairsApart, PassedBy, PairType
  <2>7. AllBound'
    BY <1>1, <1>2, <2>2, <2>3, <2>4 DEF AllBound, Bound, PairType
  <2> QED BY <1>1, <2>1, <2>2, <2>5, <2>6, <2>7
<1>4. CASE portpair.rtp_recv_port # 0
  <2>0. PICK n : n = Len(m_free_portpairs) + 1
    OBVIOUS
  <2>1. PICK pair : pair = [portpair EXCEPT !.rtp_sent_port = rtp]
    OBVIOUS
  <2>2. /\ portpair' = NoPair /\ m_free_portpairs' = Append(m_free_portpairs, pair)
        /\ pair \in PairType /\ pair.rtp_sent_port = rtp
        /\ pair.rtp_recv_port = portpair.rtp_recv_port
        /\ portpair' \in PairType /\ portpair'.rtp_recv_port = 0
        /\ portpair'.rtp_sent_port = 0
    <3>1. portpair' = NoPair /\ m_free_portpairs' = Append(m_free_portpairs, pair)
      BY <1>4, <2>1 DEF PairUp, AddPortpair
    <3>2. pair = [rtp_recv_port |-> portpair.rtp_recv_port, rtp_sent_port |-> rtp]
      BY <1>1, <2>1 DEF PairType
    <3> QED BY <1>1, <3>1, <3>2 DEF PairType, NoPair
  <2>3. /\ Owners' = Owners \cup {n} /\ n \notin Owners
        /\ \A o \in Owners : PairOf(o)' = PairOf(o)
        /\ PairOf(n)' = pair /\ m_free_portpairs' \in Seq(PairType)
    BY <2>0, <2>2, BindOwners
  <2>4. \A o \in Owners : PairOf(o) \in PairType
    BY OwnerIs
  <2>5. /\ portpair.rtp_recv_port \in Nat /\ portpair.rtp_recv_port < rtp
        /\ \A o \in Owners : portpair.rtp_recv_port \notin
                               {PairOf(o).rtp_recv_port, PairOf(o).rtp_sent_port}
    BY <1>1, <1>4 DEF HalfPairApart, PairType
  <2>6. \A o \in Owners :
          /\ PassedBy(PairOf(o).rtp_recv_port) /\ PassedBy(PairOf(o).rtp_sent_port)
          /\ PairOf(o).rtp_recv_port # PairOf(o).rtp_sent_port
          /\ PairOf(o).rtp_recv_port # rtp /\ PairOf(o).rtp_sent_port # rtp
    BY <1>1, <2>4 DEF PairsApart, PassedBy, PairType
  <2>7. \A o \in Owners' :
          LET q == PairOf(o)' IN
          /\ q.rtp_recv_port # 0 /\ q.rtp_recv_port < port'
          /\ q.rtp_sent_port # 0 /\ q.rtp_sent_port < port'
          /\ q.rtp_recv_port # q.rtp_sent_port
    <3>1. \A o \in Owners :
            LET q == PairOf(o) IN
            /\ q.rtp_recv_port # 0 /\ q.rtp_recv_port < port'
            /\ q.rtp_sent_port # 0 /\ q.rtp_sent_port < port'
            /\ q.rtp_recv_port # q.rtp_sent_port
      BY <1>1, <2>4, <2>6 DEF PassedBy, PairType
    <3>2. /\ pair.rtp_recv_port # 0 /\ pair.rtp_recv_port < port'
          /\ pair.rtp_sent_port # 0 /\ pair.rtp_sent_port < port'
          /\ pair.rtp_recv_port # pair.rtp_sent_port
      BY <1>1, <1>4, <2>2, <2>5
    <3> QED BY <2>3, <3>1, <3>2
  <2>8. \A o1, o2 \in Owners' : o1 # o2 =>
          {PairOf(o1)'.rtp_recv_port, PairOf(o1)'.rtp_sent_port}
            \cap {PairOf(o2)'.rtp_recv_port, PairOf(o2)'.rtp_sent_port} = {}
    BY <2>2, <2>3, <2>5, <2>6 DEF PairsApart
  <2>9. PairsApart'
    BY <2>7, <2>8 DEF PairsApart, PassedBy
  <2>10. HalfPairApart'
    BY <2>2 DEF HalfPairApart
  <2>11. AllBound'
    <3>1. Bound(pair.rtp_recv_port)' /\ Bound(pair.rtp_sent_port)'
      BY <1>2, <1>4, <2>2, <2>5 DEF AllBound
    <3>2. \A o \in Owners : /\ Bound(PairOf(o).rtp_recv_port)
                            /\ Bound(PairOf(o).rtp_sent_port)
      BY DEF AllBound
    <3> QED BY <1>2, <2>2, <2>3, <2>4, <3>1, <3>2 DEF AllBound, Bound, PairType
  <2> QED BY <2>2, <2>3, <2>9, <2>10, <2>11
<1> QED BY <1>3, <1>4

-----------------------------------------------------------------------------
(* Every step. *)

\* At the start there is nothing, and nobody has a port.
LEMMA NothingApart ==
  ASSUME NothingYet
  PROVE  Owners = {} /\ PairsApart /\ HalfPairApart
<1>1. Owners = {}
  BY DEF NothingYet, Owners
<1> QED BY <1>1 DEF PairsApart, HalfPairApart, NothingYet, NoPair

\* Nor is anything bound.
LEMMA NothingBound ==
  ASSUME Types, NothingYet
  PROVE  MapsAgree /\ AllBound
<1>1. IsFiniteSet(DOMAIN m_cpid_2_addr_map) /\ Cardinality(DOMAIN m_cpid_2_addr_map) = 0
  BY FS_EmptySet DEF NothingYet
<1>2. MapsAgree
  BY <1>1 DEF MapsAgree, NothingYet, Types
<1>3. AllBound
  BY NothingApart DEF AllBound, NothingYet, NoPair
<1> QED BY <1>2, <1>3

\* The invariant holds before the first start.
LEMMA InitInv == Init => IInv
<1> SUFFICES ASSUME Init PROVE IInv
  OBVIOUS
<1>1. Types /\ pc = "stopped" /\ starts = 0
  BY DEF Init, Types, PairType, NoPair
<1>2. NothingYet
  BY DEF Init, NothingYet
<1> QED BY <1>1, <1>2, NothingApart DEF IInv, FirstStart

\* Every step keeps the invariant.
LEMMA NextInv == IInv /\ [Next]_vars => IInv'
<1> SUFFICES ASSUME IInv, [Next]_vars PROVE IInv'
  OBVIOUS
<1> USE DEF netVars, loopVars, socketVars, poolVars
<1>0. Types
  BY DEF IInv
<1>1. ASSUME UNCHANGED <<starts, loopVars, m_cpid_2_addr_map, poolVars>>,
             pc' \in {"stopped", "tcp", "udp", "running"},
             BeforeLoop' => BeforeLoop, starts = 0 => pc' = "stopped",
             pc = "stopped" => pc' = "stopped",
             \/ cpid' = cpid /\ reading' = reading
             \/ pc' = "stopped" /\ DOMAIN cpid' = {}
      PROVE  IInv'
  <2>1. Types'
    BY <1>0, <1>1 DEF Types
  <2>2. PairsApart => PairsApart'
    BY <1>1 DEF PairsApart, PassedBy, Owners, PairOf
  <2>3. HalfPairApart => HalfPairApart'
    BY <1>1 DEF HalfPairApart, Owners, PairOf
  <2>4. CASE starts <= 1
    <3>1. BeforeLoop' => NothingYet'
      <4> SUFFICES ASSUME BeforeLoop' PROVE NothingYet'
        OBVIOUS
      <4>1. NothingYet
        BY <1>1, <2>4 DEF IInv, FirstStart
      <4> QED BY <1>1, <4>1 DEF NothingYet
    <3>2. pc' # "stopped" => MapsAgree' /\ AllBound'
      BY <1>1, <2>4
         DEF IInv, FirstStart, MapsAgree, AllBound, Bound, Owners, PairOf
    <3> QED BY <1>1, <2>1, <2>2, <2>3, <2>4, <3>1, <3>2 DEF IInv, FirstStart
  <2>5. CASE ~(starts <= 1)
    BY <1>1, <2>1, <2>5 DEF IInv, FirstStart
  <2> QED BY <2>4, <2>5
<1>2. ASSUME StartTcp PROVE IInv'
  <2>1. Types'
    BY <1>0, <1>2 DEF StartTcp, Types
  <2>2. /\ starts' = starts + 1 /\ starts \in Nat
        /\ UNCHANGED <<loopVars, socketVars, poolVars>>
        /\ pc' \in {"stopped", "tcp"}
    BY <1>0, <1>2 DEF StartTcp, Types
  <2>3. CASE starts = 0
    <3>1. NothingYet
      BY <2>3 DEF IInv, FirstStart, BeforeLoop
    <3>2. NothingYet'
      BY <2>2, <3>1 DEF NothingYet
    <3>3. PairsApart' /\ HalfPairApart' /\ MapsAgree' /\ AllBound'
      BY <2>1, <3>2, NothingApart, NothingBound, PTL
    <3> QED BY <2>1, <2>2, <2>3, <3>2, <3>3 DEF IInv, FirstStart
  <2>4. CASE starts # 0
    BY <2>1, <2>2, <2>4 DEF IInv, FirstStart
  <2> QED BY <2>3, <2>4
<1>3. ASSUME Listen PROVE IInv'
  <2>1. starts # 0 /\ BeforeLoop /\ pc' \in {"udp", "running"}
    BY <1>3 DEF Listen, IInv, BeforeLoop
  <2>2. UNCHANGED <<starts, loopVars, socketVars, poolVars>> /\ pc = "tcp"
    BY <1>3 DEF Listen
  <2> QED BY <1>1, <2>1, <2>2 DEF BeforeLoop
<1>4. ASSUME StartUdp PROVE IInv'
  <2>1. /\ starts # 0 /\ BeforeLoop /\ pc = "udp"
        /\ UNCHANGED <<starts, m_cpid_2_addr_map, poolVars>>
    BY <1>4 DEF StartUdp, IInv, BeforeLoop
  <2>2. CASE /\ pc' = "bind" /\ port' = FirstPort /\ portpair' = NoPair
             /\ UNCHANGED <<cpid, reading>>
    <3>1. FirstPort \in Nat /\ FirstPort # 0
      BY PortAssumption DEF FirstPort
    <3>2. Types'
      BY <1>0, <2>1, <2>2, <3>1 DEF Types, NoPair, PairType
    <3>3. CASE starts <= 1
      <4>1. NothingYet'
        BY <2>1, <2>2, <3>3 DEF IInv, FirstStart, NothingYet
      <4>2. PairsApart' /\ HalfPairApart' /\ MapsAgree' /\ AllBound'
        BY <3>2, <4>1, NothingApart, NothingBound, PTL
      <4> QED BY <2>1, <2>2, <3>1, <3>2, <4>1, <4>2 DEF IInv, FirstStart
    <3>4. CASE ~(starts <= 1)
      BY <2>1, <2>2, <3>1, <3>2, <3>4 DEF IInv, FirstStart
    <3> QED BY <3>3, <3>4
  <2>3. CASE StopAll /\ pc' = "stopped" /\ UNCHANGED loopVars
    BY <1>1, <2>1, <2>3 DEF StopAll, BeforeLoop
  <2> QED BY <1>4, <2>2, <2>3 DEF StartUdp
<1>5. ASSUME BindPair PROVE IInv'
  <2>1. /\ starts # 0 /\ pc = "bind" /\ port # 0 /\ port' = port + 2 /\ port' # 0
        /\ UNCHANGED <<pc, starts, held>> /\ PairUp(port)
    BY <1>0, <1>5 DEF BindPair, IInv, Types
  <2>2. Types'
    <3>1. /\ port \in Nat /\ portpair \in PairType /\ portpair.rtp_sent_port = 0
          /\ m_free_portpairs \in Seq(PairType)
      BY <1>0 DEF Types
    <3>2. /\ portpair' \in PairType /\ portpair'.rtp_sent_port = 0
          /\ m_free_portpairs' \in Seq(PairType)
      <4>1. CASE portpair.rtp_recv_port = 0
        BY <2>1, <3>1, <4>1 DEF PairUp, PairType
      <4>2. CASE portpair.rtp_recv_port # 0
        <5>1. /\ portpair' = NoPair
              /\ m_free_portpairs' = Append(m_free_portpairs,
                                            [portpair EXCEPT !.rtp_sent_port = port])
          BY <2>1, <4>2 DEF PairUp, AddPortpair
        <5>2. [portpair EXCEPT !.rtp_sent_port = port] \in PairType
          BY <3>1 DEF PairType
        <5> QED BY <3>1, <5>1, <5>2 DEF NoPair, PairType
      <4> QED BY <4>1, <4>2
    <3> QED BY <1>0, <2>1, <3>1, <3>2 DEF Types
  <2>3. CASE starts <= 1
    <3>1. PairsApart /\ HalfPairApart /\ MapsAgree /\ AllBound
      BY <2>1, <2>3 DEF IInv, FirstStart
    <3>2. MapsAgree' /\ DOMAIN cpid' = DOMAIN cpid \cup {port, port + 1}
      BY <1>0, <1>5, <3>1, BindMaps
    <3>3. PairsApart' /\ HalfPairApart' /\ AllBound'
      <4>1. PICK rtp : rtp = port
        OBVIOUS
      <4> QED BY <1>0, <2>1, <3>1, <3>2, <4>1, BindPairs
    <3> QED BY <2>1, <2>2, <3>2, <3>3 DEF IInv, FirstStart, BeforeLoop
  <2>4. CASE ~(starts <= 1)
    BY <2>1, <2>2, <2>4 DEF IInv, FirstStart
  <2> QED BY <2>3, <2>4
<1>6. ASSUME BindFails PROVE IInv'
  <2>1. /\ starts # 0 /\ pc = "bind" /\ port # 0 /\ port' = port + 2 /\ port' # 0
        /\ port \in Nat /\ UNCHANGED <<pc, starts, portpair, socketVars, poolVars>>
    BY <1>0, <1>6 DEF BindFails, IInv, Types
  <2>2. Types'
    BY <1>0, <2>1 DEF Types
  <2>3. CASE starts <= 1
    <3>1. PairsApart /\ HalfPairApart /\ MapsAgree /\ AllBound
      BY <2>1, <2>3 DEF IInv, FirstStart
    <3>2. \A o \in Owners : PairOf(o) \in PairType
      BY <1>0, OwnerIs
    <3>3. Owners' = Owners /\ \A o \in Owners : PairOf(o)' = PairOf(o)
      BY <2>1 DEF Owners, PairOf
    <3>4. PairsApart'
      BY <2>1, <3>1, <3>2, <3>3 DEF PairsApart, PassedBy, PairType
    <3>5. HalfPairApart'
      BY <1>0, <2>1, <3>1, <3>3 DEF HalfPairApart, Types, PairType
    <3>6. AllBound'
      BY <2>1, <3>1, <3>3 DEF AllBound, Bound
    <3>7. MapsAgree'
      <4>1. Cardinality(DOMAIN m_cpid_2_addr_map) \in Nat
        BY <3>1, FS_CardinalityType DEF MapsAgree
      <4> QED BY <2>1, <3>1, <4>1 DEF MapsAgree
    <3> QED BY <2>1, <2>2, <3>4, <3>5, <3>6, <3>7 DEF IInv, FirstStart, BeforeLoop
  <2>4. CASE ~(starts <= 1)
    BY <2>1, <2>2, <2>4 DEF IInv, FirstStart
  <2> QED BY <2>3, <2>4
<1>7. ASSUME BindDone PROVE IInv'
  <2>1. starts # 0 /\ pc = "bind" /\ pc' = "running"
    BY <1>7 DEF BindDone, IInv
  <2>2. UNCHANGED <<starts, loopVars, socketVars, poolVars>>
    BY <1>7 DEF BindDone
  <2> QED BY <1>1, <2>1, <2>2 DEF BeforeLoop
<1>8. ASSUME Stop PROVE IInv'
  <2>1. starts # 0 /\ pc = "running" /\ pc' = "stopped"
    BY <1>8 DEF Stop, IInv
  <2> QED BY <1>1, <1>8, <2>1 DEF Stop, StopAll, BeforeLoop
<1>9. ASSUME NEW u \in User, GetPortpair(u) \/ FreePortpair(u) PROVE IInv'
  <2>1. /\ Types'
        /\ \E was : /\ \A o \in Owners' : was[o] \in Owners /\ PairOf(o)' = PairOf(was[o])
                    /\ \A o1, o2 \in Owners' : o1 # o2 => was[o1] # was[o2]
    BY <1>0, <1>9, GetShuffles, FreeShuffles
  <2>2. UNCHANGED <<pc, starts, loopVars, socketVars>>
    BY <1>9 DEF GetPortpair, FreePortpair
  <2>3. CASE starts <= 1
    <3>1. PairsApart' /\ HalfPairApart'
      BY <2>1, <2>2, <2>3, Shuffled DEF IInv, FirstStart
    <3>2. pc # "stopped" => AllBound'
      BY <2>1, <2>2, <2>3, ShuffledBound DEF IInv, FirstStart
    <3>3. MapsAgree => MapsAgree'
      BY <2>2 DEF MapsAgree
    <3>4. ~NothingYet
      BY <1>9 DEF NothingYet, GetPortpair, FreePortpair
    <3> QED
      BY <2>1, <2>2, <2>3, <3>1, <3>2, <3>3, <3>4 DEF IInv, FirstStart, BeforeLoop
  <2>4. CASE ~(starts <= 1)
    BY <2>1, <2>2, <2>4 DEF IInv, FirstStart
  <2> QED BY <2>3, <2>4
<1>10. CASE UNCHANGED vars
  <2>1. Types' /\ UNCHANGED <<pc, starts, port, portpair, m_free_portpairs, held>>
    BY <1>0, <1>10 DEF vars, Types
  <2>2. FirstStart'
    BY <1>10 DEF vars, IInv, FirstStart, BeforeLoop, NothingYet, PairsApart,
                 PassedBy, HalfPairApart, MapsAgree, AllBound, Bound, Owners, PairOf
  <2> QED BY <2>1, <2>2 DEF IInv
<1> QED
  BY <1>2, <1>3, <1>4, <1>5, <1>6, <1>7, <1>8, <1>9, <1>10 DEF Next

-----------------------------------------------------------------------------
(* What the runs check. *)

\* The invariant of the loop, of SipProxies and of a stop.
THEOREM SetupInv == Spec => []IInv
BY InitInv, NextInv, PTL DEF Spec

\* Whatever is listed or lent has a place.
LEMMA ListedHasPlace ==
  ASSUME Types, NEW pair \in Listed
  PROVE  \E o \in Owners : pair = PairOf(o)
<1>1. CASE \E i \in DOMAIN m_free_portpairs : pair = m_free_portpairs[i]
  BY <1>1, OwnerIs
<1>2. CASE \E u \in User : pair = held[u] /\ held[u] # None
  BY <1>2, OwnerIs
<1> QED BY <1>1, <1>2 DEF Listed, Range, Types

\* Until the first stop every pair a SipProxy may be given is bound and read on
\* all four ports, while start still binds others, whichever ports are taken.
THEOREM PairsServed == Spec => []ListedPairsServed
<1>1. IInv => ListedPairsServed
  <2> SUFFICES ASSUME IInv, starts <= 1, pc # "stopped", NEW pair \in Listed
               PROVE  PairServed(pair)
    BY DEF ListedPairsServed
  <2>1. Types /\ MapsAgree /\ AllBound
    BY DEF IInv, FirstStart
  <2>2. PICK o \in Owners : pair = PairOf(o)
    BY <2>1, ListedHasPlace
  <2>3. Bound(pair.rtp_recv_port) /\ Bound(pair.rtp_sent_port)
    BY <2>1, <2>2 DEF AllBound
  <2>4. \A p \in DOMAIN cpid : Serves(p)
    BY <2>1 DEF MapsAgree, Serves
  <2> QED BY <2>3, <2>4 DEF Bound, PairServed
<1> QED BY <1>1, SetupInv, PTL

\* Until a second start no port is in two pairs.
THEOREM PortsApart == Spec => []NoPortTwice
<1>1. IInv => NoPortTwice
  <2> SUFFICES ASSUME IInv, starts <= 1
               PROVE  /\ \A o \in Owners : PairOf(o).rtp_recv_port # PairOf(o).rtp_sent_port
                      /\ \A o1, o2 \in Owners : o1 # o2 =>
                           Range(PairOf(o1)) \cap Range(PairOf(o2)) = {}
    BY DEF NoPortTwice, Owners
  <2>1. Types /\ PairsApart
    BY DEF IInv, FirstStart
  <2>2. \A pair \in PairType : Range(pair) = {pair.rtp_recv_port, pair.rtp_sent_port}
    BY DEF PairType, Range
  <2>3. \A o \in Owners : PairOf(o) \in PairType
    BY <2>1, OwnerIs
  <2> QED BY <2>1, <2>2, <2>3 DEF PairsApart
<1> QED BY <1>1, SetupInv, PTL

\* A start that fails at whatever step, and a stop, leave no socket behind.
THEOREM StopLeavesNothing == Spec => []StoppedIsOff
<1>1. Init => StoppedIsOff
  BY DEF Init, StoppedIsOff
<1>2. StoppedIsOff /\ [Next]_vars => StoppedIsOff'
  <2> USE DEF netVars, loopVars, socketVars, poolVars, StoppedIsOff
  <2> SUFFICES ASSUME StoppedIsOff, [Next]_vars PROVE StoppedIsOff'
    OBVIOUS
  <2>1. CASE StartTcp \/ Listen \/ BindPair \/ BindFails \/ BindDone
    BY <2>1 DEF StartTcp, Listen, BindPair, BindFails, BindDone
  <2>2. CASE StartUdp \/ Stop
    BY <2>2 DEF StartUdp, Stop, StopAll
  <2>3. CASE \E u \in User : GetPortpair(u) \/ FreePortpair(u)
    BY <2>3 DEF GetPortpair, FreePortpair
  <2>4. CASE UNCHANGED vars
    BY <2>4 DEF vars
  <2> QED BY <2>1, <2>2, <2>3, <2>4 DEF Next
<1> QED BY <1>1, <1>2, PTL DEF Spec
=============================================================================
