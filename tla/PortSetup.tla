------------------------------ MODULE PortSetup ------------------------------
(***************************************************************************)
(* Starting and stopping the RtpProxy: TCP, then UDP, then the port pairs, *)
(* bound one after the other while SipProxies may already ask for them.    *)
(* The container of free pairs and m_cpid_2_addr_map belong to singletons: *)
(* a stop does not empty them.                                             *)
(***************************************************************************)
EXTENDS Integers, Sequences, Functions

CONSTANTS
  MinPort, MaxPort,   \* m_udp_min_port, m_udp_max_port
  User,               \* those who ask for pairs
  MaxStarts,          \* bound: calls of start_rtp_proxy
  None

ASSUME PortAssumption == MinPort \in Nat \ {0} /\ MaxPort \in Nat
ASSUME UserAssumption ==
  User \cap Nat = {} /\ None \notin [rtp_recv_port : Nat, rtp_sent_port : Nat]

VARIABLES
  pc,            \* where start_rtp_proxy is: "stopped", "tcp", "udp", "bind", "running"
  starts,        \* history: starts so far
  tcp, udp,      \* the completion ports run
  listening,     \* some server address is listened on
  port,          \* next port of the loop
  portpair,      \* the pair being put together, 0 for what is missing
  cpid,          \* bound UDP port -> id of its socket
  reading,       \* UDP ports with a read posted
  m_cpid_2_addr_map,
  m_free_portpairs, m_used_num,
  held           \* user -> the pair it has, or None

netVars == <<tcp, udp, listening>>
loopVars == <<port, portpair>>
socketVars == <<cpid, reading, m_cpid_2_addr_map>>
poolVars == <<m_free_portpairs, m_used_num, held>>
vars == <<pc, starts, netVars, loopVars, socketVars, poolVars>>

NoPair == [rtp_recv_port |-> 0, rtp_sent_port |-> 0]

Init ==
  /\ pc = "stopped" /\ starts = 0
  /\ tcp = FALSE /\ udp = FALSE /\ listening = FALSE
  /\ port = 0 /\ portpair = NoPair
  /\ cpid = << >> /\ reading = {} /\ m_cpid_2_addr_map = << >>
  /\ m_free_portpairs = << >> /\ m_used_num = 0 /\ held = [u \in User |-> None]

-----------------------------------------------------------------------------
(* Starting, under m_start_lock.                                            *)

\* start_rtp_proxy; without memory, an interface or TCP it fails.
StartTcp ==
  /\ pc = "stopped" /\ starts < MaxStarts /\ starts' = starts + 1
  /\ \/ tcp' = TRUE /\ pc' = "tcp"
     \/ UNCHANGED <<tcp, pc>>
  /\ UNCHANGED <<udp, listening, loopVars, socketVars, poolVars>>

\* Addresses that cannot be listened on are erased; with none left start
\* succeeds without UDP.
Listen ==
  /\ pc = "tcp"
  /\ \/ listening' = TRUE /\ pc' = "udp"
     \/ listening' = FALSE /\ pc' = "running"
  /\ UNCHANGED <<starts, tcp, udp, loopVars, socketVars, poolVars>>

\* CnnMixer::stopAll closes every socket.
StopAll == /\ tcp' = FALSE /\ udp' = FALSE /\ listening' = FALSE
           /\ cpid' = << >> /\ reading' = {}

\* The first even port.
FirstPort == IF MinPort % 2 = 0 THEN MinPort ELSE MinPort + 1

\* Wrong variant: TCP is left running.
StartUdpLeavesTcp ==
  /\ pc = "udp"
  /\ \/ udp' = TRUE /\ pc' = "bind"
     \/ UNCHANGED udp /\ pc' = "stopped"
  /\ port' = FirstPort /\ portpair' = NoPair
  /\ UNCHANGED <<starts, tcp, listening, socketVars, poolVars>>

StartUdp ==
  /\ pc = "udp"
  /\ \/ /\ udp' = TRUE /\ pc' = "bind"
        /\ port' = FirstPort /\ portpair' = NoPair
        /\ UNCHANGED <<tcp, listening, cpid, reading>>
     \/ /\ StopAll /\ pc' = "stopped" /\ UNCHANGED loopVars
  /\ UNCHANGED <<starts, m_cpid_2_addr_map, poolVars>>

\* FreePortPairContainer::add_portpair.
AddPortpair(pair) ==
  /\ m_free_portpairs' = Append(m_free_portpairs, pair)
  /\ m_used_num' = IF m_used_num > 0 THEN m_used_num - 1 ELSE 0

\* Two RTP ports make a pair.
PairUp(rtp) ==
  IF portpair.rtp_recv_port = 0
    THEN /\ portpair' = [portpair EXCEPT !.rtp_recv_port = rtp]
         /\ UNCHANGED <<m_free_portpairs, m_used_num>>
    ELSE /\ AddPortpair([portpair EXCEPT !.rtp_sent_port = rtp])
         /\ portpair' = NoPair

\* map::insert leaves an entry that is there.
Inserted(map, key, value) ==
  [k \in DOMAIN map \cup {key} |-> IF k \in DOMAIN map THEN map[k] ELSE value]

\* The completion port numbers sockets: it may give the number of a closed one
\* again, or one it has not given yet.
NewIds(used) ==
  LET Unused(given) == CHOOSE id \in 1 .. 4 * (MaxPort + 2) : id \notin given
  IN  {Unused(used), Unused(used \cup DOMAIN m_cpid_2_addr_map)}

\* A port and the next one can be bound: reads are posted on both.
BindPair ==
  /\ pc = "bind" /\ port <= MaxPort
  /\ \E id \in NewIds(Range(cpid)) : \E id1 \in NewIds(Range(cpid) \cup {id}) :
       /\ cpid' = Inserted(Inserted(cpid, port, id), port + 1, id1)
       /\ m_cpid_2_addr_map' =
            Inserted(Inserted(m_cpid_2_addr_map, id, port), id1, port + 1)
  /\ reading' = reading \cup {port, port + 1}
  /\ PairUp(port) /\ port' = port + 2
  /\ UNCHANGED <<pc, starts, netVars, held>>

\* Wrong variant: a port is paired whose RTCP port is taken.
BindFailsPaired ==
  /\ pc = "bind" /\ port <= MaxPort /\ port' = port + 2
  /\ PairUp(port)
  /\ UNCHANGED <<pc, starts, netVars, socketVars, held>>

\* Either is taken by another program: the RTP socket is closed again.
BindFails ==
  /\ pc = "bind" /\ port <= MaxPort /\ port' = port + 2
  /\ UNCHANGED <<pc, starts, netVars, portpair, socketVars, poolVars>>

BindDone ==
  /\ pc = "bind" /\ port > MaxPort /\ pc' = "running"
  /\ UNCHANGED <<starts, netVars, loopVars, socketVars, poolVars>>

\* stop_rtp_proxy.
Stop ==
  /\ pc = "running" /\ pc' = "stopped" /\ StopAll
  /\ UNCHANGED <<starts, loopVars, m_cpid_2_addr_map, poolVars>>

-----------------------------------------------------------------------------
(* Requests, which come as soon as the server listens.                      *)

\* Wrong variant: the pair stays in the list.
GetPortpairPeeks(u) ==
  /\ listening /\ held[u] = None /\ m_free_portpairs # << >>
  /\ held' = [held EXCEPT ![u] = Head(m_free_portpairs)]
  /\ m_used_num' = m_used_num + 1
  /\ UNCHANGED <<pc, starts, netVars, loopVars, socketVars, m_free_portpairs>>

GetPortpair(u) ==
  /\ listening /\ held[u] = None /\ m_free_portpairs # << >>
  /\ held' = [held EXCEPT ![u] = Head(m_free_portpairs)]
  /\ m_free_portpairs' = Tail(m_free_portpairs)
  /\ m_used_num' = m_used_num + 1
  /\ UNCHANGED <<pc, starts, netVars, loopVars, socketVars>>

FreePortpair(u) ==
  /\ listening /\ held[u] # None
  /\ AddPortpair(held[u]) /\ held' = [held EXCEPT ![u] = None]
  /\ UNCHANGED <<pc, starts, netVars, loopVars, socketVars>>

Next ==
  \/ StartTcp \/ Listen \/ StartUdp \/ BindPair \/ BindFails \/ BindDone \/ Stop
  \/ \E u \in User : GetPortpair(u) \/ FreePortpair(u)

Spec == Init /\ [][Next]_vars

-----------------------------------------------------------------------------
Listed == Range(m_free_portpairs) \cup (Range(held) \ {None})
Serves(p) == p \in DOMAIN cpid /\ p \in reading /\ m_cpid_2_addr_map[cpid[p]] = p
PairServed(pair) == \A p \in {pair.rtp_recv_port, pair.rtp_sent_port} :
                      Serves(p) /\ Serves(p + 1)

\* user_req_dealer.cpp:115: a pair is made of ports that are bound together with
\* the one after them.  Until the first stop, whatever a SipProxy may be given,
\* even while start still binds, is read on all four ports, and every socket's
\* id leads to its own port.
ListedPairsServed ==
  starts <= 1 /\ pc # "stopped" => \A pair \in Listed : PairServed(pair)

\* The same of a server that has been started again.
RestartedPairsServed ==
  pc = "running" /\ listening => \A pair \in Listed : PairServed(pair)

\* Until a second start no port is in two pairs, of the list or of users.
PairOf(owner) == IF owner \in User THEN held[owner] ELSE m_free_portpairs[owner]
NoPortTwice ==
  LET owners == DOMAIN m_free_portpairs \cup {u \in User : held[u] # None} IN
  starts <= 1 =>
    /\ \A o \in owners : PairOf(o).rtp_recv_port # PairOf(o).rtp_sent_port
    /\ \A o1, o2 \in owners : o1 # o2 =>
         Range(PairOf(o1)) \cap Range(PairOf(o2)) = {}

\* A start that has failed, at whatever step, and a stop leave no socket and no
\* completion port behind.
StoppedIsOff ==
  pc = "stopped" => ~tcp /\ ~udp /\ ~listening /\ cpid = << >> /\ reading = {}
=============================================================================
