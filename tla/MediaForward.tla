----------------------------- MODULE MediaForward -----------------------------
(***************************************************************************)
(* Media forwarding on the RtpProxy server, on top of the calls: packets   *)
(* that arrive on the UDP ports or from the relay client are sent on to    *)
(* the relay client, to the other port of the pair or to the user.         *)
(*                                                                         *)
(* Readers are the threads that run on_read_connection for a completed UDP *)
(* read and on_rtp_package_recv for a packet of the relay client.  A step  *)
(* is one lookup, one critical section or one unlocked read of the cids.   *)
(* Buffers come from XMemPool and must be given back to it exactly once,   *)
(* by the reader or by the completion of the last write.                   *)
(*                                                                         *)
(* The two TransformInfos of a call are named by the call and the side of  *)
(* their port.  A filter (PackageUniq) is the set of numbers it has seen;  *)
(* its window is the subject of PackageUniq.  Other statistics, packet     *)
(* trailers and contents are left out.  The calls are those of CallTable,  *)
(* which CallPaths implements.                                             *)
(***************************************************************************)
EXTENDS CallTable

CONSTANTS
  Reader,        \* threads that complete UDP reads and relay packets
  Buf,           \* buffers of XMemPool
  Addr,          \* remote addresses
  RtpAddr,       \* m_dest_rtp_addr of an RTP-direct call
  Stream,        \* address and ssrc of the packets that arrive; no ssrc is 0
  HeapWord,      \* what new TransformInfo may find in m_ssrc_id
  SeqNum,        \* packet numbers
  MaxPackets,    \* bound: packets that arrive and reads that fail
  Failing        \* bound: the sessions whose keep-alive may fail

Side == {"recv", "sent"}
Port == Pair \X Side                    \* the even ports, RTP
Socket == Port \X {"rtp", "rtcp"}       \* and the odd ones after them
Info == Call \X Side
Source == Port \cup Session             \* where a packet came from
Ssrc == {stream[2] : stream \in Stream}
Packet == {[addr |-> stream[1], ssrc |-> stream[2], seq |-> n] :
             stream \in Stream, n \in SeqNum}
NoPacket == [addr |-> None, ssrc |-> 0, seq |-> 0]     \* the relay client's have neither

ASSUME AddrAssumption == None \notin Addr /\ RtpAddr \in Addr
ASSUME StreamAssumption ==
  Stream \subseteq Addr \X (Nat \ {0}) /\ HeapWord \subseteq Nat
\* There is a buffer for the read of every socket.
ASSUME SocketAssumption ==
  \E f \in [Socket -> {{b} : b \in Buf}] : \A s, t \in Socket : f[s] = f[t] => s = t
ASSUME BufAssumption == Failing \subseteq Session /\ None \notin Buf /\ MaxPackets \in Nat

VARIABLES
  posted,        \* socket -> buffers of its outstanding reads
  free,          \* buffers XMemPool can allocate
  writes,        \* outstanding UDP writes
  m_num_cb,      \* buffer -> m_num of its WriteUdpConnectionCB
  m_dest_addr, m_ssrc_id,   \* TransformInfo -> its fields
  m_port_seen,   \* port -> numbers its filter in PortStatManager has seen
  m_session_seen,           \* session -> the same in SessionStatManager
  job,           \* reader -> where it is and its locals
  packets,       \* packets and failed reads so far
  lost,          \* history: buffers nobody will give back
  heard,         \* history: <<info, address, ssrc>> of packets handled
  delivered,     \* history: <<source, call, number>> sent to a live call's user
  repeated       \* history: of these, the ones sent more than once

bufVars == <<posted, free, writes, m_num_cb>>
fieldVars == <<m_dest_addr, m_ssrc_id>>
filterVars == <<m_port_seen, m_session_seen>>
forwardVars == <<bufVars, fieldVars, filterVars, job, packets, lost, heard,
                 delivered, repeated>>
mediaVars == <<tableVars, forwardVars>>

Idle == [pc |-> "idle", buf |-> None, from |-> None, pkt |-> NoPacket,
         info |-> None, peer |-> None, port |-> None, i |-> 1, cid |-> 0, send_num |-> 0,
         sent |-> 0]
Step == {"idle", "find", "learn", "status", "check", "take", "after",
         "again", "free", "peer", "first", "second", "filter", "port", "deliver"}
Job == [pc : Step, buf : Buf \cup {None}, from : Source \cup {None},
        pkt : Packet \cup {[NoPacket EXCEPT !.seq = n] : n \in SeqNum \cup {0}},
        info : Info \cup {None}, peer : Info \cup {None}, port : Port \cup {None},
        i : 1 .. 4, cid : Cid \cup {0}, send_num : 0 .. 3, sent : 0 .. 3]
\* A buffer of None is the relay client's own.
Write == [buf : Buf \cup {None}, copy : 0 .. 2]

MediaTypeOK ==
  /\ posted \in [Socket -> SUBSET Buf] /\ free \subseteq Buf
  /\ writes \subseteq Write /\ m_num_cb \in [Buf -> 0 .. 2]
  /\ m_dest_addr \in [Info -> Addr \cup {None}]
  /\ m_ssrc_id \in [Info -> Ssrc \cup HeapWord]
  /\ m_port_seen \in [Port -> SUBSET SeqNum]
  /\ m_session_seen \in [Session -> SUBSET SeqNum]
  /\ job \in [Reader -> Job] /\ packets \in 0 .. MaxPackets
  /\ lost \subseteq Buf /\ heard \subseteq Info \X Addr \X Ssrc
  /\ delivered \subseteq Source \X Call \X SeqNum /\ repeated \subseteq delivered

\* The fields of a new TransformInfo.  m_ssrc_id is not initialised; the
\* sending port of an RTP-direct call is given its address.
MediaInit ==
  /\ TableInit
  /\ m_dest_addr = [n \in Info |->
       IF n[2] = "sent" /\ CallType[n[1]] = "CT_RTPDIRECT" THEN RtpAddr ELSE None]
  /\ m_ssrc_id \in [Info -> HeapWord]
  \* UserReqDealer::start has posted a read on every port.
  /\ posted = CHOOSE f \in [Socket -> {{b} : b \in Buf}] :
                \A s, t \in Socket : f[s] = f[t] => s = t
  /\ free = Buf \ UNION {posted[s] : s \in Socket}
  /\ writes = {} /\ m_num_cb = [b \in Buf |-> 0]
  /\ m_port_seen = [p \in Port |-> {}] /\ m_session_seen = [s \in Session |-> {}]
  /\ job = [r \in Reader |-> Idle] /\ packets = 0
  /\ lost = {} /\ heard = {} /\ delivered = {} /\ repeated = {}

-----------------------------------------------------------------------------
\* get_sptr_tf_info.
InfoAt(port) ==
  LET c == IF port[2] = "recv" THEN m_recv_info[port[1]] ELSE m_sent_info[port[1]]
  IN  IF c = None THEN None ELSE <<c, port[2]>>

\* m_direct_port: the other port of the call's pair.
DirectPort(n) == <<ports[n[1]], IF n[2] = "recv" THEN "sent" ELSE "recv">>

\* Only the receiving port's info learns of the paths (modify).
PathStatus(n) == IF n[2] = "recv" THEN m_path_status[n[1]] ELSE "PS_BUILDING"
CidAt(n, i) == IF i \in DOMAIN m_cid[n[1]] THEN m_cid[n[1]][i] ELSE 0

\* XMemPool::alloc; which buffer it gives makes no difference.
Alloc == CHOOSE b \in free : TRUE

Set(r, rec) == job' = [job EXCEPT ![r] = rec]
Advance(r, label) == job' = [job EXCEPT ![r].pc = label]

\* on_read_connection frees the packet's buffer when it was not handed on.
Drop(r) == /\ free' = free \cup {job[r].buf} /\ Set(r, Idle)
           /\ UNCHANGED <<posted, writes, m_num_cb>>

\* Wrong variant: the next read is posted for a failed one as well.
ReadFailsRepost(s) ==
  /\ packets < MaxPackets /\ packets' = packets + 1 /\ free # {}
  /\ \E b \in posted[s] : /\ posted' = [posted EXCEPT ![s] = @ \cup {Alloc}]
                         /\ free' = (free \ {Alloc}) \cup {b}
  /\ UNCHANGED <<tableVars, writes, m_num_cb, fieldVars, filterVars, job, lost, heard,
                 delivered, repeated>>

\* on_udp_readv turns every error into CME_FATAL_ERROR: the buffer is freed,
\* no read is posted, and close_connection does nothing for UDP.  The same
\* happens to a packet when there is no memory for the next read.
ReadFails(s) ==
  /\ packets < MaxPackets /\ packets' = packets + 1
  /\ \E b \in posted[s] : /\ posted' = [posted EXCEPT ![s] = @ \ {b}]
                         /\ free' = free \cup {b}
  /\ UNCHANGED <<tableVars, writes, m_num_cb, fieldVars, filterVars, job, lost, heard,
                 delivered, repeated>>

\* A packet has been read: the next read is posted before it is handled.
PostNext(s, b) == /\ free # {} /\ free' = free \ {Alloc}
                  /\ posted' = [posted EXCEPT ![s] = (@ \ {b}) \cup {Alloc}]

ReadPacket(r, s, pkt) ==
  /\ job[r].pc = "idle" /\ packets < MaxPackets /\ packets' = packets + 1
  /\ s[2] = "rtp"
  /\ \E b \in posted[s] :
       /\ PostNext(s, b)
       /\ Set(r, [Idle EXCEPT !.pc = "find", !.buf = b, !.from = s[1], !.pkt = pkt])
  /\ UNCHANGED <<tableVars, writes, m_num_cb, fieldVars, filterVars, lost, heard,
                 delivered, repeated>>

\* An RTCP packet is taken for handled and keeps its buffer.
ReadRtcp(s) ==
  /\ packets < MaxPackets /\ packets' = packets + 1
  /\ s[2] = "rtcp"
  /\ \E b \in posted[s] : PostNext(s, b) /\ lost' = lost \cup {b}
  /\ UNCHANGED <<tableVars, writes, m_num_cb, fieldVars, filterVars, job, heard,
                 delivered, repeated>>

Find(r) ==
  /\ job[r].pc = "find"
  /\ LET n == InfoAt(job[r].from) IN
       IF n = None
         THEN Drop(r)
         ELSE /\ Set(r, [job[r] EXCEPT !.pc = "learn", !.info = n])
              /\ UNCHANGED bufVars
  /\ UNCHANGED <<tableVars, fieldVars, filterVars, packets, lost, heard, delivered,
                 repeated>>

\* The packet is accepted: to the relay client or to the other port.
Accept(r) ==
  /\ Advance(r, IF CallType[job[r].info[1]] = "CT_TRANSFORM" THEN "status" ELSE "peer")
  /\ UNCHANGED bufVars

\* Wrong variant: a new address is taken without comparing the ssrc.
LearnAnySsrc(r) ==
  /\ job[r].pc = "learn"
  /\ LET n == job[r].info
         pkt == job[r].pkt
     IN  /\ heard' = heard \cup {<<n, pkt.addr, pkt.ssrc>>}
         /\ m_dest_addr' = [m_dest_addr EXCEPT ![n] = pkt.addr]
         /\ m_ssrc_id' = [m_ssrc_id EXCEPT ![n] =
                            IF m_dest_addr[n] = None /\ @ = 0 THEN pkt.ssrc ELSE @]
         /\ Accept(r)
  /\ UNCHANGED <<tableVars, filterVars, packets, lost, delivered, repeated>>

\* Under the info's write lock: the first packet gives the stream its address
\* and ssrc; an address that changed is taken when the ssrc is the same.
Learn(r) ==
  /\ job[r].pc = "learn"
  /\ LET n == job[r].info
         pkt == job[r].pkt
         first == m_dest_addr[n] = None /\ m_ssrc_id[n] = 0
         moved == m_dest_addr[n] # pkt.addr /\ m_ssrc_id[n] = pkt.ssrc
     IN  /\ heard' = heard \cup {<<n, pkt.addr, pkt.ssrc>>}
         /\ m_ssrc_id' = [m_ssrc_id EXCEPT ![n] = IF first THEN pkt.ssrc ELSE @]
         /\ m_dest_addr' = [m_dest_addr EXCEPT ![n] =
                              IF first \/ moved THEN pkt.addr ELSE @]
         /\ IF first \/ moved \/ m_dest_addr[n] = pkt.addr THEN Accept(r) ELSE Drop(r)
  /\ UNCHANGED <<tableVars, filterVars, packets, lost, delivered, repeated>>

-----------------------------------------------------------------------------
(* A transit call: the packet goes to the relay client twice, on one or two *)
(* of the cids, which are read without the info's lock.                     *)

RelayUnchanged == UNCHANGED <<tableVars, fieldVars, filterVars, packets, lost, heard,
                              delivered, repeated>>

CheckStatus(r) ==
  /\ job[r].pc = "status"
  /\ IF PathStatus(job[r].info) = "PS_SUC"
       THEN Advance(r, "check") /\ UNCHANGED bufVars
       ELSE Drop(r)
  /\ RelayUnchanged

\* Wrong variant: the loop runs once more.
CheckCidBeyond(r) ==
  /\ job[r].pc = "check"
  /\ Set(r, IF job[r].i = 5 THEN [job[r] EXCEPT !.pc = "after"]
            ELSE IF CidAt(job[r].info, job[r].i) = 0 THEN [job[r] EXCEPT !.i = @ + 1]
            ELSE [job[r] EXCEPT !.pc = "take"])
  /\ UNCHANGED bufVars /\ RelayUnchanged

\* if(0!=info->m_path_info.m_cid[i])
CheckCid(r) ==
  /\ job[r].pc = "check"
  /\ Set(r, IF job[r].i = 4 THEN [job[r] EXCEPT !.pc = "after"]
            ELSE IF CidAt(job[r].info, job[r].i) = 0 THEN [job[r] EXCEPT !.i = @ + 1]
            ELSE [job[r] EXCEPT !.pc = "take"])
  /\ UNCHANGED bufVars /\ RelayUnchanged

\* cid = m_cid[i]; if(send_num++<2) SendRtpPackage, with m_cid[i] read once more.
TakeCid(r) ==
  /\ job[r].pc = "take"
  /\ Set(r, [job[r] EXCEPT !.pc = "check", !.i = @ + 1, !.send_num = @ + 1,
                           !.cid = CidAt(job[r].info, job[r].i),
                           !.sent = IF job[r].send_num < 2 THEN @ + 1 ELSE @])
  /\ UNCHANGED bufVars /\ RelayUnchanged

\* Wrong variant: the second copy is sent although two have been.
AfterPathsAgain(r) ==
  /\ job[r].pc = "after"
  /\ IF job[r].cid = 0 \/ job[r].send_num = 0
       THEN Drop(r)
       ELSE /\ Advance(r, IF job[r].send_num <= 2 THEN "again" ELSE "free")
            /\ UNCHANGED bufVars
  /\ RelayUnchanged

\* "all channel invalid" when the last cid taken is 0; one valid path carries
\* the second copy too.
AfterPaths(r) ==
  /\ job[r].pc = "after"
  /\ IF job[r].cid = 0 \/ job[r].send_num = 0
       THEN Drop(r)
       ELSE /\ Advance(r, IF job[r].send_num < 2 THEN "again" ELSE "free")
            /\ UNCHANGED bufVars
  /\ RelayUnchanged

SendAgain(r) ==
  /\ job[r].pc = "again"
  /\ Set(r, [job[r] EXCEPT !.pc = "free", !.sent = @ + 1])
  /\ UNCHANGED bufVars /\ RelayUnchanged

FreeSent(r) == job[r].pc = "free" /\ Drop(r) /\ RelayUnchanged

-----------------------------------------------------------------------------
(* A direct or RTP-direct call: the packet leaves by the other port, twice  *)
(* to the peer's RtpProxy and once to the user.                             *)

\* The info of the other port and the address it has learned.
FindPeer(r) ==
  /\ job[r].pc = "peer"
  /\ LET n == InfoAt(DirectPort(job[r].info)) IN
       IF n = None
         THEN Drop(r)
         ELSE IF m_dest_addr[n] = None
         THEN Drop(r)
         ELSE /\ Set(r, [job[r] EXCEPT !.pc = IF n[2] = "sent" THEN "first" ELSE "filter",
                                       !.peer = n])
              /\ UNCHANGED bufVars
  /\ RelayUnchanged

\* asynWriteUdpConnection of the packet's buffer.
NewWrite(r, copy) == [buf |-> job[r].buf, copy |-> copy]

\* Wrong variant: the callback counts one write.
SendFirstCountsOne(r) ==
  /\ job[r].pc = "first"
  /\ m_num_cb' = [m_num_cb EXCEPT ![job[r].buf] = 1]
  /\ writes' = writes \cup {NewWrite(r, 1)}
  /\ Set(r, [job[r] EXCEPT !.pc = "second", !.sent = 1])
  /\ UNCHANGED <<posted, free>> /\ RelayUnchanged

\* WriteUdpConnectionCB(2,buf) and the first copy; the second after 10 ms.
SendFirst(r) ==
  /\ job[r].pc = "first"
  /\ m_num_cb' = [m_num_cb EXCEPT ![job[r].buf] = 2]
  /\ writes' = writes \cup {NewWrite(r, 1)}
  /\ Set(r, [job[r] EXCEPT !.pc = "second", !.sent = 1])
  /\ UNCHANGED <<posted, free>> /\ RelayUnchanged

SendSecond(r) ==
  /\ job[r].pc = "second"
  /\ writes' = writes \cup {NewWrite(r, 2)}
  /\ Set(r, Idle)
  /\ UNCHANGED <<posted, free, m_num_cb>> /\ RelayUnchanged

\* History: what is sent to the user of a call that is not being stopped.
Record(source, c, seq) ==
  LET packet == <<source, c, seq>> IN
  IF c \notin over
    THEN /\ repeated' = repeated \cup ({packet} \cap delivered)
         /\ delivered' = delivered \cup {packet}
    ELSE UNCHANGED <<delivered, repeated>>

\* PortStatManager::package_exist for the port the packet came in by; what it
\* has seen is not sent.
SendToUser(r) ==
  LET port == job[r].from
      seq == job[r].pkt.seq
  IN
  /\ job[r].pc = "filter"
  /\ IF seq \in m_port_seen[port]
       THEN Drop(r) /\ UNCHANGED <<delivered, repeated>>
       ELSE /\ writes' = writes \cup {NewWrite(r, 0)}
            /\ Record(port, job[r].peer[1], seq)
            /\ Set(r, Idle) /\ UNCHANGED <<posted, free, m_num_cb>>
  /\ m_port_seen' = [m_port_seen EXCEPT ![port] = @ \cup {seq}]
  /\ UNCHANGED <<tableVars, fieldVars, m_session_seen, packets, lost, heard>>

\* on_write_connection: the callback of two copies frees their buffer when
\* both are done; without one the buffer is freed, the relay client's too.
WriteDone(w) ==
  /\ w \in writes /\ writes' = writes \ {w}
  /\ m_num_cb' = IF w.copy = 0 THEN m_num_cb
                               ELSE [m_num_cb EXCEPT ![w.buf] = @ - 1]
  /\ free' = IF w.copy # 0 /\ m_num_cb[w.buf] > 1
               THEN free ELSE free \cup ({w.buf} \ {None})
  /\ UNCHANGED <<posted, job>> /\ RelayUnchanged

-----------------------------------------------------------------------------
(* on_rtp_package_recv: a packet of the relay client goes to the user at    *)
(* the session's port.                                                      *)

\* Wrong variant: the number is not recorded.
RelayPacketUnrecorded(r, s, seq) ==
  /\ job[r].pc = "idle" /\ packets < MaxPackets /\ packets' = packets + 1
  /\ HasPath(s) /\ seq \notin m_session_seen[s]
  /\ Set(r, [Idle EXCEPT !.pc = "port", !.from = s, !.pkt.seq = seq])
  /\ UNCHANGED <<tableVars, bufVars, fieldVars, filterVars, lost, heard, delivered,
                 repeated>>

\* SessionStatManager::package_exist.  The relay client may still hand over
\* packets of a session it has been told to close.
RelayPacket(r, s, seq) ==
  /\ job[r].pc = "idle" /\ packets < MaxPackets /\ packets' = packets + 1
  /\ HasPath(s)
  /\ IF seq \in m_session_seen[s]
       THEN UNCHANGED job
       ELSE Set(r, [Idle EXCEPT !.pc = "port", !.from = s, !.pkt.seq = seq])
  /\ m_session_seen' = [m_session_seen EXCEPT ![s] = @ \cup {seq}]
  /\ UNCHANGED <<tableVars, bufVars, fieldVars, m_port_seen, lost, heard,
                 delivered, repeated>>

\* SessionID2PortMap::get_port.
FindPort(r) ==
  /\ job[r].pc = "port"
  /\ LET p == m_session_to_port_map[job[r].from] IN
       Set(r, IF p = None THEN Idle
              ELSE [job[r] EXCEPT !.pc = "deliver", !.port = <<p, "recv">>])
  /\ UNCHANGED bufVars /\ RelayUnchanged

\* Whatever call has the port now; the packet is copied to a buffer nobody
\* frees, and the relay client's own is sent.
DeliverRelayed(r) ==
  /\ job[r].pc = "deliver"
  /\ LET n == InfoAt(job[r].port) IN
       IF n = None \/ free = {}
         THEN UNCHANGED <<free, writes, lost, delivered, repeated>>
         ELSE /\ free' = free \ {Alloc} /\ lost' = lost \cup {Alloc}
              /\ writes' = writes \cup {NewWrite(r, 0)}
              /\ Record(job[r].from, n[1], job[r].pkt.seq)
  /\ Set(r, Idle)
  /\ UNCHANGED <<tableVars, posted, m_num_cb, fieldVars, filterVars, packets, heard>>

-----------------------------------------------------------------------------
(* The calls go on meanwhile; statistics go with the call or the session.   *)

Relayed(c) == {<<c, m_cid[c][i]>> : i \in {j \in DOMAIN m_cid[c] : m_cid[c][j] # 0}}

OnlyTable == UNCHANGED <<bufVars, fieldVars, job, packets, lost, heard,
                         delivered, repeated>>

\* del_port of both ports and del_session of the cids left.
StopCall(c) ==
  /\ Stop(c)
  /\ m_port_seen' = [p \in Port |-> IF p[1] = ports[c] THEN {} ELSE m_port_seen[p]]
  /\ m_session_seen' = [s \in Session |->
                          IF s \in Relayed(c) THEN {} ELSE m_session_seen[s]]
  /\ OnlyTable

ForgetSession(s) ==
  /\ Forget(s)
  /\ m_session_seen' = [m_session_seen EXCEPT ![s] = {}]
  /\ UNCHANGED m_port_seen /\ OnlyTable

CallStep ==
  \/ \E c \in Call : StopCall(c)
  \/ \E s \in Session : ForgetSession(s)
  \/ /\ \/ \E c \in Call : AddRecv(c) \/ AddSent(c) \/ SetPaths(c)
        \/ \E c \in Call, p \in Pair : Request(c, p)
        \/ \E s \in Session : AddSession(s)
        \/ \E s \in Failing : Fail(s)
        \/ \E c \in Call, s \in Session : RemoveFailed(c, s)
     /\ UNCHANGED filterVars /\ OnlyTable

Forward(r) ==
  \/ Find(r) \/ Learn(r) \/ CheckStatus(r)
  \/ CheckCid(r) \/ TakeCid(r)
  \/ AfterPaths(r) \/ SendAgain(r) \/ FreeSent(r)
  \/ FindPeer(r) \/ SendFirst(r) \/ SendSecond(r) \/ SendToUser(r)
  \/ FindPort(r) \/ DeliverRelayed(r)

Arrive(r) ==
  \/ \E s \in Socket, pkt \in Packet : ReadPacket(r, s, pkt)
  \/ \E s \in Session, seq \in SeqNum : RelayPacket(r, s, seq)

MediaNext ==
  \/ CallStep
  \/ \E r \in Reader : Arrive(r) \/ Forward(r)
  \/ \E s \in Socket : ReadFails(s) \/ ReadRtcp(s)
  \/ \E w \in writes : WriteDone(w)

MediaSpec == MediaInit /\ [][MediaNext]_mediaVars

-----------------------------------------------------------------------------
Held(r) == {job[r].buf} \ {None}
Written == {w.buf : w \in writes} \ {None}
Posted == UNION {posted[s] : s \in Socket}

\* A buffer is free, posted, in a reader's hands, being written or one of the
\* known losses, never two of these: no buffer is freed twice or while a copy
\* is still being written, and no other path loses one.  (Between the two
\* copies the reader and the first write share it.)
BufferInOnePlace ==
  /\ Buf = free \cup Posted \cup (UNION {Held(r) : r \in Reader}) \cup Written \cup lost
  /\ free \cap (Posted \cup Written \cup lost) = {} /\ Posted \cap (Written \cup lost) = {}
  /\ \A r \in Reader : Held(r) \cap (free \cup Posted \cup lost) = {}
  /\ \A r, q \in Reader : r # q => Held(r) \cap Held(q) = {}

\* The next read is posted before a packet is handled, but a socket never has
\* two reads outstanding.
OneReadPerSocket ==
  \A s \in Socket : \A b, c \in posted[s] : b = c

\* user_req_dealer.cpp:661, two copies even if there is one path: a packet of
\* a transit call is freed as sent when exactly two copies are on their way.
SentTwice == \A r \in Reader : job[r].pc = "free" => job[r].sent = 2

\* The address media is sent to is one that packets of the stream have come
\* from, or the one the SipProxy gave.
SourceWasHeard ==
  \A n \in Info :
    \/ m_dest_addr[n] = None
    \/ n[2] = "sent" /\ m_dest_addr[n] = RtpAddr /\ CallType[n[1]] = "CT_RTPDIRECT"
    \/ <<n, m_dest_addr[n], m_ssrc_id[n]>> \in heard

\* The two copies of the peer RtpProxy that come by one port or one session
\* are sent to the user once while the call lasts, whichever readers have
\* them.  Only a session whose keep-alive has failed, or whose call is over
\* and whose port serves another, forgets what it has seen.
OneCopyToUser == \A d \in repeated : d[1] \in failed \/ d[1][1] \in over
=============================================================================
