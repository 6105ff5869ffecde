----------------------------- MODULE PackageUniq -----------------------------
(***************************************************************************)
(* PackageUniq: the filter that drops the copies of an RTP packet.         *)
(*                                                                         *)
(* The peer sends every packet more than once and over several paths, so a *)
(* packet arrives any number of times, late, out of order or never.        *)
(* package_exist remembers the numbers of the current window of Range      *)
(* numbers and of the window before it.  It works under one lock from its  *)
(* first line to its last, so a call is a step.  A packet is known here by *)
(* its index in the stream; its RTP header carries the index modulo        *)
(* SeqMod (16 bits).                                                       *)
(***************************************************************************)
EXTENDS Naturals

CONSTANTS
  Range,      \* MAX_UNIQ_RANGE, the numbers in a window
  SeqMod,     \* the numbers of an RTP header, 2^16
  First,      \* index of the stream's first packet, its initial number
  MaxGap,     \* how far an arrival may be ahead of all the ones before it
  MaxPacket   \* bound on the packets of the stream

ASSUME RangeAssumption == Range \in Nat \ {0}
ASSUME SeqModAssumption == SeqMod \in Nat \ {0}
ASSUME StreamAssumption == First \in Nat /\ MaxGap \in Nat /\ MaxPacket \in Nat

VARIABLES
  m_min_seq_num, m_max_seq_num,   \* ends of the current window
  m_bitset, m_last_bitset,        \* positions set: this window, last window
  next,       \* one past the newest packet that has arrived
  passed,     \* packets package_exist returned false for
  repeated,   \* packets it returned false for more than once
  refused     \* packets it returned true for before any copy had passed

windowVars == <<m_min_seq_num, m_max_seq_num>>
vars == <<windowVars, m_bitset, m_last_bitset, next, passed, repeated, refused>>

Packet == First .. MaxPacket
SeqNumber(n) == n % SeqMod
PosFromOne(seq_num) == 1 + (seq_num % Range)     \* Wrong variant
Pos(seq_num) == seq_num % Range

TypeOK ==
  /\ m_min_seq_num \in Nat /\ m_max_seq_num \in Nat
  /\ m_bitset \subseteq 0 .. Range - 1
  /\ m_last_bitset \subseteq 0 .. Range - 1
  /\ next \in Nat
  /\ passed \subseteq Packet /\ repeated \subseteq Packet
  /\ refused \subseteq Packet

Init ==
  /\ m_min_seq_num = 0 /\ m_max_seq_num = Range - 1
  /\ m_bitset = {} /\ m_last_bitset = {}
  /\ next = First
  /\ passed = {} /\ repeated = {} /\ refused = {}

-----------------------------------------------------------------------------
\* package_exist returns false.
Pass(n) ==
  /\ passed' = passed \cup {n}
  /\ repeated' = repeated \cup ({n} \cap passed)
  /\ UNCHANGED refused

\* package_exist returns true.
Refuse(n) ==
  /\ refused' = refused \cup ({n} \ passed)
  /\ UNCHANGED <<passed, repeated>>

\* Strictly inside the current window.
InWindow(n) ==
  /\ m_min_seq_num < SeqNumber(n) /\ SeqNumber(n) < m_max_seq_num
  /\ IF Pos(SeqNumber(n)) \in m_bitset
       THEN Refuse(n) /\ UNCHANGED m_bitset
       ELSE Pass(n) /\ m_bitset' = m_bitset \cup {Pos(SeqNumber(n))}
  /\ UNCHANGED <<windowVars, m_last_bitset>>

\* Wrong variants: the old bits are not kept; the new window is not cleared.
NextWindowForgets(n) ==
  /\ SeqNumber(n) > m_max_seq_num
  /\ m_min_seq_num' = m_max_seq_num + 1
  /\ m_max_seq_num' = m_max_seq_num + Range
  /\ m_last_bitset' = {}
  /\ m_bitset' = {Pos(SeqNumber(n))}
  /\ Pass(n)
NextWindowKeepsBits(n) ==
  /\ SeqNumber(n) > m_max_seq_num
  /\ m_min_seq_num' = m_max_seq_num + 1
  /\ m_max_seq_num' = m_max_seq_num + Range
  /\ m_last_bitset' = m_bitset
  /\ m_bitset' = m_bitset \cup {Pos(SeqNumber(n))}
  /\ IF Pos(SeqNumber(n)) \in m_bitset THEN Refuse(n) ELSE Pass(n)

\* Past the current window, which moves up by one Range, however far the
\* number is; the bitset was just reset, so the position is free.
NextWindow(n) ==
  /\ SeqNumber(n) > m_max_seq_num
  /\ m_min_seq_num' = m_max_seq_num + 1
  /\ m_max_seq_num' = m_max_seq_num + Range
  /\ m_last_bitset' = m_bitset
  /\ m_bitset' = {Pos(SeqNumber(n))}
  /\ Pass(n)

\* Wrong variant: the bit is looked up in the current window's set.
LastWindowWrongSet(n) ==
  /\ SeqNumber(n) < m_min_seq_num
  /\ SeqNumber(n) + Range > m_min_seq_num
  /\ IF Pos(SeqNumber(n)) \in m_bitset
       THEN Refuse(n) /\ UNCHANGED m_last_bitset
       ELSE Pass(n) /\ m_last_bitset' = m_last_bitset \cup {Pos(SeqNumber(n))}
  /\ UNCHANGED <<windowVars, m_bitset>>

\* In the window before.  m_min_seq_num is a multiple of Range and not zero
\* here, so the code's unsigned m_min_seq_num - Range does not wrap.
LastWindow(n) ==
  /\ SeqNumber(n) < m_min_seq_num
  /\ SeqNumber(n) + Range > m_min_seq_num
  /\ IF Pos(SeqNumber(n)) \in m_last_bitset
       THEN Refuse(n) /\ UNCHANGED m_last_bitset
       ELSE Pass(n) /\ m_last_bitset' = m_last_bitset \cup {Pos(SeqNumber(n))}
  /\ UNCHANGED <<windowVars, m_bitset>>

\* No branch of the code takes the two ends of the window and what is older
\* than the last window: ret keeps its initial value true.
Unhandled(n) ==
  /\ \/ SeqNumber(n) \in {m_min_seq_num, m_max_seq_num}
     \/ SeqNumber(n) + Range <= m_min_seq_num
  /\ Refuse(n)
  /\ UNCHANGED <<windowVars, m_bitset, m_last_bitset>>

PackageExist(n) ==
  InWindow(n) \/ NextWindow(n) \/ LastWindow(n) \/ Unhandled(n)

\* Some copy of packet n arrives.
Arrive(n) ==
  /\ n < next + MaxGap
  /\ next' = IF n < next THEN next ELSE n + 1
  /\ PackageExist(n)

Next == \E n \in Packet : Arrive(n)
Spec == Init /\ [][Next]_vars

-----------------------------------------------------------------------------
\* What the theorems assume of the stream: it starts within two windows of
\* zero, and the network never loses Range packets or more in a row.
InReach == MaxGap <= Range /\ First + MaxGap <= 2 * Range

Passed(seq_num) == \E n \in passed : SeqNumber(n) = seq_num

\* The two bitsets record exactly the numbers let through: a bit of the
\* current (last) window is set if and only if the number of that window at
\* the position was let through, and no number above the window was.
BitsRecordPassed ==
  InReach =>
    /\ \A s \in m_min_seq_num .. m_max_seq_num :
         Pos(s) \in m_bitset <=> Passed(s)
    /\ \A s \in 0 .. m_max_seq_num :
         s < m_min_seq_num /\ m_min_seq_num <= s + Range
           => (Pos(s) \in m_last_bitset <=> Passed(s))
    /\ \A n \in passed : SeqNumber(n) <= m_max_seq_num

\* package_exist never lets a second copy of a packet through, however late
\* the copy is and however the packets are reordered, as long as the stream
\* is in reach of the window.
CopiesStopped == InReach => repeated = {}

\* The only packets that lose their first copy are the ones at an end of the
\* window, the ones older than both windows and the ones whose number an
\* earlier packet has used up.
RefusedWithCause ==
  [][InReach =>
     \A n \in refused' \ refused :
       \/ SeqNumber(n) \in {m_min_seq_num, m_max_seq_num}
       \/ SeqNumber(n) + Range <= m_min_seq_num
       \/ Passed(SeqNumber(n))]_vars

\* rtpproxy_manager.h:23 says package_exist returns true for a number that
\* exists already.  A packet newer than every one before it has no copy the
\* filter can have seen, so it is let through (the two ends of the window,
\* which no branch handles, excepted), whatever number it carries.
NewestPasses ==
  [][next' # next /\ SeqNumber(next' - 1) \notin {m_min_seq_num, m_max_seq_num}
       => next' - 1 \in passed']_vars
=============================================================================
