-------------------------- MODULE PackageUniqProofs --------------------------
(***************************************************************************)
(* Proofs about PackageUniq, for every window size, number width and       *)
(* stream.  The inductive invariant says what the two bitsets mean: a bit  *)
(* is a number of its window that was let through.  Two numbers of one     *)
(* window never share a position, so a set bit accuses the right packet.   *)
(***************************************************************************)
EXTENDS PackageUniq, TLAPS

\* Quotient and remainder.
LEMMA DivMod ==
  ASSUME NEW R \in Nat \ {0}, NEW a \in Nat
  PROVE  /\ a = R * (a \div R) + (a % R)
         /\ a \div R \in Nat
         /\ a % R \in 0 .. R - 1
BY Z3

\* Numbers less than R apart have different remainders.
LEMMA ModInjective ==
  ASSUME NEW R \in Nat \ {0}, NEW a \in Nat, NEW b \in Nat,
         a < b, b < a + R
  PROVE  a % R # b % R
<1> SUFFICES ASSUME a % R = b % R PROVE FALSE
  OBVIOUS
<1> DEFINE qa == a \div R
           qb == b \div R
           r == a % R
<1>1. a = R * qa + r /\ qa \in Nat /\ r \in Nat
  <2>1. a = R * (a \div R) + (a % R) /\ a \div R \in Nat /\ a % R \in 0 .. R - 1
    BY DivMod
  <2> QED BY <2>1
<1>2. b = R * qb + r /\ qb \in Nat
  <2>1. b = R * (b \div R) + (b % R) /\ b \div R \in Nat
    BY DivMod
  <2> QED BY <2>1
<1> HIDE DEF qa, qb, r
<1>3. b - a = R * (qb - qa)
  BY <1>1, <1>2, Z3
<1>4. qb - qa >= 1
  BY <1>1, <1>2, <1>3, Z3
<1>5. R * (qb - qa) >= R
  BY <1>1, <1>2, <1>4, Z3
<1> QED BY <1>3, <1>5

\* The position of a number, and the only number of a window at it.
LEMMA PosFacts ==
  /\ \A s \in Nat : Pos(s) \in 0 .. Range - 1
  /\ \A s, t \in Nat :
       s < t + Range /\ t < s + Range /\ Pos(s) = Pos(t) => s = t
<1>1. ASSUME NEW s \in Nat PROVE Pos(s) \in 0 .. Range - 1
  BY DivMod, RangeAssumption DEF Pos
<1>2. ASSUME NEW s \in Nat, NEW t \in Nat, s < t + Range, t < s + Range,
             Pos(s) = Pos(t)
      PROVE  s = t
  <2>1. CASE s < t BY <1>2, <2>1, ModInjective, RangeAssumption DEF Pos
  <2>2. CASE t < s BY <1>2, <2>2, ModInjective, RangeAssumption DEF Pos
  <2> QED BY <2>1, <2>2
<1> QED BY <1>1, <1>2

\* The number of a packet: its index until the first wrap, never above it.
LEMMA SeqNumberFacts ==
  \A n \in Nat : /\ SeqNumber(n) \in Nat
                 /\ SeqNumber(n) <= n
                 /\ SeqNumber(n) <= SeqMod - 1
                 /\ n < SeqMod => SeqNumber(n) = n
<1> SUFFICES ASSUME NEW n \in Nat
             PROVE /\ SeqNumber(n) \in Nat
                   /\ SeqNumber(n) <= n
                   /\ SeqNumber(n) <= SeqMod - 1
                   /\ n < SeqMod => SeqNumber(n) = n
  OBVIOUS
<1> DEFINE q == n \div SeqMod
           r == n % SeqMod
<1>1. n = SeqMod * q + r /\ q \in Nat /\ r \in 0 .. SeqMod - 1
  BY DivMod, SeqModAssumption
<1> HIDE DEF q, r
<1>2. r <= n /\ r <= SeqMod - 1 /\ r \in Nat
  BY <1>1, SeqModAssumption, Z3
<1>3. n < SeqMod => r = n
  BY <1>1, SeqModAssumption, Z3
<1> QED BY <1>2, <1>3 DEF SeqNumber, r

LEMMA PacketIsNat == Packet \subseteq Nat
BY StreamAssumption DEF Packet

-----------------------------------------------------------------------------
\* The window holds Range numbers.
Window == m_max_seq_num = m_min_seq_num + Range - 1

\* Nothing that can arrive is more than a window above the current one.
Reach == InReach =>
  \A n \in Nat : n < next + MaxGap => SeqNumber(n) <= m_max_seq_num + Range

IInv == TypeOK /\ Window /\ Reach /\ BitsRecordPassed /\ CopiesStopped

LEMMA InitIInv == Init => IInv
<1> SUFFICES ASSUME Init PROVE IInv
  OBVIOUS
<1> USE RangeAssumption, StreamAssumption DEF Init
<1>1. TypeOK /\ Window
  BY DEF TypeOK, Window
<1>2. Reach
  BY SeqNumberFacts DEF Reach, InReach
<1>3. BitsRecordPassed /\ CopiesStopped
  BY DEF BitsRecordPassed, CopiesStopped, Passed
<1> QED BY <1>1, <1>2, <1>3 DEF IInv

-----------------------------------------------------------------------------
(* One step.  The facts about the arriving packet every branch uses.        *)

\* The packet that arrives, its number and its position.
LEMMA ArrivalFacts ==
  ASSUME IInv, NEW n \in Packet, n < next + MaxGap
  PROVE  /\ n \in Nat /\ SeqNumber(n) \in Nat /\ Pos(SeqNumber(n)) \in 0 .. Range - 1
         /\ m_min_seq_num \in Nat /\ m_max_seq_num \in Nat
         /\ m_max_seq_num = m_min_seq_num + Range - 1
         /\ InReach => SeqNumber(n) <= m_max_seq_num + Range
BY PacketIsNat, SeqNumberFacts, PosFacts DEF IInv, TypeOK, Window, Reach

LEMMA TypeStep ==
  ASSUME IInv, NEW n \in Packet, Arrive(n)
  PROVE  TypeOK' /\ Window'
<1>1. /\ n < next + MaxGap /\ Pos(SeqNumber(n)) \in 0 .. Range - 1
      /\ m_max_seq_num = m_min_seq_num + Range - 1
  BY ArrivalFacts DEF Arrive
<1>2. next' \in Nat
  BY PacketIsNat DEF Arrive, IInv, TypeOK
<1>3. Pass(n) \/ Refuse(n)
  BY DEF Arrive, PackageExist, InWindow, NextWindow, LastWindow, Unhandled
<1>4. passed' \subseteq Packet /\ repeated' \subseteq Packet /\ refused' \subseteq Packet
  BY <1>3 DEF Pass, Refuse, IInv, TypeOK
<1>5. /\ m_bitset' \subseteq 0 .. Range - 1
      /\ m_last_bitset' \subseteq 0 .. Range - 1
  <2>1. /\ m_bitset' \in {m_bitset, m_bitset \cup {Pos(SeqNumber(n))}, {Pos(SeqNumber(n))}}
        /\ m_last_bitset' \in {m_last_bitset, m_bitset,
                               m_last_bitset \cup {Pos(SeqNumber(n))}}
    BY DEF Arrive, PackageExist, InWindow, NextWindow, LastWindow, Unhandled
  <2> QED BY <2>1, <1>1 DEF IInv, TypeOK
<1>6. /\ m_min_seq_num' \in Nat /\ m_max_seq_num' \in Nat
      /\ m_max_seq_num' = m_min_seq_num' + Range - 1
  BY <1>1, RangeAssumption DEF Arrive, PackageExist, InWindow, NextWindow,
     LastWindow, Unhandled, windowVars, IInv, TypeOK
<1> QED BY <1>2, <1>4, <1>5, <1>6 DEF TypeOK, Window

\* The window follows the stream: before the numbers wrap it holds the newest
\* packet, after that no number can be a window ahead.
LEMMA ReachStep ==
  ASSUME IInv, NEW n \in Packet, Arrive(n)
  PROVE  Reach'
<1> SUFFICES ASSUME InReach, NEW k \in Nat, k < next' + MaxGap
             PROVE  SeqNumber(k) <= m_max_seq_num' + Range
  BY DEF Reach
<1>a. n < next + MaxGap /\ next \in Nat
  BY DEF Arrive, IInv, TypeOK
<1>0. /\ n \in Nat /\ SeqNumber(n) \in Nat /\ SeqNumber(k) \in Nat
      /\ m_max_seq_num \in Nat /\ m_max_seq_num' \in Nat
      /\ SeqNumber(n) <= m_max_seq_num + Range
  BY <1>a, ArrivalFacts, SeqNumberFacts, TypeStep DEF TypeOK
<1>1. m_max_seq_num <= m_max_seq_num'
  BY <1>0, RangeAssumption DEF Arrive, PackageExist, InWindow, NextWindow,
     LastWindow, Unhandled, windowVars
<1>2. \A j \in Nat : j < next + MaxGap => SeqNumber(j) <= m_max_seq_num + Range
  BY DEF IInv, Reach
<1>3. CASE k < next + MaxGap
  BY <1>0, <1>1, <1>2, <1>3, RangeAssumption
<1>4. CASE ~(k < next + MaxGap)
  <2>1. ~(n < next) /\ next' = n + 1
    BY <1>4, <1>a DEF Arrive
  <2>2. CASE n < SeqMod
    <3>1. SeqNumber(n) = n
      BY <1>0, <2>2, SeqNumberFacts
    <3>2. n <= m_max_seq_num'
      BY <1>0, <3>1, RangeAssumption, ArrivalFacts, <1>a DEF Arrive, PackageExist,
         InWindow, NextWindow, LastWindow, Unhandled, windowVars
    <3>3. SeqNumber(k) <= k /\ k <= n + MaxGap /\ MaxGap <= Range
      BY <2>1, <1>0, SeqNumberFacts, StreamAssumption DEF InReach
    <3> QED BY <3>2, <3>3, <1>0, RangeAssumption, StreamAssumption
  <2>3. CASE ~(n < SeqMod)
    <3>1. SeqMod - 1 \in Nat /\ SeqMod - 1 < next + MaxGap
      BY <2>3, <1>0, <1>a, SeqModAssumption, StreamAssumption
    <3>2. SeqNumber(SeqMod - 1) = SeqMod - 1
      BY <3>1, SeqNumberFacts, SeqModAssumption
    <3>3. SeqNumber(k) <= SeqMod - 1
      BY SeqNumberFacts
    <3> QED BY <3>1, <3>2, <3>3, <1>0, <1>1, <1>2, RangeAssumption, SeqModAssumption
  <2> QED BY <2>2, <2>3
<1> QED BY <1>3, <1>4

\* What a call that lets the packet through adds to the numbers passed.
LEMMA PassAdds ==
  ASSUME NEW n \in Packet, Pass(n)
  PROVE  \A s : Passed(s)' <=> Passed(s) \/ s = SeqNumber(n)
BY DEF Pass, Passed

LEMMA RefuseKeeps ==
  ASSUME NEW n \in Packet, Refuse(n)
  PROVE  \A s : Passed(s)' <=> Passed(s)
BY DEF Refuse, Passed

\* The bits go on recording the numbers passed, and a packet that is let
\* through had not passed before.
LEMMA BitsStep ==
  ASSUME IInv, NEW n \in Packet, Arrive(n)
  PROVE  BitsRecordPassed' /\ CopiesStopped'
<1> SUFFICES ASSUME InReach
             PROVE  /\ \A s \in m_min_seq_num' .. m_max_seq_num' :
                         Pos(s) \in m_bitset' <=> Passed(s)'
                    /\ \A s \in 0 .. m_max_seq_num' :
                         s < m_min_seq_num' /\ m_min_seq_num' <= s + Range
                           => (Pos(s) \in m_last_bitset' <=> Passed(s)')
                    /\ \A k \in passed' : SeqNumber(k) <= m_max_seq_num'
                    /\ repeated' = {}
  BY DEF BitsRecordPassed, CopiesStopped
<1> DEFINE sn == SeqNumber(n)
<1>0. /\ n \in Nat /\ sn \in Nat /\ Pos(sn) \in 0 .. Range - 1
      /\ m_min_seq_num \in Nat /\ m_max_seq_num \in Nat
      /\ m_max_seq_num = m_min_seq_num + Range - 1
      /\ sn <= m_max_seq_num + Range
  BY ArrivalFacts DEF Arrive
<1>1. /\ \A s \in m_min_seq_num .. m_max_seq_num : Pos(s) \in m_bitset <=> Passed(s)
      /\ \A s \in 0 .. m_max_seq_num :
           s < m_min_seq_num /\ m_min_seq_num <= s + Range
             => (Pos(s) \in m_last_bitset <=> Passed(s))
      /\ \A k \in passed : SeqNumber(k) <= m_max_seq_num
      /\ repeated = {}
  BY DEF IInv, BitsRecordPassed, CopiesStopped
<1>2. \A s, t \in Nat : s < t + Range /\ t < s + Range /\ Pos(s) = Pos(t) => s = t
  BY PosFacts
<1>3. n \in passed => Passed(sn)
  BY DEF Passed
<1>4. Passed(sn) => sn <= m_max_seq_num
  BY <1>1 DEF Passed
<1>5. CASE /\ Refuse(n)
           /\ UNCHANGED <<windowVars, m_bitset, m_last_bitset>>
  BY <1>1, <1>5, RefuseKeeps DEF Refuse, windowVars
<1>6. CASE InWindow(n) /\ Pos(sn) \notin m_bitset
  <2>1. /\ Pass(n) /\ m_bitset' = m_bitset \cup {Pos(sn)}
        /\ m_min_seq_num < sn /\ sn < m_max_seq_num
        /\ UNCHANGED <<windowVars, m_last_bitset>>
    BY <1>6 DEF InWindow
  <2>2. ~Passed(sn)
    BY <1>0, <1>1, <1>6, <2>1
  <2>3. \A s : Passed(s)' <=> Passed(s) \/ s = sn
    BY <2>1, PassAdds
  <2>4. ASSUME NEW s \in m_min_seq_num' .. m_max_seq_num'
        PROVE  Pos(s) \in m_bitset' <=> Passed(s)'
    <3>1. s \in m_min_seq_num .. m_max_seq_num /\ s \in Nat
      BY <2>1, <1>0 DEF windowVars
    <3>2. Pos(s) = Pos(sn) => s = sn
      BY <3>1, <2>1, <1>0, <1>2, RangeAssumption
    <3> QED BY <3>1, <3>2, <2>1, <2>3, <1>1
  <2>5. ASSUME NEW s \in 0 .. m_max_seq_num', s < m_min_seq_num',
               m_min_seq_num' <= s + Range
        PROVE  Pos(s) \in m_last_bitset' <=> Passed(s)'
    <3>1. s # sn
      BY <2>1, <2>5, <1>0 DEF windowVars
    <3> QED BY <3>1, <2>1, <2>3, <2>5, <1>1 DEF windowVars
  <2>6. /\ \A k \in passed' : SeqNumber(k) <= m_max_seq_num'
        /\ repeated' = {}
    BY <2>1, <2>2, <1>0, <1>1, <1>3 DEF Pass, windowVars
  <2> QED BY <2>4, <2>5, <2>6
<1>7. CASE NextWindow(n)
  <2>1. /\ Pass(n) /\ m_bitset' = {Pos(sn)} /\ m_last_bitset' = m_bitset
        /\ sn > m_max_seq_num
        /\ m_min_seq_num' = m_max_seq_num + 1
        /\ m_max_seq_num' = m_max_seq_num + Range
    BY <1>7 DEF NextWindow
  <2>2. \A s : Passed(s)' <=> Passed(s) \/ s = sn
    BY <2>1, PassAdds
  <2>3. \A s \in Nat : Passed(s) => s <= m_max_seq_num
    BY <1>1 DEF Passed
  <2>4. ASSUME NEW s \in m_min_seq_num' .. m_max_seq_num'
        PROVE  Pos(s) \in m_bitset' <=> Passed(s)'
    <3>1. s \in Nat /\ s > m_max_seq_num /\ s <= m_max_seq_num + Range
      BY <2>1, <1>0, RangeAssumption
    <3>2. Pos(s) = Pos(sn) <=> s = sn
      BY <3>1, <2>1, <1>0, <1>2, RangeAssumption
    <3>3. ~Passed(s)
      BY <3>1, <2>3, <1>0
    <3> QED BY <3>2, <3>3, <2>1, <2>2
  <2>5. ASSUME NEW s \in 0 .. m_max_seq_num', s < m_min_seq_num',
               m_min_seq_num' <= s + Range
        PROVE  Pos(s) \in m_last_bitset' <=> Passed(s)'
    <3>1. s \in m_min_seq_num .. m_max_seq_num /\ s # sn
      BY <2>1, <2>5, <1>0, RangeAssumption
    <3> QED BY <3>1, <2>1, <2>2, <1>1
  <2>6. /\ \A k \in passed' : SeqNumber(k) <= m_max_seq_num'
        /\ repeated' = {}
    <3>1. ~Passed(sn)
      BY <2>1, <1>4, <1>0
    <3>2. \A k \in passed : SeqNumber(k) \in Nat
      BY SeqNumberFacts, PacketIsNat DEF IInv, TypeOK
    <3> QED BY <3>1, <3>2, <2>1, <1>0, <1>1, <1>3, RangeAssumption DEF Pass
  <2> QED BY <2>4, <2>5, <2>6
<1>8. CASE LastWindow(n) /\ Pos(sn) \notin m_last_bitset
  <2>1. /\ Pass(n) /\ m_last_bitset' = m_last_bitset \cup {Pos(sn)}
        /\ sn < m_min_seq_num /\ sn + Range > m_min_seq_num
        /\ UNCHANGED <<windowVars, m_bitset>>
    BY <1>8 DEF LastWindow
  <2>2. ~Passed(sn)
    BY <1>0, <1>1, <1>8, <2>1, RangeAssumption
  <2>3. \A s : Passed(s)' <=> Passed(s) \/ s = sn
    BY <2>1, PassAdds
  <2>4. ASSUME NEW s \in m_min_seq_num' .. m_max_seq_num'
        PROVE  Pos(s) \in m_bitset' <=> Passed(s)'
    <3>1. s \in m_min_seq_num .. m_max_seq_num /\ s # sn
      BY <2>1, <1>0 DEF windowVars
    <3> QED BY <3>1, <2>1, <2>3, <1>1
  <2>5. ASSUME NEW s \in 0 .. m_max_seq_num', s < m_min_seq_num',
               m_min_seq_num' <= s + Range
        PROVE  Pos(s) \in m_last_bitset' <=> Passed(s)'
    <3>1. /\ s \in 0 .. m_max_seq_num /\ s \in Nat /\ s < m_min_seq_num
          /\ m_min_seq_num <= s + Range
      BY <2>1, <2>5, <1>0 DEF windowVars
    <3>2. Pos(s) = Pos(sn) => s = sn
      BY <3>1, <2>1, <1>0, <1>2, RangeAssumption
    <3> QED BY <3>1, <3>2, <2>1, <2>3, <1>1
  <2>6. /\ \A k \in passed' : SeqNumber(k) <= m_max_seq_num'
        /\ repeated' = {}
    BY <2>1, <2>2, <1>0, <1>1, <1>3, RangeAssumption DEF Pass, windowVars
  <2> QED BY <2>4, <2>5, <2>6
<1> QED
  BY <1>5, <1>6, <1>7, <1>8
  DEF Arrive, PackageExist, InWindow, LastWindow, Unhandled, windowVars

LEMMA NextIInv == IInv /\ [Next]_vars => IInv'
<1> SUFFICES ASSUME IInv, [Next]_vars PROVE IInv'
  OBVIOUS
<1>1. ASSUME NEW n \in Packet, Arrive(n) PROVE IInv'
  BY <1>1, TypeStep, ReachStep, BitsStep DEF IInv
<1>2. CASE UNCHANGED vars
  BY <1>2 DEF vars, windowVars, IInv, TypeOK, Window, Reach, BitsRecordPassed,
     CopiesStopped, Passed
<1> QED BY <1>1, <1>2 DEF Next

-----------------------------------------------------------------------------
\* The invariant holds in every reachable state.
THEOREM Invariant == Spec => []IInv
BY InitIInv, NextIInv, PTL DEF Spec

\* The window, the bitsets and the packets keep their types.
THEOREM TypeCorrect == Spec => []TypeOK
<1>1. IInv => TypeOK BY DEF IInv
<1> QED BY <1>1, Invariant, PTL

\* A set bit always stands for a number of its window that was let through,
\* a clear bit for one that was not.
THEOREM BitsAreExact == Spec => []BitsRecordPassed
<1>1. IInv => BitsRecordPassed BY DEF IInv
<1> QED BY <1>1, Invariant, PTL

\* In reach of the window, package_exist never lets a packet through twice.
THEOREM NoCopyPasses == Spec => []CopiesStopped
<1>1. IInv => CopiesStopped BY DEF IInv
<1> QED BY <1>1, Invariant, PTL

\* In reach of the window, the first copy of a packet is refused only at an
\* end of the window, when it is too old or when its number was used before.
THEOREM RefusalsHaveCause == Spec => RefusedWithCause
<1> DEFINE Cause == InReach =>
      \A n \in refused' \ refused :
        \/ SeqNumber(n) \in {m_min_seq_num, m_max_seq_num}
        \/ SeqNumber(n) + Range <= m_min_seq_num
        \/ Passed(SeqNumber(n))
<1>1. ASSUME IInv, [Next]_vars PROVE Cause \/ UNCHANGED vars
  <2>1. ASSUME NEW n \in Packet, Arrive(n), InReach,
               NEW k \in refused' \ refused
        PROVE  \/ SeqNumber(k) \in {m_min_seq_num, m_max_seq_num}
               \/ SeqNumber(k) + Range <= m_min_seq_num
               \/ Passed(SeqNumber(k))
    <3>0. /\ SeqNumber(n) \in Nat /\ m_min_seq_num \in Nat /\ m_max_seq_num \in Nat
          /\ m_max_seq_num = m_min_seq_num + Range - 1
      BY <1>1, <2>1, ArrivalFacts DEF Arrive
    <3>1. /\ \A s \in m_min_seq_num .. m_max_seq_num :
               Pos(s) \in m_bitset <=> Passed(s)
          /\ \A s \in 0 .. m_max_seq_num :
               s < m_min_seq_num /\ m_min_seq_num <= s + Range
                 => (Pos(s) \in m_last_bitset <=> Passed(s))
      BY <1>1, <2>1 DEF IInv, BitsRecordPassed
    <3>2. Refuse(n) => k = n
      BY <2>1 DEF Refuse
    <3>3. ~Pass(n)
      BY <2>1 DEF Pass
    <3>4. CASE InWindow(n)
      <4>1. Refuse(n) /\ Pos(SeqNumber(n)) \in m_bitset
        BY <3>3, <3>4 DEF InWindow
      <4>2. SeqNumber(n) \in m_min_seq_num .. m_max_seq_num
        BY <3>0, <3>4 DEF InWindow
      <4> QED BY <4>1, <4>2, <3>1, <3>2
    <3>5. CASE LastWindow(n)
      <4>1. Refuse(n) /\ Pos(SeqNumber(n)) \in m_last_bitset
        BY <3>3, <3>5 DEF LastWindow
      <4>2. /\ SeqNumber(n) \in 0 .. m_max_seq_num
            /\ SeqNumber(n) < m_min_seq_num
            /\ m_min_seq_num <= SeqNumber(n) + Range
        BY <3>0, <3>5, RangeAssumption DEF LastWindow
      <4> QED BY <4>1, <4>2, <3>1, <3>2
    <3>6. CASE Unhandled(n)
      BY <3>2, <3>6 DEF Unhandled
    <3> QED BY <2>1, <3>3, <3>4, <3>5, <3>6 DEF Arrive, PackageExist, NextWindow
  <2> QED BY <1>1, <2>1 DEF Next
<1>2. IInv /\ [Next]_vars => [Cause]_vars
  BY <1>1
<1> QED BY <1>2, Invariant, PTL DEF Spec, RefusedWithCause
=============================================================================
