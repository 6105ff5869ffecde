-------------------------- MODULE CnnMixerProofs --------------------------
(***************************************************************************)
(* Proofs about the connection: a command is read back as it was written,  *)
(* and the reads and writes of a connection implement CommandPipe.         *)
(***************************************************************************)
EXTENDS CnnMixer, WellFoundedInduction, TLAPS

\* A set of numbers that is not empty has a least one: what is used for
\* induction over the fields of a command.
LEMMA LeastNumber ==
  ASSUME NEW T, T \subseteq Nat, T # {}
  PROVE  \E x \in T : \A y \in T : x <= y
<1>1. PICK x \in T : \A y \in T : ~ (<<y, x>> \in OpToRel(<, Nat))
  BY WFMin, NatLessThanWellFounded
<1>2. \A y \in T : x <= y
  <2> TAKE y \in T
  <2>1. x \in Nat /\ y \in Nat
    OBVIOUS
  <2>2. ~ (y < x)
    BY <1>1, <2>1 DEF OpToRel
  <2> QED BY <2>1, <2>2
<1> QED BY <1>2

-----------------------------------------------------------------------------
(***************************************************************************)
(* FlattenSeq: the sequences one after the other.                          *)
(***************************************************************************)
Flattens(g, seqs) ==
  g = [i \in 1 .. Len(seqs) |-> IF i = 1 THEN seqs[i] ELSE g[i-1] \o seqs[i]]

\* g up to n.
FlattensTo(g, seqs, n) ==
  /\ DOMAIN g = 1 .. n
  /\ \A i \in 1 .. n : g[i] = IF i = 1 THEN seqs[i] ELSE g[i-1] \o seqs[i]

LEMMA OneMoreFlattened ==
  ASSUME NEW seqs, NEW n \in Nat, n # 0, NEW h, FlattensTo(h, seqs, n)
  PROVE  \E g : FlattensTo(g, seqs, n + 1)
<1> DEFINE g == [i \in 1 .. n + 1 |-> IF i = n + 1 THEN h[n] \o seqs[i] ELSE h[i]]
<1>1. ASSUME NEW i \in 1 .. n + 1
      PROVE  g[i] = IF i = 1 THEN seqs[i] ELSE g[i-1] \o seqs[i]
  <2>1. CASE i = n + 1
    <3>1. i # 1 /\ i - 1 = n /\ n \in 1 .. n + 1 /\ n # n + 1
      BY <2>1
    <3>2. g[i] = h[n] \o seqs[i]
      BY <2>1
    <3>3. g[i-1] = h[n]
      BY <3>1
    <3> QED BY <3>1, <3>2, <3>3
  <2>2. CASE i # n + 1
    <3>1. i \in 1 .. n
      BY <2>2
    <3>2. g[i] = h[i]
      BY <2>2
    <3>3. CASE i = 1
      BY <3>1, <3>2, <3>3 DEF FlattensTo
    <3>4. CASE i # 1
      <4>1. i - 1 \in 1 .. n + 1 /\ i - 1 # n + 1
        BY <3>1, <3>4
      <4>2. g[i-1] = h[i-1]
        BY <4>1
      <4> HIDE DEF g
      <4> QED BY <3>1, <3>2, <3>4, <4>2 DEF FlattensTo
    <3> QED BY <3>3, <3>4
  <2> QED BY <2>1, <2>2
<1>2. DOMAIN g = 1 .. n + 1
  OBVIOUS
<1>3. FlattensTo(g, seqs, n + 1)
  <2> HIDE DEF g
  <2> QED BY <1>1, <1>2 DEF FlattensTo
<1> QED BY <1>3

LEMMA FlattenExists ==
  ASSUME NEW seqs, NEW n \in Nat, n # 0
  PROVE  \E g : FlattensTo(g, seqs, n)
<1> DEFINE T == {k \in Nat : k # 0 /\ ~ \E g : FlattensTo(g, seqs, k)}
<1>1. SUFFICES ASSUME T # {} PROVE FALSE
  OBVIOUS
<1>2. PICK k \in T : \A j \in T : k <= j
  BY <1>1, LeastNumber
<1>3. k \in Nat /\ k # 0 /\ ~ \E g : FlattensTo(g, seqs, k)
  OBVIOUS
<1>4. CASE k = 1
  <2>1. FlattensTo([i \in 1 .. 1 |-> seqs[i]], seqs, 1)
    BY DEF FlattensTo
  <2> QED BY <1>3, <1>4, <2>1
<1>5. CASE k # 1
  <2>1. k - 1 \in Nat /\ k - 1 # 0 /\ ~ (k <= k - 1) /\ (k - 1) + 1 = k
    BY <1>3, <1>5
  <2>2. k - 1 \notin T
    BY <1>2, <2>1
  <2>3. PICK h : FlattensTo(h, seqs, k - 1)
    BY <2>1, <2>2
  <2>4. \E g : FlattensTo(g, seqs, (k - 1) + 1)
    <3> HIDE DEF T
    <3> QED BY <2>1, <2>3, OneMoreFlattened
  <2>5. \E g : FlattensTo(g, seqs, k)
    BY <2>1, <2>4
  <2> QED BY <1>3, <2>5
<1> QED BY <1>4, <1>5

\* FlattenSeq is the last of the sequences that grow by one after the other.
LEMMA FlattenIsLast ==
  ASSUME NEW seqs, Len(seqs) \in Nat, Len(seqs) # 0
  PROVE  \E g : FlattensTo(g, seqs, Len(seqs)) /\ FlattenSeq(seqs) = g[Len(seqs)]
<1> DEFINE g == CHOOSE h : h = [i \in 1 .. Len(seqs) |->
                                  IF i = 1 THEN seqs[i] ELSE h[i-1] \o seqs[i]]
<1>1. PICK f : FlattensTo(f, seqs, Len(seqs))
  BY FlattenExists
<1>2. Flattens(g, seqs)
  <2>1. PICK h : h = [i \in 1 .. Len(seqs) |-> f[i]]
    OBVIOUS
  <2>2. ASSUME NEW i \in 1 .. Len(seqs)
        PROVE  h[i] = IF i = 1 THEN seqs[i] ELSE h[i-1] \o seqs[i]
    <3>1. h[i] = f[i]
      BY <2>1
    <3>2. i # 1 => h[i-1] = f[i-1]
      <4>1. i # 1 => i - 1 \in 1 .. Len(seqs)
        OBVIOUS
      <4> QED BY <2>1, <4>1
    <3> QED BY <1>1, <3>1, <3>2 DEF FlattensTo
  <2>3. h = [i \in 1 .. Len(seqs) |-> IF i = 1 THEN seqs[i] ELSE h[i-1] \o seqs[i]]
    BY <2>1, <2>2
  <2> QED BY <2>3 DEF Flattens
<1>3. FlattensTo(g, seqs, Len(seqs))
  <2> HIDE DEF g
  <2>1. DOMAIN g = 1 .. Len(seqs)
    BY <1>2 DEF Flattens
  <2>2. \A i \in 1 .. Len(seqs) : g[i] = IF i = 1 THEN seqs[i] ELSE g[i-1] \o seqs[i]
    BY <1>2 DEF Flattens
  <2> QED BY <2>1, <2>2 DEF FlattensTo
<1>4. FlattenSeq(seqs) = g[Len(seqs)]
  BY DEF FlattenSeq
<1> QED BY <1>3, <1>4

-----------------------------------------------------------------------------
(***************************************************************************)
(* Where each of the sequences starts.                                     *)
(***************************************************************************)
Places(at, seqs) ==
  /\ at \in [1 .. Len(seqs) + 1 -> Nat]
  /\ at[1] = 1
  /\ \A i \in 1 .. Len(seqs) : at[i+1] = at[i] + Len(seqs[i])

\* The places do not get smaller: used up to the last one.
LEMMA PlacesGrow ==
  ASSUME NEW S, NEW seqs \in Seq(Seq(S)), NEW at, Places(at, seqs),
         NEW n \in 1 .. Len(seqs) + 1, NEW i \in 1 .. n
  PROVE  at[i] <= at[n]
<1> DEFINE T == {k \in Nat : k \in i .. Len(seqs) + 1 /\ ~ (at[i] <= at[k])}
<1>1. SUFFICES ASSUME T # {} PROVE FALSE
  <2>1. n \in Nat /\ n \in i .. Len(seqs) + 1
    OBVIOUS
  <2> QED BY <2>1
<1>2. PICK k \in T : \A j \in T : k <= j
  BY <1>1, LeastNumber
<1>3. k \in Nat /\ k \in i .. Len(seqs) + 1 /\ ~ (at[i] <= at[k])
  OBVIOUS
<1>4. Len(seqs) \in Nat /\ i \in 1 .. Len(seqs) + 1
  OBVIOUS
<1>41. at[i] \in Nat
  BY <1>4 DEF Places
<1>5. k # i
  BY <1>3, <1>41
<1>6. /\ k - 1 \in Nat /\ k - 1 \in i .. Len(seqs) + 1 /\ ~ (k <= k - 1)
      /\ k - 1 \in 1 .. Len(seqs) /\ (k - 1) + 1 = k
  BY <1>3, <1>5
<1>7. at[i] <= at[k-1]
  BY <1>2, <1>6
<1>8. at[k] = at[k-1] + Len(seqs[k-1])
  BY <1>6 DEF Places
<1>9. at[k-1] \in Nat
  <2>1. k - 1 \in 1 .. Len(seqs) + 1
    BY <1>4, <1>6
  <2> QED BY <2>1 DEF Places
<1>10. seqs[k-1] \in Seq(S)
  BY <1>6
<1> QED BY <1>3, <1>41, <1>7, <1>8, <1>9, <1>10

\* The lengths of the sequences give the places.
LEMMA PlacesUnique ==
  ASSUME NEW seqs, NEW others, Len(seqs) \in Nat, Len(others) = Len(seqs),
         \A i \in 1 .. Len(seqs) : Len(others[i]) = Len(seqs[i]),
         NEW a, NEW b, Places(a, seqs), Places(b, others)
  PROVE  \A i \in 1 .. Len(seqs) + 1 : a[i] = b[i]
<1> DEFINE T == {k \in Nat : k \in 1 .. Len(seqs) + 1 /\ a[k] # b[k]}
<1>1. SUFFICES ASSUME T # {} PROVE FALSE
  OBVIOUS
<1>2. PICK k \in T : \A j \in T : k <= j
  BY <1>1, LeastNumber
<1>3. k \in Nat /\ k \in 1 .. Len(seqs) + 1 /\ a[k] # b[k]
  OBVIOUS
<1>4. k # 1
  BY <1>3 DEF Places
<1>5. k - 1 \in Nat /\ k - 1 \in 1 .. Len(seqs) /\ ~ (k <= k - 1) /\ (k - 1) + 1 = k
      /\ k - 1 \in 1 .. Len(seqs) + 1
  BY <1>3, <1>4
<1>6. a[k-1] = b[k-1]
  BY <1>2, <1>5
<1>7. a[k] = a[k-1] + Len(seqs[k-1]) /\ b[k] = b[k-1] + Len(others[k-1])
  BY <1>5 DEF Places
<1> QED BY <1>3, <1>5, <1>6, <1>7

\* What is known of a sequence s that holds the first n ones.
Holds(s, at, seqs, n) ==
  /\ Len(s) = at[n+1] - 1
  /\ \A i \in 1 .. n : \A k \in 1 .. Len(seqs[i]) : s[at[i] + k - 1] = seqs[i][k]

LEMMA HoldsOne ==
  ASSUME NEW S, NEW seqs \in Seq(Seq(S)), Len(seqs) # 0, NEW at, Places(at, seqs)
  PROVE  Holds(seqs[1], at, seqs, 1)
<1>1. 1 \in 1 .. Len(seqs) /\ seqs[1] \in Seq(S)
  OBVIOUS
<1>2. at[1] = 1 /\ at[1+1] = at[1] + Len(seqs[1])
  BY <1>1 DEF Places
<1>3. Len(seqs[1]) = at[1+1] - 1
  BY <1>1, <1>2
<1>4. ASSUME NEW i \in 1 .. 1, NEW k \in 1 .. Len(seqs[i])
      PROVE  seqs[1][at[i] + k - 1] = seqs[i][k]
  <2>1. i = 1
    OBVIOUS
  <2>2. k \in 1 .. Len(seqs[1])
    BY <2>1
  <2>3. k \in Nat
    BY <1>1, <2>2
  <2>4. at[i] + k - 1 = k
    BY <1>2, <2>1, <2>3
  <2> QED BY <2>1, <2>4
<1> QED BY <1>3, <1>4 DEF Holds

LEMMA HoldsMore ==
  ASSUME NEW S, NEW seqs \in Seq(Seq(S)), NEW at, Places(at, seqs),
         NEW n \in 1 .. Len(seqs), n + 1 <= Len(seqs),
         NEW s \in Seq(S), Holds(s, at, seqs, n)
  PROVE  /\ s \o seqs[n+1] \in Seq(S)
         /\ Holds(s \o seqs[n+1], at, seqs, n + 1)
<1>1. n + 1 \in 1 .. Len(seqs) /\ seqs[n+1] \in Seq(S) /\ n + 1 \in 1 .. Len(seqs) + 1
  OBVIOUS
<1>2. PICK t : t = s \o seqs[n+1]
  OBVIOUS
<1>3. /\ t \in Seq(S) /\ Len(t) = Len(s) + Len(seqs[n+1])
      /\ \A j \in 1 .. Len(s) : t[j] = s[j]
      /\ \A j \in 1 .. Len(seqs[n+1]) : t[Len(s) + j] = seqs[n+1][j]
  BY <1>1, <1>2
<1>4. /\ at[n+1] \in Nat /\ at[n+1+1] = at[n+1] + Len(seqs[n+1])
      /\ Len(s) = at[n+1] - 1
  BY <1>1 DEF Places, Holds
<1>5. Len(t) = at[n+1+1] - 1
  BY <1>1, <1>3, <1>4
<1>6. ASSUME NEW i \in 1 .. n + 1, NEW k \in 1 .. Len(seqs[i])
      PROVE  t[at[i] + k - 1] = seqs[i][k]
  <2>1. CASE i = n + 1
    <3>1. at[i] + k - 1 = Len(s) + k /\ k \in 1 .. Len(seqs[n+1])
      BY <1>1, <1>4, <2>1
    <3> QED BY <1>3, <2>1, <3>1
  <2>2. CASE i # n + 1
    <3>1. i \in 1 .. n /\ i \in 1 .. Len(seqs) /\ seqs[i] \in Seq(S) /\ i + 1 \in 1 .. n + 1
      BY <2>2
    <3>2. at[i+1] <= at[n+1]
      BY <1>1, <3>1, PlacesGrow
    <3>3. at[i+1] = at[i] + Len(seqs[i])
      BY <3>1 DEF Places
    <3>31. i \in 1 .. Len(seqs) + 1 /\ 1 \in 1 .. i
      BY <3>1
    <3>32. at[i] \in Nat
      BY <3>31 DEF Places
    <3>4. at[1] <= at[i]
      BY <3>31, PlacesGrow
    <3>5. at[1] = 1
      BY DEF Places
    <3>51. Len(seqs[i]) \in Nat /\ k \in 1 .. Len(seqs[i])
      BY <3>1
    <3>6. at[i] + k - 1 \in 1 .. Len(s)
      <4>1. PICK p \in Nat : p = at[i]
        BY <3>32
      <4>2. PICK q \in Nat : q = Len(seqs[i])
        BY <3>51
      <4>3. k \in Nat /\ 1 <= k /\ k <= q
        BY <3>51, <4>2
      <4>4. at[i+1] = p + q /\ 1 <= p
        BY <3>3, <3>4, <3>5, <4>1, <4>2
      <4>5. PICK r \in Nat : r = at[n+1]
        BY <1>4
      <4>6. p + q <= r /\ Len(s) = r - 1
        BY <1>4, <3>2, <4>4, <4>5
      <4>7. p + k - 1 \in 1 .. r - 1
        BY <4>3, <4>4, <4>6
      <4> QED BY <4>1, <4>6, <4>7
    <3>7. s[at[i] + k - 1] = seqs[i][k]
      BY <3>1 DEF Holds
    <3> QED BY <1>3, <3>6, <3>7
  <2> QED BY <2>1, <2>2
<1>7. Holds(t, at, seqs, n + 1)
  BY <1>5, <1>6 DEF Holds
<1> QED BY <1>2, <1>3, <1>7

\* The sequences flattened: each is found at its place, and nothing else is.
LEMMA FlattenPlaces ==
  ASSUME NEW S, NEW seqs \in Seq(Seq(S)), Len(seqs) # 0,
         NEW at, Places(at, seqs)
  PROVE  FlattenSeq(seqs) \in Seq(S) /\ Holds(FlattenSeq(seqs), at, seqs, Len(seqs))
<1>1. Len(seqs) \in Nat
  OBVIOUS
<1>2. PICK g : FlattensTo(g, seqs, Len(seqs)) /\ FlattenSeq(seqs) = g[Len(seqs)]
  BY <1>1, FlattenIsLast
<1> DEFINE T == {k \in Nat : /\ k \in 1 .. Len(seqs)
                             /\ ~ (g[k] \in Seq(S) /\ Holds(g[k], at, seqs, k))}
<1>3. CASE T = {}
  <2>1. Len(seqs) \in 1 .. Len(seqs)
    BY <1>1
  <2>2. Len(seqs) \notin T
    BY <1>3
  <2>3. g[Len(seqs)] \in Seq(S) /\ Holds(g[Len(seqs)], at, seqs, Len(seqs))
    BY <1>1, <2>1, <2>2
  <2> QED BY <1>2, <2>3
<1>4. CASE T # {}
  <2>1. PICK k \in T : \A j \in T : k <= j
    BY <1>4, LeastNumber
  <2>2. /\ k \in Nat /\ k \in 1 .. Len(seqs)
        /\ ~ (g[k] \in Seq(S) /\ Holds(g[k], at, seqs, k))
    OBVIOUS
  <2>3. CASE k = 1
    <3>1. g[1] = seqs[1]
      BY <2>2, <2>3, <1>2 DEF FlattensTo
    <3>2. Holds(g[1], at, seqs, 1)
      BY <3>1, HoldsOne
    <3>3. g[1] \in Seq(S)
      BY <2>2, <2>3, <3>1
    <3> QED BY <2>2, <2>3, <3>2, <3>3
  <2>4. CASE k # 1
    <3>1. PICK m \in Nat : m + 1 = k /\ m = k - 1
      <4>1. k - 1 \in Nat /\ (k - 1) + 1 = k
        BY <2>2, <2>4
      <4> QED BY <4>1
    <3>2. /\ m \in 1 .. Len(seqs) /\ m + 1 <= Len(seqs) /\ ~ (k <= m)
      BY <2>2, <2>4, <3>1
    <3>3. m \notin T
      BY <2>1, <3>2
    <3>4. g[m] \in Seq(S) /\ Holds(g[m], at, seqs, m)
      BY <3>2, <3>3
    <3>5. g[k] = g[m] \o seqs[m+1]
      BY <1>2, <2>2, <2>4, <3>1 DEF FlattensTo
    <3>6. g[m] \o seqs[m+1] \in Seq(S) /\ Holds(g[m] \o seqs[m+1], at, seqs, m + 1)
      <4> HIDE DEF T
      <4> QED BY <3>2, <3>4, HoldsMore
    <3> QED BY <2>2, <3>1, <3>5, <3>6
  <2> QED BY <2>3, <2>4
<1> QED BY <1>3, <1>4


\* There are places: after the sequences flattened so far.
LEMMA FlattensToSeqs ==
  ASSUME NEW S, NEW seqs \in Seq(Seq(S)), NEW g, FlattensTo(g, seqs, Len(seqs))
  PROVE  \A k \in 1 .. Len(seqs) : g[k] \in Seq(S)
<1> DEFINE T == {k \in Nat : k \in 1 .. Len(seqs) /\ g[k] \notin Seq(S)}
<1>1. SUFFICES ASSUME T # {} PROVE FALSE
  OBVIOUS
<1>2. PICK k \in T : \A j \in T : k <= j
  BY <1>1, LeastNumber
<1>3. k \in Nat /\ k \in 1 .. Len(seqs) /\ g[k] \notin Seq(S) /\ seqs[k] \in Seq(S)
  OBVIOUS
<1>4. g[k] = IF k = 1 THEN seqs[k] ELSE g[k-1] \o seqs[k]
  BY <1>3 DEF FlattensTo
<1>5. k # 1
  BY <1>3, <1>4
<1>6. k - 1 \in Nat /\ k - 1 \in 1 .. Len(seqs) /\ ~ (k <= k - 1)
  BY <1>3, <1>5
<1>7. g[k-1] \in Seq(S)
  BY <1>2, <1>6
<1> QED BY <1>3, <1>4, <1>5, <1>7

LEMMA PlacesExist ==
  ASSUME NEW S, NEW seqs \in Seq(Seq(S)), Len(seqs) # 0
  PROVE  \E at : Places(at, seqs)
<1>1. Len(seqs) \in Nat
  OBVIOUS
<1>2. PICK g : FlattensTo(g, seqs, Len(seqs))
  BY <1>1, FlattenExists
<1>3. \A k \in 1 .. Len(seqs) : g[k] \in Seq(S)
  BY <1>2, FlattensToSeqs
<1>4. PICK at : at = [i \in 1 .. Len(seqs) + 1 |-> IF i = 1 THEN 1 ELSE Len(g[i-1]) + 1]
  OBVIOUS
<1>5. at[1] = 1
  BY <1>1, <1>4
<1>6. ASSUME NEW i \in 1 .. Len(seqs) + 1
      PROVE  at[i] \in Nat
  <2>1. i # 1 => i - 1 \in 1 .. Len(seqs)
    BY <1>1
  <2> QED BY <1>3, <1>4, <2>1
<1>7. ASSUME NEW i \in 1 .. Len(seqs)
      PROVE  at[i+1] = at[i] + Len(seqs[i])
  <2>1. i + 1 \in 1 .. Len(seqs) + 1 /\ i \in 1 .. Len(seqs) + 1 /\ i + 1 # 1 /\ (i + 1) - 1 = i
    BY <1>1
  <2>2. at[i+1] = Len(g[i]) + 1
    BY <1>4, <2>1
  <2>3. seqs[i] \in Seq(S) /\ g[i] \in Seq(S)
    BY <1>3
  <2>4. CASE i = 1
    <3>1. g[i] = seqs[i]
      BY <1>2, <2>4 DEF FlattensTo
    <3>2. Len(seqs[i]) \in Nat
      BY <2>3
    <3> QED BY <1>5, <2>2, <2>4, <3>1, <3>2
  <2>5. CASE i # 1
    <3>1. i - 1 \in 1 .. Len(seqs)
      BY <2>5
    <3>2. g[i] = g[i-1] \o seqs[i]
      BY <1>2, <2>5 DEF FlattensTo
    <3>3. g[i-1] \in Seq(S)
      BY <1>3, <3>1
    <3>4. at[i] = Len(g[i-1]) + 1
      BY <1>4, <2>1, <2>5
    <3>5. Len(g[i]) = Len(g[i-1]) + Len(seqs[i]) /\ Len(g[i-1]) \in Nat /\ Len(seqs[i]) \in Nat
      BY <2>3, <3>2, <3>3
    <3>6. PICK p \in Nat : p = Len(g[i-1])
      BY <3>5
    <3>7. PICK q \in Nat : q = Len(seqs[i])
      BY <3>5
    <3>8. at[i+1] = p + q + 1 /\ at[i] = p + 1
      BY <2>2, <3>4, <3>5, <3>6, <3>7
    <3>9. at[i] + Len(seqs[i]) = (p + 1) + q
      BY <3>7, <3>8
    <3>10. (p + 1) + q = p + q + 1
      OBVIOUS
    <3> QED BY <3>8, <3>9, <3>10
  <2> QED BY <2>4, <2>5
<1>8. Places(at, seqs)
  <2>1. DOMAIN at = 1 .. Len(seqs) + 1 /\ at \in [1 .. Len(seqs) + 1 -> Nat]
    BY <1>4, <1>6
  <2> QED BY <1>5, <1>7, <2>1 DEF Places
<1> QED BY <1>8

\* An item at least for each sequence that has one.
LEMMA PlacesApart ==
  ASSUME NEW S, NEW seqs \in Seq(Seq(S)), NEW at, Places(at, seqs),
         \A i \in 1 .. Len(seqs) : Len(seqs[i]) >= 1,
         NEW n \in 1 .. Len(seqs) + 1
  PROVE  at[n] >= n
<1> DEFINE T == {k \in Nat : k \in 1 .. Len(seqs) + 1 /\ ~ (at[k] >= k)}
<1>1. SUFFICES ASSUME T # {} PROVE FALSE
  <2>1. n \in Nat
    OBVIOUS
  <2> QED BY <2>1
<1>2. PICK k \in T : \A j \in T : k <= j
  BY <1>1, LeastNumber
<1>3. k \in Nat /\ k \in 1 .. Len(seqs) + 1 /\ ~ (at[k] >= k)
  OBVIOUS
<1>4. k # 1
  BY <1>3 DEF Places
<1>5. PICK m \in Nat : m + 1 = k /\ m = k - 1
  <2>1. k - 1 \in Nat /\ (k - 1) + 1 = k
    BY <1>3, <1>4
  <2> QED BY <2>1
<1>6. Len(seqs) \in Nat
  OBVIOUS
<1>7. m \in 1 .. Len(seqs) /\ m \in 1 .. Len(seqs) + 1 /\ ~ (k <= m)
  BY <1>3, <1>4, <1>5, <1>6
<1>8. at[m] >= m
  BY <1>2, <1>7
<1>9. at[m+1] = at[m] + Len(seqs[m]) /\ at[m] \in Nat
  BY <1>7 DEF Places
<1>10. Len(seqs[m]) \in Nat /\ Len(seqs[m]) >= 1
  BY <1>7
<1> QED BY <1>3, <1>5, <1>8, <1>9, <1>10

-----------------------------------------------------------------------------
(***************************************************************************)
(* The classes: what ser writes, unser reads.                              *)
(***************************************************************************)
Name ==
  {"m_body_len", "m_cmd_type", "m_version", "m_cmd_id", "m_passwd",
   "m_send_resp_time", "m_recv_req_time", "m_is_caller", "m_call_type", "m_caller",
   "m_caller_appkey", "m_callee", "m_callee_appkey", "m_call_id", "m_session_h",
   "m_session_l", "m_report_addr", "m_dest_rtp_addr", "m_path_info",
   "m_short_link_info", "m_remoteAddrs", "m_user_id", "m_sipproxy_id",
   "m_sipproxy_fake_id", "m_ec", "m_portpair", "m_path_suc", "m_ports",
   "m_rtp_addr", "m_key_addr", "m_rudp_addr"}
Fields(seq) == seq \in Seq(Name)

LEMMA JoinedItems ==
  ASSUME NEW S, NEW s \in Seq(S), NEW t \in Seq(S)
  PROVE  /\ s \o t \in Seq(S) /\ Len(s \o t) = Len(s) + Len(t)
         /\ \A j \in 1 .. Len(s) : (s \o t)[j] = s[j]
         /\ \A j \in 1 .. Len(t) : (s \o t)[Len(s) + j] = t[j]
OBVIOUS

LEMMA RestItems ==
  ASSUME NEW S, NEW s \in Seq(S), NEW z \in Nat, z <= Len(s)
  PROVE  /\ SubSeq(s, z + 1, Len(s)) \in Seq(S)
         /\ Len(SubSeq(s, z + 1, Len(s))) = Len(s) - z
         /\ \A j \in 1 .. Len(s) - z : SubSeq(s, z + 1, Len(s))[j] = s[z+j]
<1>1. PICK n \in Nat : n = Len(s) /\ z <= n
  OBVIOUS
<1>2. PICK y \in Nat : y = z + 1
  OBVIOUS
<1>3. PICK r : r = SubSeq(s, y, n)
  OBVIOUS
<1>4. r \in Seq(S)
  BY <1>1, <1>2, <1>3
<1>5. Len(r) = n - z
  BY <1>1, <1>2, <1>3
<1>6. ASSUME NEW j \in 1 .. n - z PROVE r[j] = s[z+j]
  <2>1. r[j] = s[y + j - 1]
    BY <1>1, <1>2, <1>3
  <2>2. y + j - 1 = z + j
    BY <1>2
  <2> QED BY <2>1, <2>2
<1> QED BY <1>1, <1>2, <1>3, <1>4, <1>5, <1>6

LEMMA JoinedTwice ==
  ASSUME NEW S, NEW s \in Seq(S), NEW t \in Seq(S), NEW u \in Seq(S)
  PROVE  s \o (t \o u) = (s \o t) \o u
OBVIOUS

LEMMA Joined ==
  ASSUME NEW s, NEW t, Fields(s), Fields(t)
  PROVE  Fields(s \o t)
BY DEF Fields

LEMMA HeadOrder ==
  /\ CmdHead.ser = CmdHead.unser
  /\ Fields(CmdHead.ser) /\ Len(CmdHead.ser) = SA_CMD_HEAD_LEN
  /\ CmdHead.ser[1] = "m_body_len" /\ CmdHead.ser[2] = "m_cmd_type"
BY DEF CmdHead, Fields, Name, SA_CMD_HEAD_LEN

LEMMA CallOrder == CallInfoInner.ser = CallInfoInner.unser /\ Fields(CallInfoInner.ser)
BY DEF CallInfoInner, Fields, Name

ReadsAsWritten(class) == Fields(class.ser) /\ class.unser = class.ser

LEMMA PortsOrder ==
  /\ ReadsAsWritten(GetPortsReq) /\ ReadsAsWritten(GetPortsResp)
  /\ ReadsAsWritten(FreePortsReq) /\ ReadsAsWritten(FreePortResp)
<1>1. ReadsAsWritten(GetPortsReq)
  BY DEF ReadsAsWritten, GetPortsReq, Fields, Name
<1>2. ReadsAsWritten(GetPortsResp)
  BY DEF ReadsAsWritten, GetPortsResp, Fields, Name
<1>3. ReadsAsWritten(FreePortsReq)
  BY DEF ReadsAsWritten, FreePortsReq, Fields, Name
<1>4. ReadsAsWritten(FreePortResp)
  BY DEF ReadsAsWritten, FreePortResp, Fields, Name
<1> QED BY <1>1, <1>2, <1>3, <1>4

LEMMA OtherOrder ==
  /\ ReadsAsWritten(SipproxyOfflineReq) /\ ReadsAsWritten(SipproxyOfflineResp)
  /\ ReadsAsWritten(KeepConnetionAlive) /\ ReadsAsWritten(ErrorCallResp)
  /\ ReadsAsWritten(ShakeHandReq) /\ ReadsAsWritten(ShakeHandResp)
<1>1. ReadsAsWritten(SipproxyOfflineReq)
  BY DEF ReadsAsWritten, SipproxyOfflineReq, Fields, Name
<1>2. ReadsAsWritten(SipproxyOfflineResp)
  BY DEF ReadsAsWritten, SipproxyOfflineResp, Fields, Name
<1>3. ReadsAsWritten(KeepConnetionAlive)
  BY DEF ReadsAsWritten, KeepConnetionAlive, Fields, Name
<1>4. ReadsAsWritten(ErrorCallResp)
  BY DEF ReadsAsWritten, ErrorCallResp, Fields, Name
<1>5. ReadsAsWritten(ShakeHandReq)
  BY DEF ReadsAsWritten, ShakeHandReq, Fields, Name
<1>6. ReadsAsWritten(ShakeHandResp)
  BY DEF ReadsAsWritten, ShakeHandResp, Fields, Name
<1> QED BY <1>1, <1>2, <1>3, <1>4, <1>5, <1>6

LEMMA CallsOrder ==
  /\ ReadsAsWritten(StartCallReq) /\ ReadsAsWritten(StartCallResp)
  /\ ReadsAsWritten(BuildPathReq) /\ ReadsAsWritten(BuildPathResp)
  /\ ReadsAsWritten(StopCallReq) /\ ReadsAsWritten(StopCallResp)
<1>1. ReadsAsWritten(StartCallResp)
  BY DEF ReadsAsWritten, StartCallResp, Fields, Name
<1>2. ReadsAsWritten(BuildPathResp)
  BY DEF ReadsAsWritten, BuildPathResp, Fields, Name
<1>3. ReadsAsWritten(StopCallResp)
  BY DEF ReadsAsWritten, StopCallResp, Fields, Name
<1>4. ReadsAsWritten(StartCallReq)
  <2>1. Fields(<<"m_sipproxy_id", "m_sipproxy_fake_id", "m_user_id", "m_portpair">>)
        /\ Fields(<<"m_path_info", "m_short_link_info">>)
    BY DEF Fields, Name
  <2> QED BY <2>1, CallOrder, Joined DEF ReadsAsWritten, StartCallReq
<1>5. ReadsAsWritten(BuildPathReq)
  <2>1. Fields(<<"m_sipproxy_id", "m_sipproxy_fake_id", "m_user_id", "m_ports">>)
        /\ Fields(<<"m_path_info">>)
    BY DEF Fields, Name
  <2> QED BY <2>1, CallOrder, Joined DEF ReadsAsWritten, BuildPathReq
<1>6. ReadsAsWritten(StopCallReq)
  <2>1. Fields(<<"m_sipproxy_id", "m_sipproxy_fake_id", "m_user_id", "m_ports">>)
    BY DEF Fields, Name
  <2> QED BY <2>1, CallOrder, Joined DEF ReadsAsWritten, StopCallReq
<1> QED BY <1>1, <1>2, <1>3, <1>4, <1>5, <1>6

Types ==
  {"RA_GET_PORTS_REQ", "RA_GET_PORTS_RESP", "RA_START_CALL_REQ", "RA_START_CALL_RESP",
   "RA_FREE_PORTS_REQ", "RA_FREE_PORTS_RESP", "RA_STOP_CALL_REQ", "RA_STOP_CALL_RESP",
   "RA_BUILD_PATH_REQ", "RA_BUILD_PATH_RESP", "RA_ERROR_CALL_RESP", "RA_SHAKE_HAND_REQ",
   "RA_SHAKE_HAND_RESP", "RA_SIPPROXY_OFFLINE_REQ", "RA_SIPPROXY_OFFLINE_RESP",
   "RA_KEEP_ALIVE_REQ"}

LEMMA TypesListed ==
  /\ RA_CMD_TYPE \in Seq(Types) /\ Len(RA_CMD_TYPE) = 16
  /\ DOMAIN RA_CMD_TYPE = 1 .. 16
  /\ ToSet(RA_CMD_TYPE) \subseteq Types
<1>1. /\ RA_CMD_TYPE \in Seq(Types) /\ Len(RA_CMD_TYPE) = 16
      /\ DOMAIN RA_CMD_TYPE = 1 .. 16
  BY DEF RA_CMD_TYPE, Types
<1>2. \A i \in 1 .. 16 : RA_CMD_TYPE[i] \in Types
  BY DEF RA_CMD_TYPE, Types
<1> QED BY <1>1, <1>2 DEF ToSet

LEMMA ClassesRead ==
  ASSUME NEW type \in ToSet(RA_CMD_TYPE)
  PROVE  ReadsAsWritten(Class[type])
<1>1. type \in Types
  BY TypesListed
<1>2. CASE type \in {"RA_GET_PORTS_REQ", "RA_GET_PORTS_RESP",
                     "RA_FREE_PORTS_REQ", "RA_FREE_PORTS_RESP"}
  BY <1>2, PortsOrder DEF Class
<1>3. CASE type \in {"RA_START_CALL_REQ", "RA_START_CALL_RESP", "RA_STOP_CALL_REQ",
                     "RA_STOP_CALL_RESP", "RA_BUILD_PATH_REQ", "RA_BUILD_PATH_RESP"}
  BY <1>3, CallsOrder DEF Class
<1>4. CASE type \in {"RA_ERROR_CALL_RESP", "RA_SHAKE_HAND_REQ", "RA_SHAKE_HAND_RESP",
                     "RA_SIPPROXY_OFFLINE_REQ", "RA_SIPPROXY_OFFLINE_RESP",
                     "RA_KEEP_ALIVE_REQ"}
  BY <1>4, OtherOrder DEF Class
<1> QED BY <1>1, <1>2, <1>3, <1>4 DEF Types

-----------------------------------------------------------------------------
(***************************************************************************)
(* A command as items.                                                     *)
(***************************************************************************)
Stored == Item \cup Int
Order(type) == CmdHead.ser \o Class[type].ser
Parts(cmd) == [i \in DOMAIN Order(cmd.m_cmd_type) |-> SerField(cmd, Order(cmd.m_cmd_type)[i])]
\* A command, whatever its length says.
IsCommand(cmd) ==
  /\ cmd.m_cmd_type \in ToSet(RA_CMD_TYPE)
  /\ cmd = [f \in FieldsOf(cmd.m_cmd_type) |-> cmd[f]]
  /\ \A f \in FieldsOf(cmd.m_cmd_type) \ {"m_cmd_type"} :
       cmd[f] \in IF f \in ListFields THEN Seq(Item) ELSE Stored

LEMMA OrderIs ==
  ASSUME NEW type \in ToSet(RA_CMD_TYPE)
  PROVE  /\ Fields(Order(type)) /\ Len(Order(type)) \in Nat
         /\ Len(Order(type)) >= SA_CMD_HEAD_LEN
         /\ DOMAIN Order(type) = 1 .. Len(Order(type))
         /\ Order(type)[1] = "m_body_len" /\ Order(type)[2] = "m_cmd_type"
         /\ CmdHead.unser \o Class[type].unser = Order(type)
         /\ FieldsOf(type) = ToSet(Order(type))
         /\ \A f : f \in FieldsOf(type) <=> \E i \in 1 .. Len(Order(type)) : f = Order(type)[i]
<1>1. ReadsAsWritten(Class[type])
  BY ClassesRead
<1>2. PICK h : h = CmdHead.ser
  OBVIOUS
<1>3. PICK c : c = Class[type].ser
  OBVIOUS
<1>4. h \in Seq(Name) /\ c \in Seq(Name) /\ Len(h) = 7
  BY <1>1, <1>2, <1>3, HeadOrder DEF ReadsAsWritten, Fields, SA_CMD_HEAD_LEN
<1>5. PICK o : o = h \o c
  OBVIOUS
<1>6. o \in Seq(Name) /\ Len(o) = 7 + Len(c) /\ Len(c) \in Nat /\ o[1] = h[1] /\ o[2] = h[2]
  <2>0. Len(c) \in Nat
    BY <1>4
  <2>1. o \in Seq(Name) /\ Len(o) = Len(h) + Len(c)
    BY <1>4, <1>5, JoinedItems
  <2>2. \A i \in 1 .. Len(h) : o[i] = h[i]
    BY <1>4, <1>5, JoinedItems
  <2>3. o[1] = h[1]
    BY <1>4, <2>2
  <2>4. o[2] = h[2]
    BY <1>4, <2>2
  <2> QED BY <1>4, <2>0, <2>1, <2>3, <2>4
<1>7. o = Order(type)
  BY <1>2, <1>3, <1>5 DEF Order
<1>8. CmdHead.unser \o Class[type].unser = o
  BY <1>1, <1>2, <1>3, <1>5, HeadOrder DEF ReadsAsWritten
<1>9. DOMAIN o = 1 .. Len(o)
  BY <1>6
<1>10. Fields(o) /\ Len(o) \in Nat /\ Len(o) >= SA_CMD_HEAD_LEN
  BY <1>6 DEF Fields, SA_CMD_HEAD_LEN
<1>11. FieldsOf(type) = ToSet(o)
  BY <1>7 DEF FieldsOf, Order
<1>12. \A f : f \in ToSet(o) <=> \E i \in 1 .. Len(o) : f = o[i]
  BY <1>9 DEF ToSet
<1> QED BY <1>2, <1>6, <1>7, <1>8, <1>9, <1>10, <1>11, <1>12, HeadOrder

\* The number of a type stands for it.
LEMMA TypeNumber ==
  ASSUME NEW type \in ToSet(RA_CMD_TYPE)
  PROVE  \E i : /\ i = CHOOSE j \in DOMAIN RA_CMD_TYPE : RA_CMD_TYPE[j] = type
                /\ i \in DOMAIN RA_CMD_TYPE /\ i \in Int /\ RA_CMD_TYPE[i] = type
<1>1. \E j \in DOMAIN RA_CMD_TYPE : RA_CMD_TYPE[j] = type
  BY DEF ToSet
<1>2. PICK i : i = CHOOSE j \in DOMAIN RA_CMD_TYPE : RA_CMD_TYPE[j] = type
  OBVIOUS
<1>3. i \in DOMAIN RA_CMD_TYPE /\ RA_CMD_TYPE[i] = type
  BY <1>1, <1>2
<1>4. i \in Int
  BY <1>3, TypesListed
<1> QED BY <1>2, <1>3, <1>4

\* How one field is written.
LEMMA PartIs ==
  ASSUME NEW cmd, IsCommand(cmd), NEW f \in FieldsOf(cmd.m_cmd_type)
  PROVE  /\ SerField(cmd, f) \in Seq(Stored)
         /\ Len(SerField(cmd, f)) = IF f \in ListFields THEN 1 + Len(cmd[f]) ELSE 1
         /\ f \in ListFields => /\ cmd[f] \in Seq(Item) /\ SerField(cmd, f)[1] = Len(cmd[f])
                                /\ \A k \in 1 .. Len(cmd[f]) : SerField(cmd, f)[1+k] = cmd[f][k]
         /\ f = "m_cmd_type" => /\ SerField(cmd, f)[1] \in DOMAIN RA_CMD_TYPE
                                /\ RA_CMD_TYPE[SerField(cmd, f)[1]] = cmd.m_cmd_type
         /\ f \notin ListFields \cup {"m_cmd_type"} => SerField(cmd, f)[1] = cmd[f]
<1>1. CASE f \in ListFields
  <2>1. f # "m_cmd_type"
    BY <1>1 DEF ListFields, PathInfoInner, ShortLinkInfo
  <2>2. PICK l : l = cmd[f] /\ l \in Seq(Item)
    BY <1>1, <2>1 DEF IsCommand
  <2>3. PICK n \in Nat : n = Len(l)
    BY <2>2
  <2>4. l \in Seq(Stored)
    BY <2>2 DEF Stored
  <2>5. PICK one : one = <<n>>
    OBVIOUS
  <2>6. one \in Seq(Stored) /\ Len(one) = 1 /\ one[1] = n
    <3>1. n \in Stored
      BY DEF Stored
    <3> QED BY <2>5, <3>1
  <2>7. PICK s : s = one \o l
    OBVIOUS
  <2>8. s \in Seq(Stored) /\ Len(s) = 1 + n /\ s[1] = n /\ \A k \in 1 .. n : s[1+k] = l[k]
    <3>0. /\ s \in Seq(Stored) /\ Len(s) = Len(one) + Len(l)
          /\ \A j \in 1 .. Len(one) : s[j] = one[j]
          /\ \A j \in 1 .. Len(l) : s[Len(one) + j] = l[j]
      BY <2>4, <2>6, <2>7, JoinedItems
    <3>1. s \in Seq(Stored) /\ Len(s) = 1 + n
      BY <2>3, <2>6, <3>0
    <3>2. s[1] = n
      <4>1. 1 \in 1 .. Len(one)
        BY <2>6
      <4> QED BY <2>6, <3>0, <4>1
    <3>3. ASSUME NEW k \in 1 .. n PROVE s[1+k] = l[k]
      <4>1. k \in 1 .. Len(l) /\ k \in Nat
        BY <2>3
      <4>2. s[Len(one) + k] = l[k]
        BY <3>0, <4>1
      <4> QED BY <2>6, <4>2
    <3> QED BY <3>1, <3>2, <3>3
  <2>9. SerField(cmd, f) = s
    BY <1>1, <2>2, <2>3, <2>5, <2>7 DEF SerField
  <2> QED BY <1>1, <2>1, <2>2, <2>3, <2>8, <2>9
<1>2. CASE f = "m_cmd_type"
  <2>1. f \notin ListFields
    BY <1>2 DEF ListFields, PathInfoInner, ShortLinkInfo
  <2>2. cmd.m_cmd_type \in ToSet(RA_CMD_TYPE)
    BY DEF IsCommand
  <2>3. PICK i : /\ i = CHOOSE j \in DOMAIN RA_CMD_TYPE : RA_CMD_TYPE[j] = cmd.m_cmd_type
                 /\ i \in DOMAIN RA_CMD_TYPE /\ i \in Int /\ RA_CMD_TYPE[i] = cmd.m_cmd_type
    BY <2>2, TypeNumber
  <2>4. SerField(cmd, f) = <<CHOOSE j \in DOMAIN RA_CMD_TYPE : RA_CMD_TYPE[j] = cmd[f]>>
    BY <1>2, <2>1 DEF SerField
  <2>5. cmd[f] = cmd.m_cmd_type
    BY <1>2
  <2>6. PICK s : s = <<i>> /\ s = SerField(cmd, f)
    BY <2>3, <2>4, <2>5
  <2>7. i \in Stored
    BY <2>3 DEF Stored
  <2>8. s \in Seq(Stored) /\ Len(s) = 1 /\ s[1] = i
    BY <2>6, <2>7
  <2> QED BY <1>2, <2>1, <2>3, <2>6, <2>8
<1>3. CASE f \notin ListFields \cup {"m_cmd_type"}
  <2>1. cmd[f] \in Stored
    BY <1>3 DEF IsCommand
  <2>2. SerField(cmd, f) = <<cmd[f]>>
    BY <1>3 DEF SerField
  <2> QED BY <1>3, <2>1, <2>2
<1> QED BY <1>1, <1>2, <1>3

PartLen(cmd, f) == IF f \in ListFields THEN 1 + Len(cmd[f]) ELSE 1

LEMMA PartLength ==
  ASSUME NEW cmd, IsCommand(cmd), NEW f \in FieldsOf(cmd.m_cmd_type)
  PROVE  Len(SerField(cmd, f)) = PartLen(cmd, f)
BY PartIs DEF PartLen

LEMMA PartsAre ==
  ASSUME NEW cmd, IsCommand(cmd)
  PROVE  /\ Parts(cmd) \in Seq(Seq(Stored))
         /\ Len(Parts(cmd)) = Len(Order(cmd.m_cmd_type)) /\ Len(Parts(cmd)) # 0
         /\ \A i \in 1 .. Len(Parts(cmd)) :
              /\ Order(cmd.m_cmd_type)[i] \in FieldsOf(cmd.m_cmd_type)
              /\ Parts(cmd)[i] = SerField(cmd, Order(cmd.m_cmd_type)[i])
              /\ Len(Parts(cmd)[i]) >= 1
<1>1. PICK o : o = Order(cmd.m_cmd_type)
  OBVIOUS
<1>2. cmd.m_cmd_type \in ToSet(RA_CMD_TYPE)
  BY DEF IsCommand
<1>3. /\ Len(o) \in Nat /\ Len(o) >= SA_CMD_HEAD_LEN /\ DOMAIN o = 1 .. Len(o)
      /\ \A i \in 1 .. Len(o) : o[i] \in FieldsOf(cmd.m_cmd_type)
  BY <1>1, <1>2, OrderIs
<1>4. \A i \in 1 .. Len(o) : SerField(cmd, o[i]) \in Seq(Stored) /\ Len(SerField(cmd, o[i])) >= 1
  <2> TAKE i \in 1 .. Len(o)
  <2>1. o[i] \in FieldsOf(cmd.m_cmd_type)
    BY <1>3
  <2>2. PICK f : f = o[i] /\ f \in FieldsOf(cmd.m_cmd_type)
    BY <2>1
  <2>3. SerField(cmd, f) \in Seq(Stored)
    BY <2>2, PartIs
  <2>4. /\ Len(SerField(cmd, f)) = IF f \in ListFields THEN 1 + Len(cmd[f]) ELSE 1
        /\ f \in ListFields => cmd[f] \in Seq(Item)
    <3>1. f \in FieldsOf(cmd.m_cmd_type)
      BY <2>2
    <3> QED BY <3>1, PartIs, Zenon
  <2>5. f \in ListFields => cmd[f] \in Seq(Item)
    BY <2>4
  <2>6. f \in ListFields => Len(cmd[f]) \in Nat
    BY <2>5
  <2>7. Len(SerField(cmd, f)) >= 1
    BY <2>4, <2>6
  <2> QED BY <2>2, <2>3, <2>7
<1>5. PICK p : p = Parts(cmd)
  OBVIOUS
<1>6. p = [i \in 1 .. Len(o) |-> SerField(cmd, o[i])]
  BY <1>1, <1>3, <1>5 DEF Parts
<1>7. p \in [1 .. Len(o) -> Seq(Stored)]
  BY <1>4, <1>6
<1>8. p \in Seq(Seq(Stored)) /\ Len(p) = Len(o)
  BY <1>3, <1>7
<1>9. Len(p) # 0
  BY <1>3, <1>8 DEF SA_CMD_HEAD_LEN
<1>10. \A i \in 1 .. Len(p) : /\ o[i] \in FieldsOf(cmd.m_cmd_type)
                              /\ p[i] = SerField(cmd, o[i]) /\ Len(p[i]) >= 1
  BY <1>3, <1>4, <1>6, <1>8
<1> QED BY <1>1, <1>5, <1>8, <1>9, <1>10

\* Where unser finds the fields: each starts where the one before it ends.
Follow(at, items, order, n) ==
  /\ at \in [1 .. n + 1 -> Nat] /\ at[1] = 1
  /\ \A i \in 1 .. n : at[i+1] = IF order[i] \notin ListFields THEN at[i] + 1
                                 ELSE at[i] + 1 + items[at[i]]

LEMMA StartsAre ==
  ASSUME NEW items, NEW order, NEW n \in Nat, Len(order) = n,
         NEW at, Follow(at, items, order, n)
  PROVE  \A i \in 1 .. n + 1 : Starts(items, order)[i] = at[i]
<1> DEFINE Rule(f) == f = [i \in 1 .. Len(order) + 1 |->
                            IF i = 1 THEN 1
                            ELSE IF order[i-1] \notin ListFields THEN f[i-1] + 1
                            ELSE f[i-1] + 1 + items[f[i-1]]]
<1>1. Starts(items, order) = CHOOSE f : Rule(f)
  BY DEF Starts
<1>2. Rule(at)
  <2> USE DEF Follow
  <2>1. \A i \in 1 .. n + 1 :
          at[i] = IF i = 1 THEN 1
                  ELSE IF order[i-1] \notin ListFields THEN at[i-1] + 1
                  ELSE at[i-1] + 1 + items[at[i-1]]
    <3> TAKE i \in 1 .. n + 1
    <3>1. CASE i = 1
      BY <3>1
    <3>2. CASE i # 1
      <4>1. i - 1 \in 1 .. n /\ (i - 1) + 1 = i
        BY <3>2
      <4> QED BY <3>2, <4>1
    <3> QED BY <3>1, <3>2
  <2> QED BY <2>1
<1>3. PICK s : s = Starts(items, order) /\ Rule(s)
  <2> HIDE DEF Rule
  <2> QED BY <1>1, <1>2
<1>4. \A i \in 1 .. n + 1 :
        s[i] = IF i = 1 THEN 1
               ELSE IF order[i-1] \notin ListFields THEN s[i-1] + 1
               ELSE s[i-1] + 1 + items[s[i-1]]
  BY <1>3
<1> DEFINE T == {k \in Nat : k \in 1 .. n + 1 /\ s[k] # at[k]}
<1>5. SUFFICES ASSUME T # {} PROVE FALSE
  <2>1. \A i \in 1 .. n + 1 : i \in Nat
    OBVIOUS
  <2>2. T = {} => \A i \in 1 .. n + 1 : s[i] = at[i]
    BY <2>1
  <2> HIDE DEF T
  <2> QED BY <1>3, <2>2
<1>6. PICK k \in T : \A j \in T : k <= j
  BY <1>5, LeastNumber
<1>7. k \in Nat /\ k \in 1 .. n + 1 /\ s[k] # at[k]
  OBVIOUS
<1> HIDE DEF Rule
<1>8. k # 1
  BY <1>4, <1>7 DEF Follow
<1>9. /\ k - 1 \in Nat /\ k - 1 \in 1 .. n /\ ~ (k <= k - 1) /\ (k - 1) + 1 = k
      /\ k - 1 \in 1 .. n + 1
  BY <1>7, <1>8
<1>10. s[k-1] = at[k-1]
  BY <1>6, <1>9
<1>11. s[k] = IF order[k-1] \notin ListFields THEN s[k-1] + 1
              ELSE s[k-1] + 1 + items[s[k-1]]
  BY <1>4, <1>7, <1>8
<1>12. at[k] = IF order[k-1] \notin ListFields THEN at[k-1] + 1
               ELSE at[k-1] + 1 + items[at[k-1]]
  <2>1. at[(k-1)+1] = IF order[k-1] \notin ListFields THEN at[k-1] + 1
                      ELSE at[k-1] + 1 + items[at[k-1]]
    BY <1>9 DEF Follow
  <2> QED BY <1>9, <2>1
<1> QED BY <1>7, <1>10, <1>11, <1>12

\* The items of cmd.
HoldsCmd(items, at, cmd) ==
  /\ Places(at, Parts(cmd)) /\ items \in Seq(Stored)
  /\ Holds(items, at, Parts(cmd), Len(Parts(cmd)))

\* The head, or the whole, of the fields of a class.
IsStartOf(order, type) ==
  /\ Len(order) \in Nat /\ Len(order) <= Len(Order(type))
  /\ DOMAIN order = 1 .. Len(order)
  /\ \A i \in 1 .. Len(order) : order[i] = Order(type)[i]

Found(cmd, items, at, i, f) ==
  /\ f \in FieldsOf(cmd.m_cmd_type)
  /\ at[i] \in Nat /\ at[i] >= 1 /\ at[i+1] = at[i] + Len(SerField(cmd, f))
  /\ at[i+1] <= Len(items) + 1
  /\ \A k \in 1 .. Len(SerField(cmd, f)) : items[at[i] + k - 1] = SerField(cmd, f)[k]
  /\ items[at[i]] = SerField(cmd, f)[1]

LEMMA PartAt ==
  ASSUME NEW cmd, IsCommand(cmd), NEW items, NEW at, HoldsCmd(items, at, cmd),
         NEW i \in 1 .. Len(Order(cmd.m_cmd_type)), NEW f, f = Order(cmd.m_cmd_type)[i]
  PROVE  Found(cmd, items, at, i, f)
<1>1. PICK p : p = Parts(cmd)
  OBVIOUS
<1>2. p \in Seq(Seq(Stored)) /\ Len(p) = Len(Order(cmd.m_cmd_type))
  BY <1>1, PartsAre
<1>3. PICK n \in Nat : n = Len(p)
  BY <1>2
<1>4. i \in 1 .. n
  BY <1>2, <1>3
<1>5. f \in FieldsOf(cmd.m_cmd_type) /\ p[i] = SerField(cmd, f) /\ Len(p[i]) >= 1
  BY <1>1, <1>3, <1>4, PartsAre
<1>6. Places(at, p) /\ Holds(items, at, p, n)
  BY <1>1, <1>3 DEF HoldsCmd
<1>7. i \in 1 .. n + 1 /\ 1 \in 1 .. n + 1 /\ i + 1 \in 1 .. n + 1 /\ n + 1 \in 1 .. n + 1
      /\ 1 \in 1 .. i /\ i + 1 \in 1 .. n + 1
  BY <1>4
<1>8. at[i] \in Nat /\ at[1] = 1 /\ at[i+1] = at[i] + Len(p[i])
  BY <1>3, <1>4, <1>6, <1>7 DEF Places
<1>9. at[1] <= at[i]
  BY <1>2, <1>3, <1>6, <1>7, PlacesGrow
<1>10. at[i+1] <= at[n+1] /\ at[n+1] \in Nat
  <2>1. at[i+1] <= at[n+1]
    BY <1>2, <1>3, <1>6, <1>7, PlacesGrow
  <2>2. at[n+1] \in Nat
    BY <1>3, <1>6, <1>7 DEF Places
  <2> QED BY <2>1, <2>2
<1>11. Len(items) = at[n+1] - 1
  BY <1>6 DEF Holds
<1>12. \A k \in 1 .. Len(p[i]) : items[at[i] + k - 1] = p[i][k]
  BY <1>4, <1>6 DEF Holds
<1>13. items[at[i]] = p[i][1]
  <2>1. Len(p[i]) \in Nat
    BY <1>2, <1>3, <1>4
  <2>2. 1 \in 1 .. Len(p[i])
    BY <1>5, <2>1
  <2>3. items[at[i] + 1 - 1] = p[i][1]
    BY <1>12, <2>2
  <2>4. at[i] + 1 - 1 = at[i]
    BY <1>8
  <2> QED BY <2>3, <2>4
<1>14. at[i+1] <= Len(items) + 1
  BY <1>10, <1>11
<1>15. at[i] >= 1
  BY <1>8, <1>9
<1> QED BY <1>5, <1>8, <1>12, <1>13, <1>14, <1>15 DEF Found

LEMMA StartsAreThere ==
  ASSUME NEW cmd, IsCommand(cmd), NEW items, NEW at, HoldsCmd(items, at, cmd),
         NEW order, IsStartOf(order, cmd.m_cmd_type)
  PROVE  \A i \in 1 .. Len(order) + 1 : Starts(items, order)[i] = at[i]
<1>1. PICK n \in Nat : n = Len(order)
  BY DEF IsStartOf
<1>2. PICK N \in Nat : N = Len(Order(cmd.m_cmd_type)) /\ N = Len(Parts(cmd)) /\ n <= N
  <2>1. Len(Order(cmd.m_cmd_type)) \in Nat
    BY OrderIs DEF IsCommand
  <2>2. Len(Order(cmd.m_cmd_type)) = Len(Parts(cmd))
    BY PartsAre
  <2> QED BY <1>1, <2>1, <2>2 DEF IsStartOf
<1>3. PICK b : b = [i \in 1 .. n + 1 |-> at[i]]
  OBVIOUS
<1>4. at \in [1 .. N + 1 -> Nat] /\ at[1] = 1
  BY <1>2 DEF HoldsCmd, Places
<1>5. b \in [1 .. n + 1 -> Nat] /\ b[1] = 1 /\ \A i \in 1 .. n + 1 : b[i] = at[i]
  BY <1>2, <1>3, <1>4
<1>6. ASSUME NEW i \in 1 .. n
      PROVE  b[i+1] = IF order[i] \notin ListFields THEN b[i] + 1
                      ELSE b[i] + 1 + items[b[i]]
  <2>1. i \in 1 .. N /\ i \in 1 .. n + 1 /\ i + 1 \in 1 .. n + 1
    BY <1>2
  <2>2. PICK f : f = Order(cmd.m_cmd_type)[i] /\ f = order[i]
    BY <1>1 DEF IsStartOf
  <2>3. /\ f \in FieldsOf(cmd.m_cmd_type) /\ at[i] \in Nat
        /\ at[i+1] = at[i] + Len(SerField(cmd, f)) /\ items[at[i]] = SerField(cmd, f)[1]
    <3>1. i \in 1 .. Len(Order(cmd.m_cmd_type))
      BY <1>2, <2>1
    <3>2. f = Order(cmd.m_cmd_type)[i]
      BY <2>2
    <3>3. Found(cmd, items, at, i, f)
      BY <3>1, <3>2, PartAt
    <3> QED BY <3>3 DEF Found
  <2>4. CASE f \in ListFields
    <3>1. /\ Len(SerField(cmd, f)) = 1 + Len(cmd[f]) /\ cmd[f] \in Seq(Item)
          /\ SerField(cmd, f)[1] = Len(cmd[f])
      BY <2>3, <2>4, PartIs
    <3>2. Len(cmd[f]) \in Nat
      BY <3>1
    <3>3. at[i+1] = at[i] + 1 + items[at[i]]
      BY <2>3, <3>1, <3>2
    <3> QED BY <1>5, <2>1, <2>2, <2>4, <3>3
  <2>5. CASE f \notin ListFields
    <3>1. Len(SerField(cmd, f)) = 1
      BY <2>3, <2>5, PartIs
    <3>2. at[i+1] = at[i] + 1
      BY <2>3, <3>1
    <3> QED BY <1>5, <2>1, <2>2, <2>5, <3>2
  <2> QED BY <2>4, <2>5
<1>7. \A i \in 1 .. n + 1 : Starts(items, order)[i] = b[i]
  <2>1. Follow(b, items, order, n)
    BY <1>5, <1>6 DEF Follow
  <2> QED BY <1>1, <2>1, StartsAre
<1> QED BY <1>1, <1>5, <1>7

LEMMA SameItems ==
  ASSUME NEW S, NEW s \in Seq(S), NEW R, NEW t \in Seq(R), Len(s) = Len(t),
         \A k \in 1 .. Len(s) : s[k] = t[k]
  PROVE  s = t
OBVIOUS

\* What unser reads of a list is what was written.
LEMMA ListRead ==
  ASSUME NEW cmd, IsCommand(cmd), NEW items, NEW at, HoldsCmd(items, at, cmd),
         NEW i \in 1 .. Len(Order(cmd.m_cmd_type)), NEW f, f = Order(cmd.m_cmd_type)[i],
         f \in ListFields
  PROVE  SubSeq(items, at[i] + 1, at[i+1] - 1) = cmd[f]
<1>1. /\ f \in FieldsOf(cmd.m_cmd_type) /\ at[i] \in Nat /\ at[i] >= 1
      /\ at[i+1] = at[i] + Len(SerField(cmd, f)) /\ at[i+1] <= Len(items) + 1
      /\ \A k \in 1 .. Len(SerField(cmd, f)) : items[at[i] + k - 1] = SerField(cmd, f)[k]
  <2>1. Found(cmd, items, at, i, f)
    BY PartAt
  <2> QED BY <2>1 DEF Found
<1>2. /\ Len(SerField(cmd, f)) = 1 + Len(cmd[f]) /\ cmd[f] \in Seq(Item)
      /\ \A k \in 1 .. Len(cmd[f]) : SerField(cmd, f)[1+k] = cmd[f][k]
  BY <1>1, PartIs
<1>3. PICK l : l = cmd[f] /\ l \in Seq(Item)
  BY <1>2
<1>4. PICK n \in Nat : n = Len(l)
  BY <1>3
<1>5. PICK p \in Nat : p = at[i]
  BY <1>1
<1>50. PICK r : r = at[i+1]
  OBVIOUS
<1>51. r = p + (1 + n)
  BY <1>1, <1>2, <1>3, <1>4, <1>5, <1>50
<1>6. at[i+1] - 1 = p + n /\ p >= 1
  <2>1. r - 1 = p + n
    BY <1>51
  <2> QED BY <1>1, <1>5, <1>50, <2>1
<1>7. items \in Seq(Stored) /\ p + n <= Len(items)
  <2>1. items \in Seq(Stored)
    BY DEF HoldsCmd
  <2>2. Len(items) \in Nat
    BY <2>1
  <2>3. r = p + n + 1
    BY <1>51
  <2>4. r <= Len(items) + 1
    BY <1>1, <1>50
  <2> QED BY <2>1, <2>2, <2>3, <2>4
<1>8. PICK s : s = SubSeq(items, p + 1, p + n)
  OBVIOUS
<1>9. s \in Seq(Stored) /\ Len(s) = n
  BY <1>6, <1>7, <1>8
<1>10. ASSUME NEW k \in 1 .. n PROVE s[k] = l[k]
  <2>1. s[k] = items[p + 1 + k - 1]
    BY <1>6, <1>7, <1>8
  <2>2. k + 1 \in 1 .. Len(SerField(cmd, f)) /\ k \in Nat
    BY <1>2, <1>3, <1>4
  <2>3. items[p + (k + 1) - 1] = SerField(cmd, f)[k+1]
    BY <1>1, <1>5, <2>2
  <2>4. SerField(cmd, f)[1+k] = l[k] /\ 1 + k = k + 1 /\ p + (k + 1) - 1 = p + 1 + k - 1
    BY <1>2, <1>3, <1>4, <2>2
  <2> QED BY <2>1, <2>3, <2>4
<1>11. s = l
  BY <1>3, <1>4, <1>9, <1>10, SameItems
<1> QED BY <1>3, <1>5, <1>6, <1>8, <1>11

\* unser, of the head or of all fields: the command as it was.
LEMMA FieldsRead ==
  ASSUME NEW cmd, IsCommand(cmd), NEW items, NEW at, HoldsCmd(items, at, cmd),
         NEW order, IsStartOf(order, cmd.m_cmd_type)
  PROVE  UnserFields(items, order) = [f \in ToSet(order) |-> cmd[f]]
<1>1. PICK start : start = Starts(items, order)
  OBVIOUS
<1>2. \A i \in 1 .. Len(order) + 1 : start[i] = at[i]
  BY <1>1, StartsAreThere
<1> DEFINE Value(i) == IF order[i] \in ListFields
                         THEN SubSeq(items, start[i] + 1, start[i + 1] - 1)
                       ELSE IF order[i] = "m_cmd_type" THEN RA_CMD_TYPE[items[start[i]]]
                       ELSE items[start[i]]
<1>3. UnserFields(items, order)
        = [f \in ToSet(order) |-> Value(CHOOSE i \in DOMAIN order : order[i] = f)]
  BY <1>1 DEF UnserFields
<1>4. ASSUME NEW i \in DOMAIN order
      PROVE  Value(i) = cmd[order[i]]
  <2>1. i \in 1 .. Len(order) /\ i \in 1 .. Len(Order(cmd.m_cmd_type)) /\ Len(order) \in Nat
    <3>1. Len(Order(cmd.m_cmd_type)) \in Nat
      BY OrderIs DEF IsCommand
    <3> QED BY <3>1 DEF IsStartOf
  <2>2. PICK f : f = order[i] /\ f = Order(cmd.m_cmd_type)[i]
    BY <2>1 DEF IsStartOf
  <2>3. start[i] = at[i] /\ start[i+1] = at[i+1]
    <3>1. i \in 1 .. Len(order) + 1 /\ i + 1 \in 1 .. Len(order) + 1
      BY <2>1
    <3> QED BY <1>2, <3>1
  <2>4. f \in FieldsOf(cmd.m_cmd_type) /\ items[at[i]] = SerField(cmd, f)[1]
    <3>1. Found(cmd, items, at, i, f)
      BY <2>1, <2>2, PartAt
    <3> QED BY <3>1 DEF Found
  <2>5. CASE f \in ListFields
    <3>1. SubSeq(items, at[i] + 1, at[i+1] - 1) = cmd[f]
      BY <2>1, <2>2, <2>5, ListRead
    <3> QED BY <2>2, <2>3, <2>5, <3>1
  <2>6. CASE f = "m_cmd_type"
    <3>1. f \notin ListFields
      BY <2>6 DEF ListFields, PathInfoInner, ShortLinkInfo
    <3>2. RA_CMD_TYPE[SerField(cmd, f)[1]] = cmd.m_cmd_type
      BY <2>4, <2>6, PartIs
    <3> QED BY <2>2, <2>3, <2>4, <2>6, <3>1, <3>2
  <2>7. CASE f \notin ListFields \cup {"m_cmd_type"}
    <3>1. SerField(cmd, f)[1] = cmd[f]
      BY <2>4, <2>7, PartIs
    <3> QED BY <2>2, <2>3, <2>4, <2>7, <3>1
  <2> QED BY <2>5, <2>6, <2>7
<1> HIDE DEF Value
<1>5. ASSUME NEW f \in ToSet(order)
      PROVE  Value(CHOOSE i \in DOMAIN order : order[i] = f) = cmd[f]
  <2>1. \E i \in DOMAIN order : order[i] = f
    BY DEF ToSet
  <2>2. PICK i : i = CHOOSE j \in DOMAIN order : order[j] = f
    OBVIOUS
  <2>3. i \in DOMAIN order /\ order[i] = f
    BY <2>1, <2>2
  <2>4. Value(i) = cmd[f]
    BY <1>4, <2>3
  <2> QED BY <2>2, <2>4
<1> QED BY <1>3, <1>5

-----------------------------------------------------------------------------
(***************************************************************************)
(* A command written: what arrives of it is the command.                   *)
(***************************************************************************)
LEMMA CmdIsCommand ==
  ASSUME NEW cmd \in Cmd
  PROVE  IsCommand(cmd)
<1>1. /\ cmd.m_cmd_type \in ToSet(RA_CMD_TYPE)
      /\ cmd = [f \in FieldsOf(cmd.m_cmd_type) |-> cmd[f]]
      /\ \A f \in FieldsOf(cmd.m_cmd_type) \ {"m_cmd_type"} :
           cmd[f] \in IF f \in ListFields THEN Seq(Item) ELSE Item
  BY CmdAssumption
<1> QED BY <1>1 DEF IsCommand, Stored

\* The items of a command, wherever its fields are put.
LEMMA SerFieldsIs ==
  ASSUME NEW cmd, IsCommand(cmd)
  PROVE  \E at : HoldsCmd(SerFields(cmd), at, cmd)
<1>1. Parts(cmd) \in Seq(Seq(Stored)) /\ Len(Parts(cmd)) # 0
  BY PartsAre
<1>2. PICK at : Places(at, Parts(cmd))
  BY <1>1, PlacesExist
<1>3. SerFields(cmd) = FlattenSeq(Parts(cmd))
  BY DEF SerFields, Parts, Order
<1>4. SerFields(cmd) \in Seq(Stored) /\ Holds(SerFields(cmd), at, Parts(cmd), Len(Parts(cmd)))
  BY <1>1, <1>2, <1>3, FlattenPlaces
<1> QED BY <1>2, <1>4 DEF HoldsCmd

\* A command has its head.
LEMMA LongEnough ==
  ASSUME NEW cmd, IsCommand(cmd), NEW items, NEW at, HoldsCmd(items, at, cmd)
  PROVE  /\ Len(items) \in Nat /\ Len(items) >= SA_CMD_HEAD_LEN
         /\ Len(items) = at[Len(Order(cmd.m_cmd_type)) + 1] - 1
<1>1. PICK p : p = Parts(cmd)
  OBVIOUS
<1>2. /\ p \in Seq(Seq(Stored)) /\ Len(p) = Len(Order(cmd.m_cmd_type))
      /\ \A i \in 1 .. Len(p) : Len(p[i]) >= 1
  BY <1>1, PartsAre
<1>3. PICK n \in Nat : n = Len(p)
  BY <1>2
<1>4. n >= SA_CMD_HEAD_LEN
  BY <1>2, <1>3, OrderIs DEF IsCommand
<1>5. Places(at, p) /\ Len(items) = at[n+1] - 1 /\ items \in Seq(Stored)
  BY <1>1, <1>3 DEF HoldsCmd, Holds
<1>6. at[n+1] >= n + 1
  <2>1. n + 1 \in 1 .. Len(p) + 1
    BY <1>3
  <2> QED BY <1>2, <1>5, <2>1, PlacesApart
<1>7. at[n+1] \in Nat
  BY <1>3, <1>5 DEF Places
<1>8. PICK m \in Nat : m = at[n+1]
  BY <1>7
<1>9. Len(items) = m - 1 /\ m >= n + 1 /\ n >= 7
  BY <1>4, <1>5, <1>6, <1>8 DEF SA_CMD_HEAD_LEN
<1>10. Len(items) \in Nat /\ Len(items) >= SA_CMD_HEAD_LEN
  BY <1>9 DEF SA_CMD_HEAD_LEN
<1>11. Len(items) = at[Len(Order(cmd.m_cmd_type)) + 1] - 1
  BY <1>2, <1>3, <1>5
<1> QED BY <1>10, <1>11

\* set_body_len leaves a command of the same class, of the same length.
LEMMA LengthSet ==
  ASSUME NEW cmd, IsCommand(cmd), NEW n \in Int, NEW w, w = [cmd EXCEPT !.m_body_len = n]
  PROVE  /\ IsCommand(w) /\ w.m_cmd_type = cmd.m_cmd_type /\ w.m_body_len = n
         /\ Len(SerFields(w)) = Len(SerFields(cmd))
<1>1. PICK type : type = cmd.m_cmd_type
  OBVIOUS
<1>2. PICK o : o = Order(type)
  OBVIOUS
<1>3. /\ type \in ToSet(RA_CMD_TYPE) /\ cmd = [f \in FieldsOf(type) |-> cmd[f]]
      /\ \A f \in FieldsOf(type) \ {"m_cmd_type"} :
           cmd[f] \in IF f \in ListFields THEN Seq(Item) ELSE Stored
  BY <1>1 DEF IsCommand
<1>4. /\ Len(o) \in Nat /\ Len(o) >= 7 /\ DOMAIN o = 1 .. Len(o) /\ o[1] = "m_body_len"
      /\ \A f : f \in FieldsOf(type) <=> \E i \in 1 .. Len(o) : f = o[i]
  BY <1>2, <1>3, OrderIs DEF SA_CMD_HEAD_LEN
<1>5. "m_body_len" \in FieldsOf(type) /\ "m_body_len" \notin ListFields
  <2>1. 1 \in 1 .. Len(o)
    BY <1>4
  <2>2. o[1] \in FieldsOf(type)
    BY <1>4, <2>1
  <2> QED BY <1>4, <2>2 DEF ListFields, PathInfoInner, ShortLinkInfo
<1>6. DOMAIN cmd = FieldsOf(type)
  BY <1>3
<1>7. /\ DOMAIN w = FieldsOf(type) /\ w = [f \in FieldsOf(type) |-> w[f]]
      /\ w["m_body_len"] = n
      /\ \A f \in FieldsOf(type) : f # "m_body_len" => w[f] = cmd[f]
  BY <1>3, <1>5, <1>6
<1>8. w.m_body_len = n
  BY <1>7
<1>9. w.m_cmd_type = type
  <2>0. o[2] = "m_cmd_type"
    BY <1>2, <1>3, OrderIs
  <2>1. o[2] = "m_cmd_type" /\ 2 \in 1 .. Len(o)
    BY <1>4, <2>0
  <2>2. "m_cmd_type" \in FieldsOf(type)
    BY <1>4, <2>1
  <2> QED BY <1>1, <1>7, <2>2
<1>10. IsCommand(w)
  <2>1. ASSUME NEW f \in FieldsOf(type) \ {"m_cmd_type"}
        PROVE  w[f] \in IF f \in ListFields THEN Seq(Item) ELSE Stored
    <3>1. CASE f = "m_body_len"
      <4>1. n \in Stored
        BY DEF Stored
      <4> QED BY <1>5, <1>7, <3>1, <4>1
    <3>2. CASE f # "m_body_len"
      BY <1>3, <1>7, <3>2
    <3> QED BY <3>1, <3>2
  <2> QED BY <1>3, <1>7, <1>9, <2>1 DEF IsCommand
<1>11. Len(SerFields(w)) = Len(SerFields(cmd))
  <2>1. PICK a : HoldsCmd(SerFields(cmd), a, cmd)
    BY SerFieldsIs
  <2>2. PICK b : HoldsCmd(SerFields(w), b, w)
    BY <1>10, SerFieldsIs
  <2>3. PICK p : p = Parts(cmd)
    OBVIOUS
  <2>4. PICK q : q = Parts(w)
    OBVIOUS
  <2>5. /\ Len(p) = Len(o) /\ Len(q) = Len(o)
        /\ \A i \in 1 .. Len(o) : /\ o[i] \in FieldsOf(type)
                                  /\ p[i] = SerField(cmd, o[i]) /\ q[i] = SerField(w, o[i])
    <3>1. /\ Len(p) = Len(o)
          /\ \A i \in 1 .. Len(o) : o[i] \in FieldsOf(type) /\ p[i] = SerField(cmd, o[i])
      BY <1>1, <1>2, <2>3, PartsAre
    <3>2. Len(q) = Len(o) /\ \A i \in 1 .. Len(o) : q[i] = SerField(w, o[i])
      BY <1>2, <1>9, <1>10, <2>4, PartsAre
    <3> QED BY <3>1, <3>2
  <2>6. ASSUME NEW i \in 1 .. Len(o)
        PROVE  Len(q[i]) = Len(p[i])
    <3>1. PICK f : f = o[i] /\ f \in FieldsOf(type)
      BY <2>5
    <3>2. Len(SerField(cmd, f)) = PartLen(cmd, f)
      BY <1>1, <3>1, PartLength
    <3>3. Len(SerField(w, f)) = PartLen(w, f)
      BY <1>9, <1>10, <3>1, PartLength
    <3>4. f \in ListFields => w[f] = cmd[f]
      BY <1>5, <1>7, <3>1
    <3>5. Len(SerField(w, f)) = Len(SerField(cmd, f))
      BY <3>2, <3>3, <3>4 DEF PartLen
    <3> QED BY <2>5, <3>1, <3>5
  <2>7. Places(a, p) /\ Places(b, q)
    BY <2>1, <2>2, <2>3, <2>4 DEF HoldsCmd
  <2>8. \A i \in 1 .. Len(o) + 1 : a[i] = b[i]
    <3>1. Len(p) \in Nat /\ Len(q) = Len(p) /\ \A i \in 1 .. Len(p) : Len(q[i]) = Len(p[i])
      BY <1>4, <2>5, <2>6
    <3>2. \A i \in 1 .. Len(p) + 1 : a[i] = b[i]
      BY <2>7, <3>1, PlacesUnique
    <3> QED BY <2>5, <3>2
  <2>9. Len(o) + 1 \in 1 .. Len(o) + 1
    BY <1>4
  <2>10. Len(SerFields(cmd)) = a[Len(o)+1] - 1
    BY <1>1, <1>2, <2>1, LongEnough
  <2>11. Len(SerFields(w)) = b[Len(o)+1] - 1
    BY <1>2, <1>9, <1>10, <2>2, LongEnough
  <2> QED BY <2>8, <2>9, <2>10, <2>11
<1> QED BY <1>1, <1>8, <1>9, <1>10, <1>11

LEMMA FirstItem ==
  ASSUME NEW cmd, IsCommand(cmd), NEW items, NEW at, HoldsCmd(items, at, cmd)
  PROVE  items[1] = cmd.m_body_len /\ items[2] \in DOMAIN RA_CMD_TYPE
<1>1. PICK type : type = cmd.m_cmd_type /\ type \in ToSet(RA_CMD_TYPE)
  BY DEF IsCommand
<1>2. PICK o : o = Order(type)
  OBVIOUS
<1>3. Len(o) \in Nat /\ Len(o) >= 7 /\ o[1] = "m_body_len"
  BY <1>1, <1>2, OrderIs DEF SA_CMD_HEAD_LEN
<1>4. o[2] = "m_cmd_type"
  BY <1>1, <1>2, OrderIs
<1>5. 1 \in 1 .. Len(o) /\ 2 \in 1 .. Len(o)
  BY <1>3
<1>6. Found(cmd, items, at, 1, "m_body_len")
  BY <1>1, <1>2, <1>3, <1>5, PartAt
<1>7. Found(cmd, items, at, 2, "m_cmd_type")
  BY <1>1, <1>2, <1>4, <1>5, PartAt
<1>8. at[1] = 1
  BY DEF HoldsCmd, Places
<1>9. "m_body_len" \notin ListFields
  BY DEF ListFields, PathInfoInner, ShortLinkInfo
<1>10. "m_body_len" \in FieldsOf(cmd.m_cmd_type) /\ "m_cmd_type" \in FieldsOf(cmd.m_cmd_type)
  BY <1>6, <1>7 DEF Found
<1>11. SerField(cmd, "m_body_len")[1] = cmd["m_body_len"]
  BY <1>9, <1>10, PartIs
<1>12. items[1] = cmd.m_body_len
  BY <1>6, <1>8, <1>11 DEF Found
<1>13. at[2] = 2
  <2>1. Len(SerField(cmd, "m_body_len")) = PartLen(cmd, "m_body_len")
    BY <1>10, PartLength
  <2>2. at[1+1] = at[1] + Len(SerField(cmd, "m_body_len"))
    BY <1>6 DEF Found
  <2>3. Len(SerField(cmd, "m_body_len")) = 1
    BY <1>9, <2>1 DEF PartLen
  <2>4. 1 + 1 = 2
    OBVIOUS
  <2> QED BY <1>8, <2>2, <2>3, <2>4
<1>14. SerField(cmd, "m_cmd_type")[1] \in DOMAIN RA_CMD_TYPE
  BY <1>10, PartIs
<1>15. items[2] \in DOMAIN RA_CMD_TYPE
  BY <1>7, <1>13, <1>14 DEF Found
<1> QED BY <1>12, <1>15

\* What ser writes of a command that has its length.
LEMMA SerIs ==
  ASSUME NEW w \in Written
  PROVE  /\ IsCommand(w)
         /\ Ser(w) \in Seq(Stored) /\ Len(Ser(w)) \in Nat /\ Len(Ser(w)) >= SA_CMD_HEAD_LEN
         /\ Ser(w)[1] = Len(Ser(w)) - SA_CMD_HEAD_LEN
         /\ \E at : HoldsCmd(Ser(w), at, w)
<1>1. PICK cmd \in Cmd : w = WithLength(cmd)
  BY DEF Written
<1>2. IsCommand(cmd)
  BY CmdIsCommand
<1>3. PICK n : n = Len(SerFields(cmd)) - SA_CMD_HEAD_LEN
  OBVIOUS
<1>4. n \in Int
  <2>1. PICK at : HoldsCmd(SerFields(cmd), at, cmd)
    BY <1>2, SerFieldsIs
  <2>2. Len(SerFields(cmd)) \in Nat
    BY <1>2, <2>1, LongEnough
  <2> QED BY <1>3, <2>2 DEF SA_CMD_HEAD_LEN
<1>5. w = [cmd EXCEPT !.m_body_len = n]
  BY <1>1, <1>3 DEF WithLength
<1>6. /\ IsCommand(w) /\ w.m_body_len = n
      /\ Len(SerFields(w)) = Len(SerFields(cmd))
  BY <1>2, <1>4, <1>5, LengthSet
<1>7. PICK at : HoldsCmd(SerFields(w), at, w)
  BY <1>6, SerFieldsIs
<1>8. PICK s : s = SerFields(w)
  OBVIOUS
<1>9. s \in Seq(Stored) /\ Len(s) \in Nat /\ Len(s) >= 7
  <2>1. Len(s) \in Nat /\ Len(s) >= SA_CMD_HEAD_LEN
    BY <1>6, <1>7, <1>8, LongEnough
  <2> QED BY <1>7, <1>8, <2>1 DEF HoldsCmd, SA_CMD_HEAD_LEN
<1>10. s[1] = w.m_body_len
  BY <1>6, <1>7, <1>8, FirstItem
<1>11. s[1] = Len(s) - SA_CMD_HEAD_LEN
  BY <1>3, <1>6, <1>8, <1>10
<1>12. Ser(w) = [s EXCEPT ![1] = s[1]]
  BY <1>8, <1>11 DEF Ser
<1>13. [s EXCEPT ![1] = s[1]] = s
  BY <1>9
<1> QED BY <1>6, <1>7, <1>8, <1>9, <1>11, <1>12, <1>13 DEF SA_CMD_HEAD_LEN

\* unser reads back what ser wrote: the command, of a known type and complete
\* (the ser and unser of each class in rtpproxy_cmd.h).
THEOREM ReadsBack ==
  ASSUME NEW w \in Written
  PROVE  Known(Ser(w)) /\ Fits(Ser(w)) /\ Unser(Ser(w)) = w
<1>1. IsCommand(w) /\ \E at : HoldsCmd(Ser(w), at, w)
  BY SerIs
<1>2. PICK items : items = Ser(w)
  OBVIOUS
<1>3. PICK at : HoldsCmd(items, at, w)
  BY <1>1, <1>2
<1>4. PICK type : type = w.m_cmd_type /\ type \in ToSet(RA_CMD_TYPE)
  BY <1>1 DEF IsCommand
<1>5. PICK o : o = Order(type)
  OBVIOUS
<1>6. /\ Len(o) \in Nat /\ Len(o) >= 7 /\ DOMAIN o = 1 .. Len(o)
      /\ CmdHead.unser \o Class[type].unser = o /\ FieldsOf(type) = ToSet(o)
  BY <1>4, <1>5, OrderIs DEF SA_CMD_HEAD_LEN
<1>7. PICK h : h = CmdHead.unser
  OBVIOUS
<1>8. IsStartOf(o, w.m_cmd_type)
  BY <1>4, <1>5, <1>6 DEF IsStartOf
<1>9. h \in Seq(Name) /\ Len(h) = 7 /\ h[2] = "m_cmd_type" /\ h = CmdHead.ser
  BY <1>7, HeadOrder DEF Fields, SA_CMD_HEAD_LEN
<1>10. IsStartOf(h, w.m_cmd_type)
  <2>1. PICK c : c = Class[type].ser
    OBVIOUS
  <2>2. c \in Seq(Name)
    BY <1>4, <2>1, ClassesRead DEF ReadsAsWritten, Fields
  <2>3. o = h \o c
    BY <1>5, <1>9, <2>1 DEF Order
  <2>4. \A i \in 1 .. Len(h) : o[i] = h[i]
    BY <1>9, <2>2, <2>3, JoinedItems
  <2>5. DOMAIN h = 1 .. Len(h) /\ Len(h) \in Nat
    BY <1>9
  <2>6. Len(h) <= Len(o)
    BY <1>6, <1>9
  <2> QED BY <1>4, <1>5, <2>4, <2>5, <2>6 DEF IsStartOf
<1>11. UnserHead(items).m_cmd_type = type
  <2>1. UnserHead(items) = [f \in ToSet(h) |-> w[f]]
    BY <1>1, <1>3, <1>7, <1>10, FieldsRead DEF UnserHead
  <2>2. "m_cmd_type" \in ToSet(h)
    <3>1. 2 \in DOMAIN h
      BY <1>9
    <3> QED BY <1>9, <3>1 DEF ToSet
  <2> QED BY <1>4, <2>1, <2>2
<1>12. Unser(items) = w
  <2>1. Unser(items) = UnserFields(items, o)
    BY <1>6, <1>11 DEF Unser
  <2>2. Unser(items) = [f \in ToSet(o) |-> w[f]]
    BY <1>1, <1>3, <1>8, <2>1, FieldsRead
  <2>3. w = [f \in FieldsOf(type) |-> w[f]]
    BY <1>1, <1>4 DEF IsCommand
  <2> QED BY <1>6, <2>2, <2>3
<1>13. Known(items)
  BY <1>1, <1>3, FirstItem DEF Known
<1>14. Fits(items)
  <2>1. \A i \in 1 .. Len(o) + 1 : Starts(items, o)[i] = at[i]
    BY <1>1, <1>3, <1>8, StartsAreThere
  <2>2. Starts(items, o)[Len(o) + 1] = at[Len(o) + 1]
    BY <1>6, <2>1
  <2>3. Len(items) \in Nat /\ Len(items) = at[Len(o) + 1] - 1
    BY <1>1, <1>3, <1>4, <1>5, LongEnough
  <2>4. at \in [1 .. Len(o) + 1 -> Nat]
    <3>1. Len(Parts(w)) = Len(o)
      BY <1>1, <1>4, <1>5, PartsAre
    <3> QED BY <1>3, <3>1 DEF HoldsCmd, Places
  <2>5. at[Len(o) + 1] \in Nat
    BY <1>6, <2>4
  <2>6. at[Len(o) + 1] <= Len(items) + 1
    BY <2>3, <2>5
  <2> QED BY <1>6, <1>11, <2>2, <2>6 DEF Fits
<1> QED BY <1>2, <1>12, <1>13, <1>14

-----------------------------------------------------------------------------
(***************************************************************************)
(* The commands on their way.                                              *)
(***************************************************************************)
\* items is what is left of sers, of which the first n have been taken: up to
\* their end if nothing was lost.
Arrival(items, at, sers, n, whole) ==
  /\ at[n+1] + Len(items) <= at[Len(sers)+1]
  /\ whole => at[n+1] + Len(items) = at[Len(sers)+1]
  /\ \A i \in n + 1 .. Len(sers) : \A k \in 1 .. Len(sers[i]) :
       at[i] + k - at[n+1] <= Len(items) => items[at[i] + k - at[n+1]] = sers[i][k]

\* The places as numbers, not before those of what has been taken.
LEMMA PlaceIs ==
  ASSUME NEW S, NEW sers \in Seq(Seq(S)), NEW at, Places(at, sers),
         NEW i \in 1 .. Len(sers) + 1, NEW n \in 1 .. i
  PROVE  at[n] \in Nat /\ at[i] \in Nat /\ at[n] <= at[i]
<1>1. Len(sers) \in Nat /\ n \in 1 .. Len(sers) + 1
  OBVIOUS
<1>2. at[n] \in Nat /\ at[i] \in Nat
  BY <1>1 DEF Places
<1> QED BY <1>2, PlacesGrow

LEMMA NextPlace ==
  ASSUME NEW S, NEW sers \in Seq(Seq(S)), NEW at, Places(at, sers), NEW i \in 1 .. Len(sers)
  PROVE  /\ at[i] \in Nat /\ at[i+1] \in Nat /\ at[i+1] = at[i] + Len(sers[i])
         /\ Len(sers[i]) \in Nat /\ sers[i] \in Seq(S)
<1>1. Len(sers) \in Nat /\ i \in 1 .. Len(sers) + 1 /\ i + 1 \in 1 .. Len(sers) + 1
      /\ sers[i] \in Seq(S) /\ Len(sers[i]) \in Nat
  OBVIOUS
<1> QED BY <1>1 DEF Places

\* One more is written after the others.
LEMMA OneMorePlace ==
  ASSUME NEW S, NEW sers \in Seq(Seq(S)), NEW at, Places(at, sers), NEW x \in Seq(S)
  PROVE  \E b : /\ Places(b, Append(sers, x))
                /\ \A i \in 1 .. Len(sers) + 1 : b[i] = at[i]
<1>1. PICK m \in Nat : m = Len(sers)
  OBVIOUS
<1>2. PICK t : t = Append(sers, x)
  OBVIOUS
<1>3. t \in Seq(Seq(S)) /\ Len(t) = m + 1 /\ t[m+1] = x /\ \A i \in 1 .. m : t[i] = sers[i]
  BY <1>1, <1>2
<1>4. at \in [1 .. m + 1 -> Nat] /\ at[1] = 1 /\ \A i \in 1 .. m : at[i+1] = at[i] + Len(sers[i])
  BY <1>1 DEF Places
<1>5. PICK b : b = [i \in 1 .. m + 2 |-> IF i = m + 2 THEN at[m+1] + Len(x) ELSE at[i]]
  OBVIOUS
<1>6. \A i \in 1 .. m + 1 : b[i] = at[i]
  BY <1>5
<1>7. b[m+2] = at[m+1] + Len(x) /\ Len(x) \in Nat /\ at[m+1] \in Nat
  BY <1>4, <1>5
<1>8. b \in [1 .. m + 2 -> Nat]
  <2>1. ASSUME NEW i \in 1 .. m + 2 PROVE b[i] \in Nat
    <3>1. CASE i = m + 2
      BY <1>7, <3>1
    <3>2. CASE i # m + 2
      <4>1. i \in 1 .. m + 1
        BY <3>2
      <4> QED BY <1>4, <1>6, <4>1
    <3> QED BY <3>1, <3>2
  <2> QED BY <1>5, <2>1
<1>9. ASSUME NEW i \in 1 .. m + 1 PROVE b[i+1] = b[i] + Len(t[i])
  <2>1. CASE i = m + 1
    <3>1. b[i+1] = b[m+2] /\ b[i] = at[m+1] /\ t[i] = x
      <4>1. i + 1 = m + 2 /\ m + 1 \in 1 .. m + 1
        BY <2>1
      <4> QED BY <1>3, <1>6, <2>1, <4>1
    <3> QED BY <1>7, <3>1
  <2>2. CASE i # m + 1
    <3>1. i \in 1 .. m /\ i + 1 \in 1 .. m + 1
      BY <2>2
    <3>2. b[i+1] = at[i+1] /\ b[i] = at[i] /\ t[i] = sers[i]
      BY <1>3, <1>6, <3>1
    <3> QED BY <1>4, <3>1, <3>2
  <2> QED BY <2>1, <2>2
<1>10. b[1] = 1
  <2>1. 1 \in 1 .. m + 1
    OBVIOUS
  <2> QED BY <1>4, <1>6, <2>1
<1>11. Places(b, t)
  <2>1. m + 1 + 1 = m + 2
    OBVIOUS
  <2> QED BY <1>3, <1>8, <1>9, <1>10, <2>1 DEF Places
<1> QED BY <1>1, <1>2, <1>6, <1>11

LEMMA WrittenBehind ==
  ASSUME NEW S, NEW sers \in Seq(Seq(S)), NEW at, Places(at, sers),
         NEW n \in 0 .. Len(sers), NEW items \in Seq(S), Arrival(items, at, sers, n, TRUE),
         NEW x \in Seq(S)
  PROVE  \E b : /\ Places(b, Append(sers, x))
                /\ Arrival(items \o x, b, Append(sers, x), n, TRUE)
<1>1. PICK m \in Nat : m = Len(sers) /\ n \in Nat /\ n <= m
  OBVIOUS
<1>2. PICK b : /\ Places(b, Append(sers, x))
               /\ \A i \in 1 .. Len(sers) + 1 : b[i] = at[i]
  BY OneMorePlace
<1>3. PICK t : t = Append(sers, x)
  OBVIOUS
<1>4. t \in Seq(Seq(S)) /\ Len(t) = m + 1 /\ t[m+1] = x /\ \A i \in 1 .. m : t[i] = sers[i]
  BY <1>1, <1>3
<1>5. PICK r : r = items \o x
  OBVIOUS
<1>6. PICK L \in Nat : L = Len(items)
  OBVIOUS
<1>7. PICK X \in Nat : X = Len(x)
  OBVIOUS
<1>8. /\ r \in Seq(S) /\ Len(r) = L + X
      /\ \A j \in 1 .. L : r[j] = items[j]
      /\ \A j \in 1 .. X : r[L + j] = x[j]
  BY <1>5, <1>6, <1>7, JoinedItems
<1>9. PICK p \in Nat : p = at[n+1] /\ p = b[n+1]
  <2>1. n + 1 \in 1 .. Len(sers) + 1 /\ 1 \in 1 .. n + 1
    BY <1>1
  <2>2. at[n+1] \in Nat
    BY <2>1, PlaceIs
  <2> QED BY <1>2, <2>1, <2>2
<1>10. b[m+1] = at[m+1] /\ p + L = at[m+1]
  <2>1. m + 1 \in 1 .. Len(sers) + 1
    BY <1>1
  <2>2. at[n+1] + Len(items) = at[Len(sers)+1]
    BY DEF Arrival
  <2> QED BY <1>1, <1>2, <1>6, <1>9, <2>1, <2>2
<1>11. b[m+1+1] = b[m+1] + X
  <2>1. m + 1 \in 1 .. Len(t)
    BY <1>4
  <2>2. b[m+1+1] = b[m+1] + Len(t[m+1])
    BY <1>2, <1>3, <2>1 DEF Places
  <2> QED BY <1>4, <1>7, <2>2
<1>12. p + Len(r) = b[Len(t)+1]
  BY <1>4, <1>8, <1>10, <1>11
<1>13. ASSUME NEW i \in n + 1 .. m + 1, NEW k \in 1 .. Len(t[i])
       PROVE  b[i] + k - p <= Len(r) => r[b[i] + k - p] = t[i][k]
  <2>1. CASE i = m + 1
    <3>1. k \in 1 .. X /\ k \in Nat
      BY <1>4, <1>7, <2>1
    <3>2. b[i] = p + L
      BY <1>10, <2>1
    <3>3. b[i] + k - p = L + k
      BY <3>1, <3>2
    <3> QED BY <1>4, <1>8, <2>1, <3>1, <3>3
  <2>2. CASE i # m + 1
    <3>1. i \in n + 1 .. Len(sers) /\ i \in 1 .. Len(sers) /\ i \in 1 .. m /\ i + 1 \in 1 .. m + 1
          /\ i \in 1 .. m + 1 /\ n + 1 \in 1 .. i /\ m + 1 \in 1 .. Len(sers) + 1
          /\ i \in 1 .. Len(sers) + 1 /\ i + 1 \in 1 .. Len(sers) + 1
      BY <1>1, <2>2
    <3>2. t[i] = sers[i] /\ b[i] = at[i]
      BY <1>2, <1>4, <3>1
    <3>3. at[i] \in Nat /\ at[i+1] = at[i] + Len(sers[i]) /\ Len(sers[i]) \in Nat
      BY <3>1, NextPlace
    <3>4. at[i+1] <= at[m+1] /\ at[m+1] \in Nat
      BY <3>1, PlaceIs
    <3>5. p <= at[i]
      BY <1>9, <3>1, PlaceIs
    <3>6. PICK q \in Nat : q = at[i]
      BY <3>3
    <3>7. PICK w \in Nat : w = Len(sers[i])
      BY <3>3
    <3>8. k \in Nat /\ 1 <= k /\ k <= w
      BY <3>2, <3>7
    <3>9. q + w <= p + L /\ p <= q
      BY <1>10, <3>3, <3>4, <3>5, <3>6, <3>7
    <3>10. q + k - p \in 1 .. L
      BY <3>8, <3>9
    <3>11. items[at[i] + k - at[n+1]] = sers[i][k]
      <4>1. at[i] + k - at[n+1] <= Len(items) /\ k \in 1 .. Len(sers[i])
        BY <1>6, <1>9, <3>6, <3>7, <3>8, <3>10
      <4> QED BY <3>1, <4>1 DEF Arrival
    <3>12. items[q + k - p] = sers[i][k]
      BY <1>9, <3>6, <3>11
    <3> QED BY <1>8, <3>2, <3>6, <3>10, <3>12
  <2> QED BY <2>1, <2>2
<1>14. Arrival(r, b, t, n, TRUE)
  <2>1. b[n+1] + Len(r) = b[Len(t)+1] /\ b[Len(t)+1] \in Nat
    BY <1>8, <1>9, <1>12
  <2>2. b[n+1] + Len(r) <= b[Len(t)+1]
    BY <2>1
  <2> QED BY <1>4, <1>9, <1>13, <2>1, <2>2 DEF Arrival
<1> QED BY <1>2, <1>3, <1>5, <1>14

\* The last of it is lost.
LEMMA Cut ==
  ASSUME NEW items, NEW at, NEW sers, NEW n, NEW whole, Arrival(items, at, sers, n, whole),
         NEW less, Len(less) \in Nat, Len(items) \in Nat, Len(less) <= Len(items),
         \A j \in 1 .. Len(less) : less[j] = items[j],
         at[n+1] \in Nat, at[Len(sers)+1] \in Nat,
         \A i \in n + 1 .. Len(sers) : at[i] \in Nat /\ at[i] >= at[n+1] /\ Len(sers[i]) \in Nat
  PROVE  Arrival(less, at, sers, n, FALSE)
<1>1. at[n+1] + Len(less) <= at[Len(sers)+1]
  BY DEF Arrival
<1>2. ASSUME NEW i \in n + 1 .. Len(sers), NEW k \in 1 .. Len(sers[i]),
             at[i] + k - at[n+1] <= Len(less)
      PROVE  less[at[i] + k - at[n+1]] = sers[i][k]
  <2>1. PICK q \in Nat : q = at[i]
    OBVIOUS
  <2>2. PICK p \in Nat : p = at[n+1]
    OBVIOUS
  <2>3. p <= q
    BY <2>1, <2>2
  <2>4. Len(sers[i]) \in Nat
    OBVIOUS
  <2>5. k \in Nat /\ 1 <= k
    BY <2>4
  <2>50. PICK l \in Nat : l = Len(less)
    OBVIOUS
  <2>51. PICK L \in Nat : L = Len(items)
    OBVIOUS
  <2>52. q + k - p <= l /\ l <= L
    BY <1>2, <2>1, <2>2, <2>50, <2>51
  <2>53. q + k - p \in 1 .. l /\ q + k - p <= L
    BY <2>3, <2>5, <2>52
  <2>6. q + k - p \in 1 .. Len(less) /\ q + k - p <= Len(items)
    BY <2>50, <2>51, <2>53
  <2>7. items[at[i] + k - at[n+1]] = sers[i][k]
    BY <2>1, <2>2, <2>6 DEF Arrival
  <2> QED BY <2>1, <2>2, <2>6, <2>7
<1> QED BY <1>1, <1>2 DEF Arrival

Comes(items, sers, n, whole) ==
  /\ n + 1 \in 1 .. Len(sers)
  /\ \A k \in 1 .. Len(sers[n+1]) : k <= Len(items) => items[k] = sers[n+1][k]
  /\ items[1] = sers[n+1][1]
  /\ whole => Len(sers[n+1]) <= Len(items)

\* What comes next is the start of a command not taken yet.
LEMMA NextComes ==
  ASSUME NEW S, NEW sers \in Seq(Seq(S)), NEW at, Places(at, sers),
         \A i \in 1 .. Len(sers) : Len(sers[i]) >= 7,
         NEW n \in 0 .. Len(sers), NEW items \in Seq(S), NEW whole,
         Arrival(items, at, sers, n, whole), Len(items) >= 1
  PROVE  Comes(items, sers, n, whole)
<1>1. PICK m \in Nat : m = Len(sers) /\ n \in Nat /\ n <= m
  OBVIOUS
<1>2. n + 1 \in 1 .. Len(sers) + 1 /\ 1 \in 1 .. n + 1
  BY <1>1
<1>3. PICK p \in Nat : p = at[n+1]
  BY <1>2, PlaceIs
<1>4. PICK L \in Nat : L = Len(items)
  OBVIOUS
<1>5. p + L <= at[m+1] /\ (whole => p + L = at[m+1])
  BY <1>1, <1>3, <1>4 DEF Arrival
<1>6. n # m
  BY <1>3, <1>4, <1>5
<1>7. n + 1 \in 1 .. Len(sers)
  BY <1>1, <1>6
<1>8. PICK w \in Nat : w = Len(sers[n+1]) /\ w >= 7
  BY <1>7, NextPlace
<1>9. ASSUME NEW k \in 1 .. Len(sers[n+1]), k <= Len(items)
      PROVE  items[k] = sers[n+1][k]
  <2>1. k \in Nat /\ p + k - p = k
    BY <1>8
  <2>2. at[n+1] + k - at[n+1] <= Len(items)
    BY <1>3, <1>9, <2>1
  <2>3. n + 1 \in n + 1 .. Len(sers)
    BY <1>1, <1>7
  <2>4. items[at[n+1] + k - at[n+1]] = sers[n+1][k]
    BY <2>2, <2>3 DEF Arrival
  <2> QED BY <1>3, <2>1, <2>4
<1>10. items[1] = sers[n+1][1]
  <2>1. 1 \in 1 .. Len(sers[n+1])
    BY <1>8
  <2> QED BY <1>9, <2>1
<1>11. ASSUME whole
       PROVE  w <= L
  <2>1. at[n+1+1] = p + w
    BY <1>3, <1>7, <1>8, NextPlace
  <2>2. n + 1 + 1 \in 1 .. m + 1 /\ m + 1 \in 1 .. Len(sers) + 1
    BY <1>1, <1>7
  <2>3. at[n+1+1] <= at[m+1] /\ at[m+1] \in Nat
    BY <2>2, PlaceIs
  <2>4. p + L = at[m+1]
    BY <1>5, <1>11
  <2> QED BY <2>1, <2>3, <2>4
<1> QED BY <1>4, <1>7, <1>8, <1>9, <1>10, <1>11 DEF Comes

LEMMA TakenSum == \A p, w, l \in Nat : (p + w) + (l - w) = p + l
OBVIOUS

\* The next one is taken.
LEMMA NextTaken ==
  ASSUME NEW S, NEW sers \in Seq(Seq(S)), NEW at, Places(at, sers),
         NEW n \in 0 .. Len(sers), n + 1 \in 1 .. Len(sers),
         NEW items \in Seq(S), NEW whole, Arrival(items, at, sers, n, whole),
         NEW w \in Nat, w = Len(sers[n+1]), w <= Len(items),
         NEW rest, Len(rest) = Len(items) - w,
         \A j \in 1 .. Len(rest) : rest[j] = items[w + j]
  PROVE  Arrival(rest, at, sers, n + 1, whole)
<1>1. PICK m \in Nat : m = Len(sers) /\ n \in Nat /\ n <= m
  OBVIOUS
<1>2. n + 1 \in 1 .. Len(sers) + 1 /\ 1 \in 1 .. n + 1
  BY <1>1
<1>3. PICK p \in Nat : p = at[n+1]
  BY <1>2, PlaceIs
<1>4. PICK L \in Nat : L = Len(items) /\ Len(rest) = L - w /\ w <= L
  OBVIOUS
<1>5. at[n+1+1] = p + w
  BY <1>3, NextPlace
<1>6. /\ p + L <= at[m+1] /\ (whole => p + L = at[m+1])
      /\ at[m+1] \in Nat
  <2>1. m + 1 \in 1 .. Len(sers) + 1 /\ 1 \in 1 .. m + 1
    BY <1>1
  <2>2. at[m+1] \in Nat
    BY <2>1, PlaceIs
  <2> QED BY <1>1, <1>3, <1>4, <2>2 DEF Arrival
<1>7. /\ at[n+1+1] + Len(rest) <= at[m+1]
      /\ whole => at[n+1+1] + Len(rest) = at[m+1]
  <2>0. (p + w) + (L - w) = p + L
    BY TakenSum
  <2>1. at[n+1+1] + Len(rest) = p + L
    BY <1>4, <1>5, <2>0
  <2> QED BY <1>6, <2>1
<1>8. ASSUME NEW i \in n + 1 + 1 .. Len(sers), NEW k \in 1 .. Len(sers[i]),
             at[i] + k - at[n+1+1] <= Len(rest)
      PROVE  rest[at[i] + k - at[n+1+1]] = sers[i][k]
  <2>1. i \in n + 1 .. Len(sers) /\ i \in 1 .. Len(sers) /\ n + 1 + 1 \in 1 .. i
        /\ i \in 1 .. Len(sers) + 1
    BY <1>1
  <2>2. at[i] \in Nat /\ Len(sers[i]) \in Nat
    BY <2>1, NextPlace
  <2>3. PICK q \in Nat : q = at[i]
    BY <2>2
  <2>4. at[n+1+1] <= at[i]
    BY <2>1, PlaceIs
  <2>5. p + w <= q
    BY <1>5, <2>3, <2>4
  <2>6. k \in Nat /\ 1 <= k
    BY <2>2
  <2>7. q + k - (p + w) <= L - w
    BY <1>4, <1>5, <1>8, <2>3
  <2>8. q + k - (p + w) \in 1 .. Len(rest) /\ q + k - p <= L /\ w + (q + k - (p + w)) = q + k - p
    BY <1>4, <2>5, <2>6, <2>7
  <2>9. rest[q + k - (p + w)] = items[q + k - p]
    BY <2>8
  <2>10. items[at[i] + k - at[n+1]] = sers[i][k]
    <3>1. at[i] + k - at[n+1] <= Len(items)
      BY <1>3, <1>4, <2>3, <2>8
    <3> QED BY <2>1, <3>1 DEF Arrival
  <2> QED BY <1>3, <1>5, <2>3, <2>9, <2>10
<1> QED BY <1>1, <1>7, <1>8 DEF Arrival

-----------------------------------------------------------------------------
(***************************************************************************)
(* The inductive invariant.                                                *)
(***************************************************************************)
Sers == [i \in 1 .. Len(sent) |-> Ser(sent[i])]
Coming == read.items \o stream

TypeOK ==
  /\ open \in BOOLEAN /\ broken \in BOOLEAN /\ sent \in Seq(Written)
  /\ stream \in Seq(Stored) /\ read.items \in Seq(Stored)
ReadOK ==
  \/ read = HeadPosted
  \/ read = NoRead
  \/ /\ read = [stage |-> "body", items |-> read.items]
     /\ Len(read.items) = SA_CMD_HEAD_LEN
\* The commands received are the first of those sent ...
InOrder ==
  /\ received \in Seq(Written) /\ Len(received) <= Len(sent)
  /\ \A i \in 1 .. Len(received) : received[i] = sent[i]
\* ... and the others are on their way, whole as long as the connection is.
OthersCome ==
  read.stage # "none" =>
    \E at : Places(at, Sers) /\ Arrival(Coming, at, Sers, Len(received), ~broken)
IInv == /\ TypeOK /\ ReadOK /\ (broken => ~open)
        /\ InOrder /\ OthersCome

LEMMA SersAre ==
  ASSUME NEW s \in Seq(Written), NEW sers, sers = [i \in 1 .. Len(s) |-> Ser(s[i])]
  PROVE  /\ sers \in Seq(Seq(Stored)) /\ Len(sers) = Len(s)
         /\ \A i \in 1 .. Len(sers) :
              /\ sers[i] = Ser(s[i]) /\ s[i] \in Written
              /\ Len(sers[i]) \in Nat /\ Len(sers[i]) >= 7
              /\ sers[i][1] = Len(sers[i]) - 7
         /\ \A w \in Written : [i \in 1 .. Len(Append(s, w)) |-> Ser(Append(s, w)[i])]
                                 = Append(sers, Ser(w))
<1>1. PICK n \in Nat : n = Len(s)
  OBVIOUS
<1>2. \A i \in 1 .. n : s[i] \in Written
  BY <1>1
<1>3. \A i \in 1 .. n : /\ Ser(s[i]) \in Seq(Stored) /\ Len(Ser(s[i])) \in Nat
                        /\ Len(Ser(s[i])) >= 7 /\ Ser(s[i])[1] = Len(Ser(s[i])) - 7
  BY <1>2, SerIs DEF SA_CMD_HEAD_LEN
<1>4. sers \in [1 .. n -> Seq(Stored)] /\ \A i \in 1 .. n : sers[i] = Ser(s[i])
  BY <1>1, <1>3
<1>5. sers \in Seq(Seq(Stored)) /\ Len(sers) = n
  BY <1>4
<1>6. ASSUME NEW w \in Written
      PROVE  [i \in 1 .. Len(Append(s, w)) |-> Ser(Append(s, w)[i])] = Append(sers, Ser(w))
  <2>1. PICK t : t = Append(s, w)
    OBVIOUS
  <2>2. Len(t) = n + 1 /\ t[n+1] = w /\ \A i \in 1 .. n : t[i] = s[i]
    BY <1>1, <2>1
  <2>3. PICK a : a = Append(sers, Ser(w))
    OBVIOUS
  <2>4. Ser(w) \in Seq(Stored)
    BY SerIs
  <2>5. a \in Seq(Seq(Stored)) /\ Len(a) = n + 1 /\ a[n+1] = Ser(w)
        /\ \A i \in 1 .. n : a[i] = sers[i]
    BY <1>5, <2>3, <2>4
  <2>6. ASSUME NEW i \in 1 .. n + 1 PROVE a[i] = Ser(t[i])
    <3>1. CASE i = n + 1
      BY <2>2, <2>5, <3>1
    <3>2. CASE i # n + 1
      <4>1. i \in 1 .. n
        BY <3>2
      <4> QED BY <1>4, <2>2, <2>5, <4>1
    <3> QED BY <3>1, <3>2
  <2>7. a = [i \in 1 .. n + 1 |-> Ser(t[i])]
    <3>1. a = [i \in 1 .. Len(a) |-> a[i]]
      BY <2>5
    <3> QED BY <2>5, <2>6, <3>1
  <2> QED BY <2>1, <2>2, <2>3, <2>7
<1>7. \A i \in 1 .. Len(sers) :
        /\ sers[i] = Ser(s[i]) /\ s[i] \in Written
        /\ Len(sers[i]) \in Nat /\ Len(sers[i]) >= 7
        /\ sers[i][1] = Len(sers[i]) - 7
  BY <1>2, <1>3, <1>4, <1>5
<1> QED BY <1>1, <1>5, <1>6, <1>7

LEMMA InitInv == Init => IInv
<1> SUFFICES ASSUME Init PROVE IInv
  OBVIOUS
<1>0. PICK e : e = << >>
  OBVIOUS
<1>1. e = << >> /\ e \in Seq(Written) /\ e \in Seq(Stored) /\ Len(e) = 0
  BY <1>0
<1>2. sent = e /\ received = e /\ stream = e /\ read.items = e /\ open = TRUE /\ broken = FALSE
      /\ read = HeadPosted
  BY <1>1 DEF Init, HeadPosted
<1>3. TypeOK /\ ReadOK /\ (broken => ~open) /\ InOrder
  <2>1. TypeOK
    BY <1>1, <1>2 DEF TypeOK
  <2>2. ReadOK
    BY <1>2 DEF ReadOK
  <2>3. \A i \in 1 .. Len(e) : e[i] = e[i]
    OBVIOUS
  <2>4. InOrder
    <3>1. received = e /\ sent = e /\ Len(e) <= Len(e)
      BY <1>1, <1>2
    <3> QED BY <1>1, <3>1, <2>3 DEF InOrder
  <2> QED BY <1>2, <2>1, <2>2, <2>4
<1>4. OthersCome
  <2>1. Sers = e
    BY <1>1, <1>2 DEF Sers
  <2>2. Coming = e
    BY <1>1, <1>2 DEF Coming
  <2>3. PICK at : at = [i \in 1 .. 1 |-> 1]
    OBVIOUS
  <2>4. Places(at, e)
    BY <1>1, <2>3 DEF Places
  <2>5. Arrival(e, at, e, Len(e), TRUE)
    BY <1>1, <2>3 DEF Arrival
  <2>6. ~broken = TRUE
    BY <1>2
  <2> QED BY <1>2, <2>1, <2>2, <2>4, <2>5, <2>6 DEF OthersCome
<1> QED BY <1>3, <1>4 DEF IInv

\* asynWriteConnection: one more on its way.
LEMMA WriteInv ==
  ASSUME IInv, Write
  PROVE  IInv' /\ \E w \in Written : sent' = Append(sent, w) /\ received' = received
<1>1. PICK w \in Written : sent' = Append(sent, w) /\ stream' = stream \o Ser(w)
  BY DEF Write
<1>2. /\ open = TRUE /\ broken = FALSE /\ open' = open /\ broken' = broken
      /\ read' = read /\ received' = received
  BY DEF Write, IInv, TypeOK
<1>3. /\ sent \in Seq(Written) /\ stream \in Seq(Stored) /\ read.items \in Seq(Stored)
      /\ received \in Seq(Written) /\ Len(received) <= Len(sent)
      /\ \A i \in 1 .. Len(received) : received[i] = sent[i]
  BY DEF IInv, TypeOK, InOrder
<1>4. Ser(w) \in Seq(Stored)
  BY SerIs
<1>5. PICK x : x = Ser(w) /\ x \in Seq(Stored)
  BY <1>4
<1>6. PICK s : s = sent /\ s \in Seq(Written)
  BY <1>3
<1>7. PICK sers : sers = Sers /\ sers = [i \in 1 .. Len(s) |-> Ser(s[i])]
  BY <1>6 DEF Sers
<1>8. Sers' = Append(sers, x)
  <2>1. [i \in 1 .. Len(Append(s, w)) |-> Ser(Append(s, w)[i])] = Append(sers, Ser(w))
    BY <1>6, <1>7, SersAre
  <2>2. PICK t : t = Append(s, w)
    OBVIOUS
  <2>3. sent' = t
    BY <1>1, <1>6, <2>2
  <2>4. Sers' = [i \in 1 .. Len(t) |-> Ser(t[i])]
    BY <2>3 DEF Sers
  <2> QED BY <1>5, <2>1, <2>2, <2>4
<1>9. TypeOK'
  <2>1. stream' \in Seq(Stored)
    BY <1>1, <1>3, <1>4, JoinedItems
  <2>2. sent' \in Seq(Written)
    BY <1>1, <1>3
  <2>3. read.items' \in Seq(Stored)
    BY <1>2, <1>3
  <2>4. open' \in BOOLEAN /\ broken' \in BOOLEAN
    BY <1>2
  <2> QED BY <2>1, <2>2, <2>3, <2>4 DEF TypeOK
<1>10. ReadOK'
  BY <1>2 DEF IInv, ReadOK, HeadPosted, NoRead
<1>11. InOrder'
  <2>1. PICK n \in Nat : n = Len(received)
    BY <1>3
  <2>2. Len(sent') = Len(s) + 1 /\ \A i \in 1 .. Len(s) : sent'[i] = s[i]
    BY <1>1, <1>6
  <2>3. n <= Len(sent') /\ \A i \in 1 .. n : received[i] = sent'[i]
    <3>1. Len(s) \in Nat /\ n <= Len(s)
      BY <1>3, <1>6, <2>1
    <3>2. \A i \in 1 .. n : i \in 1 .. Len(s)
      BY <3>1
    <3> QED BY <1>3, <1>6, <2>1, <2>2, <3>1, <3>2
  <2> QED BY <1>2, <1>3, <2>1, <2>3 DEF InOrder
<1>12. OthersCome'
  <2>1. SUFFICES ASSUME read.stage # "none"
                 PROVE  \E b : /\ Places(b, Append(sers, x))
                               /\ Arrival(Coming', b, Append(sers, x), Len(received), TRUE)
    BY <1>2, <1>8 DEF OthersCome
  <2>2. PICK items : items = Coming /\ items \in Seq(Stored)
    BY <1>3, JoinedItems DEF Coming
  <2>3. Coming' = items \o x
    <3>1. PICK h : h = read.items
      OBVIOUS
    <3>2. PICK t : t = stream
      OBVIOUS
    <3>3. h \in Seq(Stored) /\ t \in Seq(Stored)
      BY <1>3, <3>1, <3>2
    <3>4. Coming' = h \o (t \o x)
      BY <1>1, <1>2, <1>5, <3>1, <3>2 DEF Coming
    <3>5. items = h \o t
      BY <2>2, <3>1, <3>2 DEF Coming
    <3>6. h \o (t \o x) = (h \o t) \o x
      BY <1>5, <3>3, JoinedTwice
    <3> QED BY <3>4, <3>5, <3>6
  <2>4. ~broken = TRUE
    BY <1>2
  <2>5. PICK at : Places(at, sers) /\ Arrival(items, at, sers, Len(received), TRUE)
    BY <1>7, <2>1, <2>2, <2>4 DEF IInv, OthersCome
  <2>6. sers \in Seq(Seq(Stored)) /\ Len(sers) = Len(s)
    BY <1>6, <1>7, SersAre
  <2>7. Len(received) \in 0 .. Len(sers)
    BY <1>3, <1>6, <2>6
  <2> QED BY <1>5, <2>2, <2>3, <2>5, <2>6, <2>7, WrittenBehind
<1>13. broken' => ~open'
  BY <1>2
<1> QED BY <1>1, <1>2, <1>9, <1>10, <1>11, <1>12, <1>13 DEF IInv

\* What the other actions need: the commands on their way, with their sizes.
LEMMA Way ==
  ASSUME IInv, read.stage # "none"
  PROVE  \E sers, at, n :
           /\ n = Len(received) /\ n \in 0 .. Len(sers) /\ Len(sent) = Len(sers)
           /\ sers = Sers /\ sers \in Seq(Seq(Stored)) /\ Places(at, sers)
           /\ Coming \in Seq(Stored) /\ Len(Coming) \in Nat
           /\ Arrival(Coming, at, sers, n, ~broken)
           /\ \A i \in 1 .. Len(sers) :
                /\ sers[i] = Ser(sent[i]) /\ sent[i] \in Written
                /\ Len(sers[i]) \in Nat /\ Len(sers[i]) >= 7
                /\ sers[i][1] = Len(sers[i]) - 7
<1>1. /\ sent \in Seq(Written) /\ stream \in Seq(Stored) /\ read.items \in Seq(Stored)
      /\ received \in Seq(Written) /\ Len(received) <= Len(sent)
  BY DEF IInv, TypeOK, InOrder
<1>2. PICK s : s = sent /\ s \in Seq(Written)
  BY <1>1
<1>3. PICK sers : sers = Sers /\ sers = [i \in 1 .. Len(s) |-> Ser(s[i])]
  BY <1>2 DEF Sers
<1>4. /\ sers \in Seq(Seq(Stored)) /\ Len(sers) = Len(s)
      /\ \A i \in 1 .. Len(sers) :
           /\ sers[i] = Ser(s[i]) /\ s[i] \in Written
           /\ Len(sers[i]) \in Nat /\ Len(sers[i]) >= 7
           /\ sers[i][1] = Len(sers[i]) - 7
  BY <1>2, <1>3, SersAre
<1>5. PICK n : n = Len(received) /\ n \in 0 .. Len(sers)
  <2>1. Len(received) \in Nat /\ Len(sers) \in Nat
    BY <1>1, <1>4
  <2>2. Len(received) <= Len(sers)
    BY <1>1, <1>2, <1>4
  <2> QED BY <2>1, <2>2
<1>6. PICK at : Places(at, sers) /\ Arrival(Coming, at, sers, n, ~broken)
  BY <1>3, <1>5 DEF IInv, OthersCome
<1>7. Coming \in Seq(Stored) /\ Len(Coming) \in Nat
  BY <1>1, JoinedItems DEF Coming
<1> QED BY <1>2, <1>3, <1>4, <1>5, <1>6, <1>7

\* The connection breaks: the rest of what is on its way is lost.
LEMMA BreakInv ==
  ASSUME IInv, Break
  PROVE  IInv'
<1>1. PICK l \in 0 .. Len(stream) : stream' = SubSeq(stream, 1, l)
  BY DEF Break
<1>2. open' = FALSE /\ broken' = TRUE /\ read' = read /\ sent' = sent /\ received' = received
  BY DEF Break
<1>3. sent \in Seq(Written) /\ stream \in Seq(Stored) /\ read.items \in Seq(Stored)
  BY DEF IInv, TypeOK
<1>4. PICK t : t = SubSeq(stream, 1, l)
  OBVIOUS
<1>5. /\ l \in Nat /\ l <= Len(stream) /\ t \in Seq(Stored) /\ Len(t) = l
      /\ \A j \in 1 .. l : t[j] = stream[j]
  BY <1>3, <1>4
<1>6. TypeOK' /\ ReadOK' /\ InOrder' /\ (broken' => ~open')
  <2>1. TypeOK'
    BY <1>1, <1>2, <1>3, <1>4, <1>5 DEF TypeOK
  <2>2. ReadOK'
    BY <1>2 DEF IInv, ReadOK, HeadPosted, NoRead
  <2>3. InOrder'
    BY <1>2 DEF IInv, InOrder
  <2> QED BY <1>2, <2>1, <2>2, <2>3
<1>7. OthersCome'
  <2>1. SUFFICES ASSUME read.stage # "none"
                 PROVE  \E b : /\ Places(b, Sers')
                               /\ Arrival(Coming', b, Sers', Len(received), FALSE)
    BY <1>2 DEF OthersCome
  <2>2. PICK sers, at, n :
           /\ n = Len(received) /\ n \in 0 .. Len(sers)
           /\ sers = Sers /\ sers \in Seq(Seq(Stored)) /\ Places(at, sers)
           /\ Coming \in Seq(Stored) /\ Len(Coming) \in Nat
           /\ Arrival(Coming, at, sers, n, ~broken)
    BY <2>1, Way
  <2>3. Sers' = sers
    BY <1>2, <2>2 DEF Sers
  <2>4. PICK h : h = read.items /\ h \in Seq(Stored)
    BY <1>3
  <2>5. PICK less : less = h \o t
    OBVIOUS
  <2>6. Coming' = less
    BY <1>1, <1>2, <1>4, <2>4, <2>5 DEF Coming
  <2>7. PICK items : items = Coming /\ items = h \o stream
    BY <2>4 DEF Coming
  <2>8. PICK H \in Nat : H = Len(h)
    BY <2>4
  <2>9. /\ Len(less) = H + l /\ \A j \in 1 .. H : less[j] = h[j]
        /\ \A j \in 1 .. l : less[H + j] = t[j]
    <3>0. h \in Seq(Stored) /\ t \in Seq(Stored)
      BY <1>5, <2>4
    <3>1. /\ Len(less) = Len(h) + Len(t) /\ \A j \in 1 .. Len(h) : less[j] = h[j]
          /\ \A j \in 1 .. Len(t) : less[Len(h) + j] = t[j]
      BY <2>5, <3>0, JoinedItems
    <3> QED BY <1>5, <2>8, <3>1
  <2>10. /\ Len(items) = H + Len(stream) /\ \A j \in 1 .. H : items[j] = h[j]
         /\ \A j \in 1 .. Len(stream) : items[H + j] = stream[j]
    BY <1>3, <2>4, <2>7, <2>8, JoinedItems
  <2>11. PICK T \in Nat : T = Len(stream)
    BY <1>3
  <2>12. Len(less) \in Nat /\ Len(items) \in Nat /\ Len(less) <= Len(items)
    BY <1>5, <2>9, <2>10, <2>11
  <2>13. ASSUME NEW j \in 1 .. Len(less) PROVE less[j] = items[j]
    <3>1. CASE j <= H
      <4>1. j \in 1 .. H
        BY <2>12, <3>1
      <4> QED BY <2>9, <2>10, <4>1
    <3>2. CASE ~ (j <= H)
      <4>1. j \in Nat
        BY <2>12
      <4>2. PICK q \in Nat : j = H + q /\ q \in 1 .. l
        <5>1. j - H \in Nat /\ j = H + (j - H) /\ j - H \in 1 .. l
          BY <1>5, <2>9, <3>2, <4>1
        <5> QED BY <5>1
      <4>3. q \in 1 .. Len(stream)
        BY <1>5, <2>11, <4>2
      <4> QED BY <1>5, <2>9, <2>10, <4>2, <4>3
    <3> QED BY <3>1, <3>2
  <2>14. n + 1 \in 1 .. Len(sers) + 1 /\ 1 \in 1 .. n + 1 /\ Len(sers) + 1 \in 1 .. Len(sers) + 1
         /\ n + 1 \in 1 .. Len(sers) + 1
    BY <2>2
  <2>15. at[n+1] \in Nat /\ at[Len(sers)+1] \in Nat
    BY <2>2, <2>14, PlaceIs
  <2>16. ASSUME NEW i \in n + 1 .. Len(sers)
         PROVE  at[i] \in Nat /\ at[i] >= at[n+1] /\ Len(sers[i]) \in Nat
    <3>1. i \in 1 .. Len(sers) /\ i \in 1 .. Len(sers) + 1 /\ n + 1 \in 1 .. i
      BY <2>2
    <3>2. Len(sers[i]) \in Nat /\ at[i] \in Nat
      BY <2>2, <3>1, NextPlace
    <3>3. at[n+1] <= at[i]
      BY <2>2, <3>1, PlaceIs
    <3> QED BY <2>15, <3>2, <3>3
  <2>17. Arrival(items, at, sers, n, ~broken)
    BY <2>2, <2>7
  <2>18. Arrival(less, at, sers, n, FALSE)
    BY <2>12, <2>13, <2>15, <2>16, <2>17, Cut
  <2> QED BY <2>2, <2>3, <2>6, <2>18
<1> QED BY <1>6, <1>7 DEF IInv

\* The head is read: the same comes, the head of it being in the buffer.
LEMMA HeadReadInv ==
  ASSUME IInv, HeadRead
  PROVE  IInv' /\ UNCHANGED <<sent, received>>
<1>1. /\ read.stage = "head" /\ Len(stream) >= 7
      /\ read' = [stage |-> "body", items |-> SubSeq(stream, 1, 7)]
      /\ stream' = SubSeq(stream, 8, Len(stream))
      /\ open' = open /\ broken' = broken /\ sent' = sent /\ received' = received
  BY DEF HeadRead, SA_CMD_HEAD_LEN
<1>2. read = HeadPosted
  BY <1>1 DEF IInv, ReadOK, NoRead
<1>3. /\ sent \in Seq(Written) /\ stream \in Seq(Stored) /\ read.items \in Seq(Stored)
      /\ open \in BOOLEAN /\ broken \in BOOLEAN
  BY DEF IInv, TypeOK
<1>4. PICK s : s = stream /\ s \in Seq(Stored)
  BY <1>3
<1>5. PICK h : h = SubSeq(s, 1, 7)
  OBVIOUS
<1>6. PICK t : t = SubSeq(s, 8, Len(s))
  OBVIOUS
<1>7. PICK L \in Nat : L = Len(s) /\ L >= 7
  BY <1>1, <1>4
<1>8. h \in Seq(Stored) /\ Len(h) = 7 /\ \A j \in 1 .. 7 : h[j] = s[j]
  BY <1>4, <1>5, <1>7
<1>9. t \in Seq(Stored) /\ Len(t) = L - 7 /\ \A j \in 1 .. L - 7 : t[j] = s[j+7]
  <2>1. t \in Seq(Stored) /\ Len(t) = L - 7
    BY <1>4, <1>6, <1>7
  <2>2. ASSUME NEW j \in 1 .. L - 7 PROVE t[j] = s[j+7]
    <3>1. t[j] = s[8 + j - 1] /\ 8 + j - 1 = j + 7
      BY <1>4, <1>6, <1>7
    <3> QED BY <3>1
  <2> QED BY <2>1, <2>2
<1>10. h \o t = s
  <2>1. PICK u : u = h \o t
    OBVIOUS
  <2>0. h \in Seq(Stored) /\ t \in Seq(Stored)
    BY <1>8, <1>9
  <2>2. /\ u \in Seq(Stored) /\ Len(u) = Len(h) + Len(t)
        /\ \A j \in 1 .. Len(h) : u[j] = h[j]
        /\ \A j \in 1 .. Len(t) : u[Len(h) + j] = t[j]
    BY <2>0, <2>1, JoinedItems
  <2>3. Len(u) = L
    BY <1>7, <1>8, <1>9, <2>2
  <2>4. ASSUME NEW j \in 1 .. Len(u) PROVE u[j] = s[j]
    <3>1. CASE j <= 7
      BY <1>8, <2>2, <2>3, <3>1
    <3>2. CASE ~ (j <= 7)
      <4>1. PICK q \in Nat : q = j - 7 /\ q \in 1 .. L - 7 /\ 7 + q = j /\ q + 7 = j
        <5>1. j - 7 \in Nat /\ j - 7 \in 1 .. L - 7 /\ 7 + (j - 7) = j /\ (j - 7) + 7 = j
          BY <2>3, <3>2
        <5> QED BY <5>1
      <4>2. u[7 + q] = t[q]
        BY <1>8, <1>9, <2>2, <4>1
      <4>3. t[q] = s[q+7]
        BY <1>9, <4>1
      <4> QED BY <4>1, <4>2, <4>3
    <3> QED BY <3>1, <3>2
  <2>5. u = s
    BY <1>4, <1>7, <2>2, <2>3, <2>4, SameItems
  <2> QED BY <2>1, <2>5
<1>11. read' = [stage |-> "body", items |-> h] /\ stream' = t
  BY <1>1, <1>4, <1>5, <1>6
<1>12. read'.items = h
  BY <1>11
<1>13. TypeOK'
  BY <1>1, <1>3, <1>8, <1>9, <1>11, <1>12 DEF TypeOK
<1>14. ReadOK'
  BY <1>8, <1>11, <1>12 DEF ReadOK, SA_CMD_HEAD_LEN
<1>15. InOrder' /\ (broken' => ~open')
  BY <1>1 DEF IInv, InOrder
<1>16. OthersCome'
  <2>1. Coming' = s
    BY <1>10, <1>11, <1>12 DEF Coming
  <2>2. Coming = s
    <3>1. read.items = << >>
      BY <1>2 DEF HeadPosted
    <3>2. << >> \o s = s
      BY <1>4
    <3> QED BY <1>4, <3>1, <3>2 DEF Coming
  <2>3. PICK at : Places(at, Sers) /\ Arrival(s, at, Sers, Len(received), ~broken)
    BY <1>1, <2>2 DEF IInv, OthersCome
  <2>4. Sers' = Sers
    BY <1>1 DEF Sers
  <2>5. Places(at, Sers') /\ Arrival(Coming', at, Sers', Len(received'), ~broken')
    BY <1>1, <2>1, <2>3, <2>4
  <2> QED BY <2>5 DEF OthersCome
<1> QED BY <1>1, <1>13, <1>14, <1>15, <1>16 DEF IInv

\* A read fails: nothing is read from then on.
LEMMA ReadFailsInv ==
  ASSUME IInv, ReadFails
  PROVE  IInv' /\ UNCHANGED <<sent, received>>
<1>1. /\ read' = NoRead /\ open' = open /\ broken' = broken /\ stream' = stream
      /\ sent' = sent /\ received' = received
  BY DEF ReadFails
<1>2. read'.items = << >> /\ read'.stage = "none"
  BY <1>1 DEF NoRead
<1>3. << >> \in Seq(Stored)
  OBVIOUS
<1>4. TypeOK'
  BY <1>1, <1>2, <1>3 DEF IInv, TypeOK
<1>5. ReadOK'
  BY <1>1 DEF ReadOK, NoRead
<1>6. InOrder' /\ (broken' => ~open')
  BY <1>1 DEF IInv, InOrder
<1>7. OthersCome'
  BY <1>2 DEF OthersCome
<1> QED BY <1>1, <1>4, <1>5, <1>6, <1>7 DEF IInv

\* The body is read: the command the next one of those sent.
LEMMA BodyReadInv ==
  ASSUME IInv, BodyRead
  PROVE  /\ IInv' /\ UNCHANGED sent /\ Len(received) < Len(sent)
         /\ received' = Append(received, sent[Len(received) + 1])
<1> DEFINE items == read.items \o SubSeq(stream, 1, read.items[1])
<1>1. /\ read.stage = "body" /\ Len(stream) >= read.items[1]
      /\ stream' = SubSeq(stream, read.items[1] + 1, Len(stream))
      /\ read' = HeadPosted /\ open' = (open /\ Known(items))
      /\ received' = IF Known(items) /\ Fits(items) THEN Append(received, Unser(items))
                     ELSE received
      /\ broken' = broken /\ sent' = sent
  BY DEF BodyRead
<1> HIDE DEF items
<1>2. /\ sent \in Seq(Written) /\ stream \in Seq(Stored) /\ read.items \in Seq(Stored)
      /\ open \in BOOLEAN /\ broken \in BOOLEAN /\ (broken => ~open)
  BY DEF IInv, TypeOK
<1>3. Len(read.items) = 7
  BY <1>1 DEF IInv, ReadOK, HeadPosted, NoRead, SA_CMD_HEAD_LEN
<1>4. PICK sers, at, n :
        /\ n = Len(received) /\ n \in 0 .. Len(sers) /\ Len(sent) = Len(sers)
        /\ sers = Sers /\ sers \in Seq(Seq(Stored)) /\ Places(at, sers)
        /\ Coming \in Seq(Stored) /\ Len(Coming) \in Nat
        /\ Arrival(Coming, at, sers, n, ~broken)
        /\ \A i \in 1 .. Len(sers) :
             /\ sers[i] = Ser(sent[i]) /\ sent[i] \in Written
             /\ Len(sers[i]) \in Nat /\ Len(sers[i]) >= 7
             /\ sers[i][1] = Len(sers[i]) - 7
  BY <1>1, Way
<1>5. PICK h : h = read.items /\ h \in Seq(Stored) /\ Len(h) = 7
  BY <1>2, <1>3
<1>6. PICK s : s = stream /\ s \in Seq(Stored)
  BY <1>2
<1>7. PICK S \in Nat : S = Len(s)
  BY <1>6
<1>8. PICK c : c = Coming /\ c = h \o s
  BY <1>5, <1>6 DEF Coming
<1>9. /\ c \in Seq(Stored) /\ Len(c) = 7 + S
      /\ \A j \in 1 .. 7 : c[j] = h[j]
      /\ \A j \in 1 .. S : c[7 + j] = s[j]
  <2>1. h \in Seq(Stored) /\ s \in Seq(Stored)
    BY <1>5, <1>6
  <2>2. /\ c \in Seq(Stored) /\ Len(c) = Len(h) + Len(s)
        /\ \A j \in 1 .. Len(h) : c[j] = h[j]
        /\ \A j \in 1 .. Len(s) : c[Len(h) + j] = s[j]
    BY <1>8, <2>1, JoinedItems
  <2> QED BY <1>5, <1>7, <2>2
<1>10. /\ n + 1 \in 1 .. Len(sers)
       /\ \A k \in 1 .. Len(sers[n+1]) : k <= Len(c) => c[k] = sers[n+1][k]
       /\ c[1] = sers[n+1][1]
  <2>1. \A i \in 1 .. Len(sers) : Len(sers[i]) >= 7
    BY <1>4
  <2>2. Len(c) >= 1
    BY <1>9
  <2>3. Arrival(c, at, sers, n, ~broken)
    BY <1>4, <1>8
  <2>4. n \in 0 .. Len(sers) /\ sers \in Seq(Seq(Stored)) /\ Places(at, sers)
    BY <1>4
  <2>5. c \in Seq(Stored)
    BY <1>9
  <2>6. Comes(c, sers, n, ~broken)
    BY <2>1, <2>2, <2>3, <2>4, <2>5, NextComes
  <2> QED BY <2>6 DEF Comes
<1>11. PICK w : w = sent[n+1] /\ w \in Written /\ sers[n+1] = Ser(w)
  BY <1>4, <1>10
<1>12. PICK W \in Nat : W = Len(Ser(w)) /\ W >= 7 /\ Ser(w)[1] = W - 7
  BY <1>4, <1>10, <1>11
<1>13. PICK z \in Nat : z = W - 7 /\ z = read.items[1] /\ z <= S
  <2>1. h[1] = W - 7
    BY <1>9, <1>10, <1>11, <1>12
  <2>2. W - 7 \in Nat /\ W - 7 = read.items[1]
    BY <1>5, <1>12, <2>1
  <2>3. read.items[1] <= S
    BY <1>1, <1>6, <1>7, <2>2
  <2> QED BY <2>2, <2>3
<1>14. PICK t : t = SubSeq(s, 1, z)
  OBVIOUS
<1>15. t \in Seq(Stored) /\ Len(t) = z /\ \A j \in 1 .. z : t[j] = s[j]
  BY <1>6, <1>7, <1>13, <1>14
<1>16. items = Ser(w)
  <2>1. items = h \o t
    BY <1>5, <1>6, <1>13, <1>14 DEF items
  <2>2. PICK u : u = h \o t
    OBVIOUS
  <2>3. h \in Seq(Stored) /\ t \in Seq(Stored)
    BY <1>5, <1>15
  <2>4. /\ u \in Seq(Stored) /\ Len(u) = Len(h) + Len(t)
        /\ \A j \in 1 .. Len(h) : u[j] = h[j]
        /\ \A j \in 1 .. Len(t) : u[Len(h) + j] = t[j]
    BY <2>2, <2>3, JoinedItems
  <2>5. Len(u) = W
    BY <1>5, <1>12, <1>13, <1>15, <2>4
  <2>6. ASSUME NEW j \in 1 .. W PROVE u[j] = c[j]
    <3>1. CASE j <= 7
      BY <1>5, <1>9, <2>4, <3>1
    <3>2. CASE ~ (j <= 7)
      <4>1. PICK q \in Nat : q \in 1 .. z /\ 7 + q = j
        <5>1. j - 7 \in Nat /\ j - 7 \in 1 .. z /\ 7 + (j - 7) = j
          BY <1>13, <3>2
        <5> QED BY <5>1
      <4>2. u[7 + q] = t[q]
        BY <1>5, <1>15, <2>4, <4>1
      <4>3. q \in 1 .. S
        BY <1>13, <4>1
      <4>4. c[7 + q] = s[q]
        BY <1>9, <4>3
      <4>5. t[q] = s[q]
        BY <1>15, <4>1
      <4> QED BY <4>1, <4>2, <4>4, <4>5
    <3> QED BY <3>1, <3>2
  <2>7. ASSUME NEW j \in 1 .. W PROVE c[j] = Ser(w)[j]
    <3>1. j <= Len(c)
      BY <1>9, <1>13
    <3> QED BY <1>10, <1>11, <1>12, <3>1
  <2>8. Ser(w) \in Seq(Stored)
    BY <1>11, SerIs
  <2>9. \A j \in 1 .. Len(u) : u[j] = Ser(w)[j]
    BY <2>5, <2>6, <2>7
  <2>10. u = Ser(w)
    BY <1>12, <2>4, <2>5, <2>8, <2>9, SameItems
  <2> QED BY <2>1, <2>2, <2>10
<1>17. Known(items) /\ Fits(items) /\ Unser(items) = w
  BY <1>11, <1>16, ReadsBack
<1>18. received' = Append(received, w) /\ open' = open
  <2>1. received' = Append(received, w)
    BY <1>1, <1>17
  <2>2. open' = open
    BY <1>1, <1>2, <1>17
  <2> QED BY <2>1, <2>2
<1>19. Len(received) < Len(sent)
  BY <1>4, <1>10
<1>20. PICK r : r = received /\ r \in Seq(Written) /\ \A i \in 1 .. Len(r) : r[i] = sent[i]
  BY DEF IInv, InOrder
<1>21. /\ received' \in Seq(Written) /\ Len(received') = n + 1
       /\ \A i \in 1 .. n + 1 : received'[i] = sent[i]
  <2>1. PICK a : a = Append(r, w)
    OBVIOUS
  <2>2. n \in Nat /\ Len(r) = n
    BY <1>4, <1>20
  <2>3. a \in Seq(Written) /\ Len(a) = n + 1 /\ a[n+1] = w /\ \A i \in 1 .. n : a[i] = r[i]
    BY <1>11, <1>20, <2>1, <2>2
  <2>4. ASSUME NEW i \in 1 .. n + 1 PROVE a[i] = sent[i]
    <3>1. CASE i = n + 1
      BY <1>11, <2>3, <3>1
    <3>2. CASE i # n + 1
      <4>1. i \in 1 .. n
        BY <2>2, <3>2
      <4> QED BY <1>20, <2>2, <2>3, <4>1
    <3> QED BY <3>1, <3>2
  <2>5. received' = a
    BY <1>18, <1>20, <2>1
  <2> QED BY <2>3, <2>4, <2>5
<1>22. InOrder'
  <2>1. n + 1 <= Len(sent)
    BY <1>4, <1>10
  <2> QED BY <1>1, <1>21, <2>1 DEF InOrder
<1>23. PICK rest : rest = SubSeq(s, z + 1, Len(s))
  OBVIOUS
<1>24. rest \in Seq(Stored) /\ Len(rest) = S - z /\ \A j \in 1 .. S - z : rest[j] = s[z+j]
  <2>1. z <= Len(s)
    BY <1>7, <1>13
  <2>2. /\ rest \in Seq(Stored) /\ Len(rest) = Len(s) - z
        /\ \A j \in 1 .. Len(s) - z : rest[j] = s[z+j]
    BY <1>6, <1>23, <2>1, RestItems
  <2> QED BY <1>7, <2>2
<1>25. stream' = rest /\ read'.items = << >> /\ read' = HeadPosted
  BY <1>1, <1>6, <1>13, <1>23 DEF HeadPosted
<1>26. TypeOK' /\ ReadOK' /\ (broken' => ~open')
  <2>1. << >> \in Seq(Stored)
    OBVIOUS
  <2>2. TypeOK'
    BY <1>1, <1>2, <1>18, <1>24, <1>25, <2>1 DEF TypeOK
  <2>3. ReadOK'
    BY <1>25 DEF ReadOK, HeadPosted
  <2> QED BY <1>1, <1>2, <1>18, <2>2, <2>3
<1>27. OthersCome'
  <2>1. Coming' = rest
    <3>1. << >> \o rest = rest
      BY <1>24
    <3> QED BY <1>25, <3>1 DEF Coming
  <2>2. Sers' = sers
    BY <1>1, <1>4 DEF Sers
  <2>3. Len(rest) = Len(c) - W /\ W <= Len(c)
    BY <1>9, <1>13, <1>24
  <2>4. ASSUME NEW j \in 1 .. Len(rest) PROVE rest[j] = c[W + j]
    <3>1. j \in 1 .. S - z /\ j \in Nat
      BY <1>13, <1>24
    <3>2. PICK q \in Nat : q = z + j /\ q \in 1 .. S
      BY <1>13, <3>1
    <3>3. c[7 + q] = s[q]
      BY <1>9, <3>2
    <3>4. W + j = 7 + q
      BY <1>13, <3>1, <3>2
    <3> QED BY <1>24, <3>1, <3>2, <3>3, <3>4
  <2>5. Arrival(c, at, sers, n, ~broken)
    BY <1>4, <1>8
  <2>6. Arrival(rest, at, sers, n + 1, ~broken)
    <3>1. /\ n \in 0 .. Len(sers) /\ sers \in Seq(Seq(Stored)) /\ Places(at, sers)
          /\ n + 1 \in 1 .. Len(sers) /\ W = Len(sers[n+1]) /\ c \in Seq(Stored)
      BY <1>4, <1>9, <1>10, <1>11, <1>12
    <3> QED BY <2>3, <2>4, <2>5, <3>1, NextTaken
  <2>7. Arrival(Coming', at, Sers', Len(received'), ~broken')
    BY <1>1, <1>21, <2>1, <2>2, <2>6
  <2> QED BY <1>4, <2>2, <2>7 DEF OthersCome
<1>28. IInv'
  BY <1>22, <1>26, <1>27 DEF IInv
<1> QED BY <1>1, <1>4, <1>11, <1>18, <1>19, <1>28

LEMMA InvStep == IInv /\ [Next]_vars => IInv'
<1> SUFFICES ASSUME IInv, [Next]_vars PROVE IInv'
  OBVIOUS
<1>1. CASE Write
  BY <1>1, WriteInv
<1>2. CASE Break
  BY <1>2, BreakInv
<1>3. CASE HeadRead
  BY <1>3, HeadReadInv
<1>4. CASE BodyRead
  BY <1>4, BodyReadInv
<1>5. CASE ReadFails
  BY <1>5, ReadFailsInv
<1>6. CASE UNCHANGED vars
  <2>1. /\ open' = open /\ broken' = broken /\ stream' = stream /\ read' = read
        /\ sent' = sent /\ received' = received
    BY <1>6 DEF vars
  <2>2. TypeOK' /\ ReadOK' /\ InOrder' /\ (broken' => ~open')
    BY <2>1 DEF IInv, TypeOK, ReadOK, InOrder, HeadPosted, NoRead
  <2>3. Sers' = Sers /\ Coming' = Coming
    BY <2>1 DEF Sers, Coming
  <2>4. OthersCome'
    BY <2>1, <2>3 DEF IInv, OthersCome
  <2> QED BY <2>2, <2>4 DEF IInv
<1> QED BY <1>1, <1>2, <1>3, <1>4, <1>5, <1>6 DEF Next

\* The commands received are the first of those sent, and as long as the
\* connection is whole the others are on their way (cnn_mixer.h, on_tcp_readv).
THEOREM Invariant == Spec => []IInv
<1>1. Init => IInv
  BY InitInv
<1>2. IInv /\ [Next]_vars => IInv'
  BY InvStep
<1> QED BY <1>1, <1>2, PTL DEF Spec

LEMMA NoReadStarvesInv == IInv => NoReadStarves
<1> SUFFICES ASSUME IInv, read.stage = "body", ~broken
             PROVE  Len(stream) >= read.items[1]
  BY DEF NoReadStarves
<1>1. /\ sent \in Seq(Written) /\ stream \in Seq(Stored) /\ read.items \in Seq(Stored)
  BY DEF IInv, TypeOK
<1>2. Len(read.items) = 7
  BY DEF IInv, ReadOK, HeadPosted, NoRead, SA_CMD_HEAD_LEN
<1>3. PICK sers, at, n :
        /\ n = Len(received) /\ n \in 0 .. Len(sers) /\ Len(sent) = Len(sers)
        /\ sers = Sers /\ sers \in Seq(Seq(Stored)) /\ Places(at, sers)
        /\ Coming \in Seq(Stored) /\ Len(Coming) \in Nat
        /\ Arrival(Coming, at, sers, n, ~broken)
        /\ \A i \in 1 .. Len(sers) :
             /\ sers[i] = Ser(sent[i]) /\ sent[i] \in Written
             /\ Len(sers[i]) \in Nat /\ Len(sers[i]) >= 7
             /\ sers[i][1] = Len(sers[i]) - 7
  BY Way
<1>4. PICK h : h = read.items /\ h \in Seq(Stored)
  BY <1>1
<1>5. PICK s : s = stream /\ s \in Seq(Stored)
  BY <1>1
<1>6. PICK c : c = Coming /\ c = h \o s
  BY <1>4, <1>5 DEF Coming
<1>7. Len(c) = Len(h) + Len(s) /\ \A j \in 1 .. Len(h) : c[j] = h[j]
  BY <1>4, <1>5, <1>6, JoinedItems
<1>8. PICK S \in Nat : S = Len(s) /\ Len(c) = 7 + S /\ c[1] = h[1]
  BY <1>2, <1>4, <1>5, <1>7
<1>9. Comes(c, sers, n, ~broken)
  <2>1. \A i \in 1 .. Len(sers) : Len(sers[i]) >= 7
    BY <1>3
  <2>2. Len(c) >= 1
    BY <1>8
  <2>3. Arrival(c, at, sers, n, ~broken) /\ c \in Seq(Stored)
    BY <1>3, <1>6
  <2>4. n \in 0 .. Len(sers) /\ sers \in Seq(Seq(Stored)) /\ Places(at, sers)
    BY <1>3
  <2> QED BY <2>1, <2>2, <2>3, <2>4, NextComes
<1>10. n + 1 \in 1 .. Len(sers) /\ c[1] = sers[n+1][1] /\ Len(sers[n+1]) <= Len(c)
  BY <1>9 DEF Comes
<1>11. PICK W \in Nat : W = Len(sers[n+1]) /\ sers[n+1][1] = W - 7 /\ W <= 7 + S
  BY <1>3, <1>8, <1>10
<1>12. read.items[1] = W - 7
  BY <1>4, <1>8, <1>10, <1>11
<1> QED BY <1>5, <1>8, <1>11, <1>12

\* A read of a body waits for no more than was written with its head
\* (set_body_len in rtpproxy_cmd.h, on_tcp_readv in cnn_mixer.h).
THEOREM ReadsDoNotStarve == Spec => []NoReadStarves
BY Invariant, NoReadStarvesInv, PTL

-----------------------------------------------------------------------------
(***************************************************************************)
(* CommandPipe is implemented.                                             *)
(***************************************************************************)
LEMMA InitPipe == Init => Pipe!PipeInit
BY DEF Init, Pipe!PipeInit

LEMMA StepPipe ==
  ASSUME IInv, [Next]_vars
  PROVE  [Pipe!Send \/ Pipe!Receive]_<<sent, received>>
<1>1. CASE Write
  <2>1. PICK w \in Written : sent' = Append(sent, w) /\ received' = received
    BY <1>1, WriteInv
  <2>2. Pipe!Send
    BY <2>1 DEF Pipe!Send
  <2> QED BY <2>2
<1>2. CASE Break
  BY <1>2 DEF Break
<1>3. CASE HeadRead
  BY <1>3, HeadReadInv
<1>4. CASE BodyRead
  <2>1. /\ sent' = sent /\ Len(received) < Len(sent)
        /\ received' = Append(received, sent[Len(received) + 1])
    BY <1>4, BodyReadInv
  <2>2. Pipe!Receive
    BY <2>1 DEF Pipe!Receive
  <2> QED BY <2>2
<1>5. CASE ReadFails
  BY <1>5, ReadFailsInv
<1>6. CASE UNCHANGED vars
  BY <1>6 DEF vars
<1> QED BY <1>1, <1>2, <1>3, <1>4, <1>5, <1>6 DEF Next

\* A connection is a pipe of commands: each is received as it was sent, in the
\* order they were sent (ser and unser of rtpproxy_cmd.h, CnnMixer).
THEOREM ConnectionIsPipe == Spec => KeepsPipe
<1>1. Init => Pipe!PipeInit
  BY InitPipe
<1>2. IInv /\ [Next]_vars => [Pipe!Send \/ Pipe!Receive]_<<sent, received>>
  BY StepPipe
<1>3. Spec => []IInv
  BY Invariant
<1> QED BY <1>1, <1>2, <1>3, PTL DEF Spec, KeepsPipe, Pipe!PipeSpec
=============================================================================
