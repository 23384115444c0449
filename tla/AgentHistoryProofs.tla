------------------------ MODULE AgentHistoryProofs ------------------------
(***************************************************************************)
(* Proofs about what an agent remembers, for any number of calls, messages, *)
(* failures and interruptions.  The parts: what FlattenSeq returns; lists of *)
(* messages; where a summary ends; how a list is cut, and how it is patched; *)
(* then one conjunct of the inductive invariant after the other, each with  *)
(* the lemma that a step keeps it; and the theorems.                        *)
(***************************************************************************)
EXTENDS AgentHistory, FiniteSetTheorems, SequenceTheorems, WellFoundedInduction, TLAPS

-----------------------------------------------------------------------------
(* What FlattenSeq returns *)

\* A set of numbers that holds 0, and with each its successor, holds them all.
LEMMA NatInductive ==
  ASSUME NEW S, 0 \in S, \A n \in Nat : n \in S => n + 1 \in S
  PROVE  Nat \subseteq S
<1> SUFFICES ASSUME Nat \ S # {} PROVE FALSE
  OBVIOUS
<1>1. PICK x \in Nat \ S : \A y \in Nat \ S : <<y, x>> \notin OpToRel(<, Nat)
  <2>1. Nat \ S \in SUBSET Nat
    OBVIOUS
  <2> QED
    BY <2>1, NatLessThanWellFounded, WFMin
<1>2. \A y \in Nat \ S : ~ (y < x)
  BY <1>1, Zenon DEF OpToRel
<1>3. x # 0 /\ x - 1 \in Nat
  OBVIOUS
<1> QED
  BY <1>2, <1>3

LEMMA Further ==
  ASSUME NEW a \in Int, NEW b \in Int, NEW c \in Nat, a <= b
  PROVE  a <= b + c
OBVIOUS

LEMMA NoLess ==
  ASSUME NEW a \in Nat, NEW b \in Nat, NEW c, c = a + b
  PROVE  a <= c /\ c \in Nat
OBVIOUS

\* Each g[i] is ss[1] to ss[i], one after another.
Accumulates(N, ss, g) ==
  /\ N # 0 => g[1] = ss[1]
  /\ \A i \in 1 .. N : i # 1 =>
       /\ Len(g[i]) = Len(g[i - 1]) + Len(ss[i])
       /\ \A j \in 1 .. Len(g[i - 1]) : g[i][j] = g[i - 1][j]
       /\ \A j \in 1 .. Len(ss[i]) : g[i][Len(g[i - 1]) + j] = ss[i][j]
\* The pieces ss begin after off.
Placed(N, off, ss) == off[1] = 0 /\ \A i \in 1 .. N : off[i + 1] = off[i] + Len(ss[i])
InOrder(N, off, ss) ==
  /\ \A i \in 1 .. N, k \in 1 .. N + 1 : i < k => off[i] + Len(ss[i]) <= off[k]
  /\ \A p \in 1 .. off[N + 1] : \E i \in 1 .. N : \E j \in 1 .. Len(ss[i]) : p = off[i] + j
\* What is added up in f, and where each piece begins.
Places(N, ss, f) ==
  {off \in [1 .. N + 1 -> Nat] :
     /\ Placed(N, off, ss) /\ off[N + 1] = Len(f)
     /\ \A i \in 1 .. N : \A j \in 1 .. Len(ss[i]) : f[off[i] + j] = ss[i][j]}

\* What FlattenSeq builds up exists.
LEMMA PrefixesExist ==
  ASSUME NEW ss, NEW N \in Nat
  PROVE  \E g : g = [i \in 1 .. N |-> IF i = 1 THEN ss[1] ELSE g[i - 1] \o ss[i]]
<1> DEFINE Built(n, g) == g = [i \in 1 .. n |-> IF i = 1 THEN ss[1] ELSE g[i - 1] \o ss[i]]
           R == {n \in Nat : \E g : Built(n, g)}
<1>1. Built(0, << >>)
  OBVIOUS
<1>2. ASSUME NEW n \in Nat, NEW g, Built(n, g)
      PROVE  \E h : Built(n + 1, h)
  <2> DEFINE h == [i \in 1 .. n + 1 |-> IF i = 1 THEN ss[1] ELSE g[i - 1] \o ss[i]]
  <2>1. \A i \in 1 .. n : g[i] = IF i = 1 THEN ss[1] ELSE g[i - 1] \o ss[i]
    BY <1>2
  <2>2. \A i \in 1 .. n : h[i] = g[i]
    BY <2>1
  <2>3. \A i \in 1 .. n + 1 : i # 1 => i - 1 \in 1 .. n
    OBVIOUS
  <2>4. \A i \in 1 .. n + 1 : (IF i = 1 THEN ss[1] ELSE g[i - 1] \o ss[i])
                               = (IF i = 1 THEN ss[1] ELSE h[i - 1] \o ss[i])
    <3> HIDE DEF h
    <3> QED
      BY <2>2, <2>3
  <2>5. h = [i \in 1 .. n + 1 |-> IF i = 1 THEN ss[1] ELSE h[i - 1] \o ss[i]]
    BY <2>4
  <2> QED
    BY <2>5
<1> HIDE DEF Built
<1>3. 0 \in R
  BY <1>1
<1>4. \A n \in Nat : n \in R => n + 1 \in R
  BY <1>2
<1> HIDE DEF R
<1>5. N \in R
  BY <1>3, <1>4, NatInductive
<1>6. \E g : Built(N, g)
  BY <1>5 DEF R
<1> QED
  BY <1>6 DEF Built

\* One of the things so built up, for pieces that are sequences.
LEMMA PrefixesTyped ==
  ASSUME NEW S, NEW N \in Nat, NEW ss \in [1 .. N -> Seq(S)], NEW g,
         g = [i \in 1 .. N |-> IF i = 1 THEN ss[1] ELSE g[i - 1] \o ss[i]]
  PROVE  /\ \A i \in 1 .. N : g[i] \in Seq(S)
         /\ Accumulates(N, ss, g)
<1> DEFINE Q == {n \in Nat : n = 0 \/ n > N \/ g[n] \in Seq(S)}
<1>1. \A i \in 1 .. N : g[i] = IF i = 1 THEN ss[1] ELSE g[i - 1] \o ss[i]
  OBVIOUS
<1>2. ASSUME NEW n \in Nat, n \in Q
      PROVE  n + 1 \in Q
  <2>1. CASE n + 1 > N
    BY <2>1
  <2>2. CASE n + 1 <= N /\ n = 0
    <3>1. 1 \in 1 .. N /\ n + 1 = 1
      BY <2>2
    <3>2. g[1] = ss[1] /\ ss[1] \in Seq(S)
      BY <1>1, <3>1
    <3>3. g[n + 1] \in Seq(S)
      BY <3>1, <3>2
    <3> QED
      BY <3>3
  <2>3. CASE n + 1 <= N /\ n # 0
    <3>1. n + 1 \in 1 .. N /\ n + 1 # 1 /\ (n + 1) - 1 = n
      BY <2>3
    <3>2. g[n + 1] = g[n] \o ss[n + 1]
      BY <1>1, <3>1
    <3>3. g[n] \in Seq(S)
      BY <1>2, <2>3
    <3>4. ss[n + 1] \in Seq(S)
      BY <3>1
    <3>5. g[n + 1] \in Seq(S)
      BY <3>2, <3>3, <3>4, ConcatProperties
    <3> QED
      BY <3>5
  <2> QED
    BY <2>1, <2>2, <2>3
<1>3. 0 \in Q
  OBVIOUS
<1> HIDE DEF Q
<1>4. Nat \subseteq Q
  BY <1>2, <1>3, NatInductive
<1>5. \A i \in 1 .. N : g[i] \in Seq(S)
  <2> SUFFICES ASSUME NEW i \in 1 .. N
               PROVE  g[i] \in Seq(S)
    OBVIOUS
  <2>1. i \in Q /\ i \in Nat /\ i # 0 /\ ~(i > N)
    BY <1>4
  <2> QED
    BY <2>1 DEF Q
<1>6. ASSUME NEW i \in 1 .. N, i # 1
      PROVE  /\ Len(g[i]) = Len(g[i - 1]) + Len(ss[i])
             /\ \A j \in 1 .. Len(g[i - 1]) : g[i][j] = g[i - 1][j]
             /\ \A j \in 1 .. Len(ss[i]) : g[i][Len(g[i - 1]) + j] = ss[i][j]
  <2>1. i - 1 \in 1 .. N /\ g[i] = g[i - 1] \o ss[i]
    <3>1. i - 1 \in 1 .. N
      BY <1>6
    <3>2. g[i] = IF i = 1 THEN ss[1] ELSE g[i - 1] \o ss[i]
      BY <1>1, Zenon
    <3> QED
      BY <1>6, <3>1, <3>2
  <2>2. g[i - 1] \in Seq(S) /\ ss[i] \in Seq(S)
    BY <1>5, <2>1
  <2> DEFINE a == g[i - 1]
             b == ss[i]
             c == g[i]
  <2>3. a \in Seq(S) /\ b \in Seq(S) /\ c = a \o b
    BY <2>1, <2>2
  <2> HIDE DEF a, b, c
  <2>4. /\ Len(c) = Len(a) + Len(b)
        /\ \A k \in 1 .. Len(a) + Len(b) : c[k] = IF k <= Len(a) THEN a[k] ELSE b[k - Len(a)]
    BY <2>3, ConcatProperties
  <2>5. Len(a) \in Nat /\ Len(b) \in Nat
    BY <2>3, LenProperties
  <2>6. \A j \in 1 .. Len(a) : c[j] = a[j]
    BY <2>4, <2>5
  <2>7. ASSUME NEW j \in 1 .. Len(b)
        PROVE  c[Len(a) + j] = b[j]
    <3>1. Len(a) + j \in 1 .. Len(a) + Len(b) /\ ~(Len(a) + j <= Len(a)) /\ Len(a) + j - Len(a) = j
      BY <2>5
    <3> QED
      BY <3>1, <2>4
  <2> QED
    BY <2>4, <2>6, <2>7 DEF a, b, c
<1>7. N # 0 => g[1] = ss[1]
  BY <1>1
<1> QED
  BY <1>5, <1>6, <1>7 DEF Accumulates

\* Where each piece begins in the last of them.
LEMMA PrefixOffsets ==
  ASSUME NEW S, NEW N \in Nat, N # 0, NEW ss \in [1 .. N -> Seq(S)], NEW g,
         \A i \in 1 .. N : g[i] \in Seq(S),
         Accumulates(N, ss, g)
  PROVE  Places(N, ss, g[N]) # {}
<1> DEFINE off == [i \in 1 .. N + 1 |-> IF i = 1 THEN 0 ELSE Len(g[i - 1])]
<1>1. \A i \in 1 .. N : Len(g[i]) \in Nat /\ Len(ss[i]) \in Nat
  <2>1. \A i \in 1 .. N : ss[i] \in Seq(S)
    OBVIOUS
  <2> QED
    BY <2>1, LenProperties
<1>2. off \in [1 .. N + 1 -> Nat]
  <2>1. \A i \in 1 .. N + 1 : i # 1 => i - 1 \in 1 .. N
    OBVIOUS
  <2> QED
    BY <1>1, <2>1
<1>3. off[1] = 0 /\ \A i \in 1 .. N + 1 : i # 1 => off[i] = Len(g[i - 1])
  OBVIOUS
<1> HIDE DEF off
<1>4. \A i \in 1 .. N : off[i + 1] = Len(g[i])
  <2>1. \A i \in 1 .. N : i + 1 \in 1 .. N + 1 /\ i + 1 # 1 /\ (i + 1) - 1 = i
    OBVIOUS
  <2> QED
    BY <1>3, <2>1
<1>5. off[N + 1] = Len(g[N])
  BY <1>4
<1>6. ASSUME NEW i \in 1 .. N
      PROVE  off[i + 1] = off[i] + Len(ss[i])
  <2>1. CASE i = 1
    BY <2>1, <1>1, <1>3, <1>4 DEF Accumulates
  <2>2. CASE i # 1
    <3>1. off[i] = Len(g[i - 1])
      BY <2>2, <1>3
    <3> QED
      BY <2>2, <3>1, <1>4 DEF Accumulates
  <2> QED
    BY <2>1, <2>2
<1>7. ASSUME NEW i \in 1 .. N, NEW j \in 1 .. Len(ss[i])
      PROVE  off[i] + j \in 1 .. Len(g[i]) /\ g[i][off[i] + j] = ss[i][j]
  <2>1. Len(ss[i]) \in Nat /\ off[i] \in Nat /\ Len(g[i]) = off[i] + Len(ss[i])
    <3>1. i \in 1 .. N + 1
      OBVIOUS
    <3> QED
      BY <3>1, <1>1, <1>2, <1>4, <1>6
  <2>2. off[i] + j \in 1 .. Len(g[i])
    BY <2>1
  <2>3. CASE i = 1
    <3>1. off[i] + j = j /\ g[i] = ss[i]
      BY <2>3, <1>3 DEF Accumulates
    <3> QED
      BY <2>2, <3>1
  <2>4. CASE i # 1
    <3>1. off[i] = Len(g[i - 1])
      <4>1. i \in 1 .. N + 1
        OBVIOUS
      <4> QED
        BY <4>1, <2>4, <1>3
    <3> QED
      BY <2>2, <2>4, <3>1 DEF Accumulates
  <2> QED
    BY <2>3, <2>4
<1>8. ASSUME NEW i \in 1 .. N, NEW p \in 1 .. Len(g[i])
      PROVE  g[N][p] = g[i][p]
  <2> DEFINE U == {n \in Nat : n < i \/ n > N \/ (p \in 1 .. Len(g[n]) /\ g[n][p] = g[i][p])}
  <2>1. 0 \in U
    OBVIOUS
  <2>2. ASSUME NEW n \in Nat, n \in U
        PROVE  n + 1 \in U
    <3>1. CASE n + 1 < i \/ n + 1 > N
      BY <3>1
    <3>2. CASE n + 1 = i
      BY <3>2
    <3>3. CASE ~(n + 1 <= i) /\ n + 1 <= N
      <4> DEFINE m == n + 1
      <4>1. m \in 1 .. N /\ n \in 1 .. N /\ m # 1 /\ m - 1 = n
        BY <3>3
      <4>2. p \in 1 .. Len(g[n]) /\ g[n][p] = g[i][p]
        BY <2>2, <3>3
      <4> HIDE DEF m
      <4>3. Len(g[m]) = Len(g[n]) + Len(ss[m]) /\ \A k \in 1 .. Len(g[n]) : g[m][k] = g[n][k]
        BY <4>1 DEF Accumulates
      <4>4. Len(g[n]) \in Nat /\ Len(ss[m]) \in Nat
        BY <4>1, <1>1
      <4>5. p \in 1 .. Len(g[m])
        <5>1. p \in Nat /\ 1 <= p /\ p <= Len(g[n])
          BY <4>2, <4>4
        <5>2. Len(g[m]) = Len(g[n]) + Len(ss[m])
          BY <4>3
        <5>3. Len(g[n]) <= Len(g[m]) /\ Len(g[m]) \in Nat
          BY <4>4, <5>2, NoLess, Zenon
        <5> QED
          BY <5>1, <5>3
      <4>6. g[m][p] = g[i][p]
        BY <4>2, <4>3
      <4> QED
        BY <4>5, <4>6 DEF m
    <3> QED
      BY <3>1, <3>2, <3>3
  <2> HIDE DEF U
  <2>3. N \in U
    BY <2>1, <2>2, NatInductive
  <2> QED
    BY <2>3 DEF U
<1>9. ASSUME NEW i \in 1 .. N, NEW j \in 1 .. Len(ss[i])
      PROVE  g[N][off[i] + j] = ss[i][j]
  <2> DEFINE p == off[i] + j
  <2>1. p \in 1 .. Len(g[i]) /\ g[i][p] = ss[i][j]
    BY <1>7
  <2> HIDE DEF p
  <2>2. g[N][p] = g[i][p]
    BY <2>1, <1>8
  <2> QED
    BY <2>1, <2>2 DEF p
<1>10. Placed(N, off, ss)
  BY <1>3, <1>6 DEF Placed
<1>11. off \in Places(N, ss, g[N])
  BY <1>2, <1>5, <1>9, <1>10 DEF Places
<1> QED
  BY <1>11

\* The pieces that FlattenSeq concatenates, and where each begins.
LEMMA Flattened ==
  ASSUME NEW S, NEW N \in Nat, NEW ss \in [1 .. N -> Seq(S)]
  PROVE  FlattenSeq(ss) \in Seq(S) /\ Places(N, ss, FlattenSeq(ss)) # {}
<1> DEFINE F == FlattenSeq(ss)
<1>1. Len(ss) = N /\ DOMAIN ss = 1 .. N
  <2>1. ss \in Seq(Seq(S))
    BY SeqDef
  <2> QED
    BY <2>1, LenProperties
<1>2. CASE N = 0
  <2>1. F = ss /\ ss = << >>
    BY <1>1, <1>2 DEF FlattenSeq
  <2> HIDE DEF F
  <2>2. F \in Seq(S) /\ Len(F) = 0
    BY <2>1, EmptySeq
  <2>3. \E off \in [1 .. N + 1 -> Nat] : off[1] = 0 /\ off[N + 1] = 0
    <3> DEFINE off == [i \in 1 .. N + 1 |-> 0]
    <3>1. off \in [1 .. N + 1 -> Nat] /\ off[1] = 0 /\ off[N + 1] = 0
      BY <1>2
    <3> HIDE DEF off
    <3> QED
      BY <3>1
  <2>4. 1 .. N = {}
    BY <1>2
  <2>5. Places(N, ss, F) # {}
    BY <2>2, <2>3, <2>4 DEF Placed, Places
  <2> QED
    BY <2>2, <2>5 DEF F
<1>3. CASE N # 0
  <2> DEFINE g == CHOOSE h : h = [i \in 1 .. N |-> IF i = 1 THEN ss[1] ELSE h[i - 1] \o ss[i]]
  <2>1. g = [i \in 1 .. N |-> IF i = 1 THEN ss[1] ELSE g[i - 1] \o ss[i]]
    BY PrefixesExist
  <2>2. F = g[N]
    BY <1>1, <1>3 DEF FlattenSeq
  <2> HIDE DEF g
  <2>3. (\A i \in 1 .. N : g[i] \in Seq(S)) /\ Accumulates(N, ss, g)
    BY <2>1, PrefixesTyped, Zenon
  <2>4. Places(N, ss, g[N]) # {}
    BY <1>3, <2>3, PrefixOffsets
  <2>5. F \in Seq(S)
    BY <1>3, <2>2, <2>3
  <2> HIDE DEF F
  <2> QED
    BY <2>2, <2>4, <2>5 DEF F
<1> QED
  BY <1>2, <1>3

\* The places of one piece come before those of a later piece, and every place is in one.
LEMMA Offsets ==
  ASSUME NEW N \in Nat, NEW off \in [1 .. N + 1 -> Nat], NEW ss,
         \A i \in 1 .. N : Len(ss[i]) \in Nat, Placed(N, off, ss)
  PROVE  InOrder(N, off, ss)
<1>1. ASSUME NEW i \in 1 .. N, NEW k \in 1 .. N + 1, i < k
      PROVE  off[i] + Len(ss[i]) <= off[k]
  <2> DEFINE U == {n \in Nat : i + 1 + n <= N + 1 => off[i] + Len(ss[i]) <= off[i + 1 + n]}
  <2>1. 0 \in U
    <3>1. off[i + 1] = off[i] + Len(ss[i]) /\ i + 1 + 0 = i + 1
      BY DEF Placed
    <3>2. off[i] \in Nat /\ Len(ss[i]) \in Nat
      OBVIOUS
    <3> QED
      BY <3>1, <3>2
  <2>2. ASSUME NEW n \in Nat, n \in U
        PROVE  n + 1 \in U
    <3> DEFINE m == i + 1 + n
    <3> SUFFICES ASSUME i + 1 + (n + 1) <= N + 1
                 PROVE  off[i] + Len(ss[i]) <= off[m + 1]
      <4>1. m + 1 = i + 1 + (n + 1)
        OBVIOUS
      <4> QED
        BY <4>1
    <3>1. m \in 1 .. N /\ m + 1 = i + 1 + (n + 1) /\ m <= N + 1
      OBVIOUS
    <3>2. off[i] + Len(ss[i]) <= off[m]
      BY <2>2
    <3>3. off[m + 1] = off[m] + Len(ss[m]) /\ off[m] \in Nat /\ Len(ss[m]) \in Nat /\ off[m + 1] \in Nat
      BY <3>1 DEF Placed
    <3>4. off[i] \in Nat /\ Len(ss[i]) \in Nat
      OBVIOUS
    <3> HIDE DEF m
    <3>5. off[i] + Len(ss[i]) <= off[m + 1]
      <4>1. off[i] + Len(ss[i]) \in Int /\ off[m] \in Int
        BY <3>3, <3>4
      <4>2. off[i] + Len(ss[i]) <= off[m] + Len(ss[m])
        BY <3>2, <3>3, <4>1, Further, Zenon
      <4> QED
        BY <3>3, <4>2, Zenon
    <3> QED
      BY <3>5
  <2> HIDE DEF U
  <2>3. k - i - 1 \in U
    <3>1. k - i - 1 \in Nat
      BY <1>1
    <3> QED
      BY <2>1, <2>2, <3>1, NatInductive
  <2>4. i + 1 + (k - i - 1) = k
    OBVIOUS
  <2> QED
    BY <2>3, <2>4 DEF U
<1>2. ASSUME NEW p \in 1 .. off[N + 1]
      PROVE  \E i \in 1 .. N : \E j \in 1 .. Len(ss[i]) : p = off[i] + j
  <2> DEFINE V == {n \in Nat : n <= N => \/ off[n + 1] < p
                                         \/ \E i \in 1 .. N : \E j \in 1 .. Len(ss[i]) : p = off[i] + j}
  <2>1. 0 \in V
    <3>1. off[0 + 1] = 0
      BY DEF Placed
    <3> QED
      BY <1>2, <3>1
  <2>2. ASSUME NEW n \in Nat, n \in V
        PROVE  n + 1 \in V
    <3> SUFFICES ASSUME n + 1 <= N, off[n + 1] < p, ~(off[n + 2] < p)
                 PROVE  \E i \in 1 .. N : \E j \in 1 .. Len(ss[i]) : p = off[i] + j
      <4>1. (n + 1) + 1 = n + 2
        OBVIOUS
      <4> QED
        BY <2>2, <4>1
    <3>1. n + 1 \in 1 .. N /\ (n + 1) + 1 = n + 2
      OBVIOUS
    <3>2. off[n + 2] = off[n + 1] + Len(ss[n + 1])
      BY <3>1 DEF Placed
    <3>3. off[n + 1] \in Nat /\ Len(ss[n + 1]) \in Nat /\ off[N + 1] \in Nat
      BY <3>1
    <3>4. p - off[n + 1] \in 1 .. Len(ss[n + 1]) /\ p = off[n + 1] + (p - off[n + 1])
      BY <3>2, <3>3
    <3> QED
      BY <3>1, <3>4
  <2> HIDE DEF V
  <2>3. N \in V
    BY <2>1, <2>2, NatInductive
  <2>4. ~(off[N + 1] < p)
    OBVIOUS
  <2> QED
    BY <2>3, <2>4 DEF V
<1> QED
  BY <1>1, <1>2 DEF InOrder

-----------------------------------------------------------------------------
(* Messages and lists of them *)

LEMMA Messages ==
  ASSUME NEW ms \in Seq(Message)
  PROVE  /\ Len(ms) \in Nat /\ DOMAIN ms = 1 .. Len(ms)
         /\ \A i \in 1 .. Len(ms) :
              /\ ms[i] \in Message /\ ms[i].id \in Nat /\ ms[i].kind \in {"human", "ai", "tool"}
              /\ ms[i].calls \in SUBSET Call /\ ms[i].stub \in BOOLEAN
<1>1. Len(ms) \in Nat /\ DOMAIN ms = 1 .. Len(ms)
  BY LenProperties
<1>2. \A i \in 1 .. Len(ms) : ms[i] \in Message
  BY ElementOfSeq
<1> QED
  BY <1>1, <1>2 DEF Message

LEMMA NewMessage ==
  ASSUME NEW i \in Nat, NEW k \in {"human", "ai", "tool"}, NEW cs \in SUBSET Call
  PROVE  /\ New(i, k, cs) \in Message /\ New(i, k, cs).id = i /\ New(i, k, cs).kind = k
         /\ New(i, k, cs).calls = cs /\ New(i, k, cs).stub = FALSE
BY DEF New, Message

\* A list of messages that answer one call of cs each, with ids after n.
AreResults(rs, cs, stubs, n) ==
  /\ rs \in Seq(Message) /\ Len(rs) = Cardinality(cs) /\ Len(rs) \in Nat
  /\ \A k \in 1 .. Len(rs) :
       /\ rs[k].id = n + k /\ rs[k].kind = "tool"
       /\ \E c \in cs : rs[k].calls = {c} /\ rs[k].stub = (c \in stubs)
  /\ \A c \in cs : \E k \in 1 .. Len(rs) : rs[k].calls = {c}

LEMMA ResultsAre ==
  ASSUME NEW cs \in SUBSET Call, NEW stubs, NEW n \in Nat
  PROVE  AreResults(Results(cs, stubs, n), cs, stubs, n)
<1> DEFINE m == Cardinality(cs)
           s == SetToSeq(cs)
<1>1. IsFiniteSet(cs)
  BY CallAssumption, FS_Subset
<1>2. m \in Nat /\ \E f \in [1 .. m -> cs] : IsInjective(f) /\ \A c \in cs : \E k \in 1 .. m : f[k] = c
  BY <1>1, FS_CardinalityType DEF ExistsBijection, Bijection, Injection, Surjection
<1>3. m \in Nat /\ \E f \in [1 .. m -> cs] : IsInjective(f)
  BY <1>2
<1>4. s \in [1 .. m -> cs] /\ IsInjective(s)
  BY <1>3 DEF SetToSeq
<1> HIDE DEF s
<1>5. \A c \in cs : \E k \in 1 .. m : s[k] = c
  <2>1. s \in Injection(1 .. m, cs)
    BY <1>4 DEF Injection, IsInjective
  <2>2. IsFiniteSet(1 .. m) /\ Cardinality(1 .. m) = m
    BY <1>3, FS_Interval
  <2>3. s \in Surjection(1 .. m, cs)
    BY <1>1, <2>1, <2>2, FS_Injection
  <2> QED
    BY <2>3 DEF Surjection
<1> DEFINE r(k) == [id |-> n + k, kind |-> "tool", calls |-> {s[k]}, stub |-> s[k] \in stubs]
           rs == [k \in 1 .. m |-> r(k)]
<1>6. Results(cs, stubs, n) = rs
  BY <1>4 DEF Results, s
<1>7. \A k \in 1 .. m : r(k) \in Message
  <2> SUFFICES ASSUME NEW k \in 1 .. m
               PROVE  r(k) \in Message
    OBVIOUS
  <2>1. s[k] \in cs /\ n + k \in Nat
    BY <1>4
  <2>2. {s[k]} \in SUBSET Call
    BY <2>1
  <2> QED
    BY <2>1, <2>2 DEF Message
<1>8. rs \in Seq(Message) /\ Len(rs) = m
  <2>1. rs \in [1 .. m -> Message]
    BY <1>7
  <2> HIDE DEF rs
  <2>2. rs \in Seq(Message)
    BY <1>3, <2>1, SeqDef
  <2> QED
    BY <1>3, <2>1, <2>2, LenProperties
<1>9. \A k \in 1 .. m : /\ rs[k].id = n + k /\ rs[k].kind = "tool"
                        /\ rs[k].calls = {s[k]} /\ rs[k].stub = (s[k] \in stubs)
  OBVIOUS
<1>10. \A k \in 1 .. m : s[k] \in cs
  BY <1>4
<1> HIDE DEF rs, m
<1>11. \A c \in cs : \E k \in 1 .. m : rs[k].calls = {c}
  BY <1>5, <1>9
<1> QED
  BY <1>3, <1>6, <1>8, <1>9, <1>10, <1>11 DEF AreResults, m

LEMMA NoResults ==
  ASSUME NEW ms \in Seq(Message), NEW stubs, NEW n \in Nat
  PROVE  ms \o Results({}, stubs, n) = ms
<1>1. AreResults(Results({}, stubs, n), {}, stubs, n) /\ Cardinality({}) = 0
  BY ResultsAre, FS_EmptySet
<1>2. Results({}, stubs, n) \in Seq(Message) /\ Len(Results({}, stubs, n)) = 0
  BY <1>1 DEF AreResults
<1>3. Results({}, stubs, n) = << >>
  BY <1>2, EmptySeq
<1> QED
  BY <1>3, ConcatEmptySeq

\* ms, and the messages of rs after it.
Joins(ns, ms, rs) ==
  /\ ns \in Seq(Message) /\ Len(ns) = Len(ms) + Len(rs)
  /\ \A i \in 1 .. Len(ms) : ns[i] = ms[i]
  /\ \A k \in 1 .. Len(rs) : ns[Len(ms) + k] = rs[k]

LEMMA Joined ==
  ASSUME NEW ms \in Seq(Message), NEW rs \in Seq(Message)
  PROVE  Joins(ms \o rs, ms, rs)
<1>1. Len(ms) \in Nat /\ Len(rs) \in Nat
  BY LenProperties
<1>2. /\ ms \o rs \in Seq(Message) /\ Len(ms \o rs) = Len(ms) + Len(rs)
      /\ \A i \in 1 .. Len(ms) + Len(rs) :
           (ms \o rs)[i] = IF i <= Len(ms) THEN ms[i] ELSE rs[i - Len(ms)]
  BY ConcatProperties
<1>3. \A i \in 1 .. Len(ms) : (ms \o rs)[i] = ms[i]
  BY <1>1, <1>2
<1>4. ASSUME NEW k \in 1 .. Len(rs)
      PROVE  (ms \o rs)[Len(ms) + k] = rs[k]
  <2>1. Len(ms) + k \in 1 .. Len(ms) + Len(rs) /\ ~(Len(ms) + k <= Len(ms)) /\ Len(ms) + k - Len(ms) = k
    BY <1>1
  <2> QED
    BY <2>1, <1>2
<1> QED
  BY <1>2, <1>3, <1>4 DEF Joins

LEMMA Appended ==
  ASSUME NEW ms \in Seq(Message), NEW m \in Message
  PROVE  Joins(Append(ms, m), ms, <<m>>) /\ Append(ms, m) = ms \o <<m>>
<1>1. <<m>> \in Seq(Message)
  OBVIOUS
<1>2. Append(ms, m) = ms \o <<m>>
  BY AppendIsConcat
<1> QED
  BY <1>1, <1>2, Joined

\* The messages of ms, with the same ids, kinds and calls, and any number more.
Grows(ms, ns) ==
  /\ Len(ms) <= Len(ns)
  /\ \A i \in 1 .. Len(ms) :
       ns[i].id = ms[i].id /\ ns[i].kind = ms[i].kind /\ ns[i].calls = ms[i].calls
\* The same, whatever their calls.
Prolongs(ms, ns) ==
  /\ Len(ms) <= Len(ns)
  /\ \A i \in 1 .. Len(ms) : ns[i].id = ms[i].id /\ ns[i].kind = ms[i].kind

LEMMA GrowsProlongs ==
  ASSUME NEW ms, NEW ns, Grows(ms, ns)
  PROVE  Prolongs(ms, ns)
BY DEF Grows, Prolongs

LEMMA JoinsGrows ==
  ASSUME NEW ms \in Seq(Message), NEW rs \in Seq(Message), NEW ns, Joins(ns, ms, rs)
  PROVE  Grows(ms, ns)
<1>1. Len(ms) \in Nat /\ Len(rs) \in Nat
  BY LenProperties
<1> QED
  BY <1>1 DEF Joins, Grows

-----------------------------------------------------------------------------
(* Where a summary ends *)

\* The message after the cutoff is there, and is no result; those before it are covered.
Fits(ms, e) ==
  e # None => /\ e.cutoff < Len(ms) /\ ms[e.cutoff + 1].kind # "tool"
              /\ Ids(SubSeq(ms, 1, e.cutoff)) = e.covers
\* A result answers some call.
Answers(ms) == \A i \in DOMAIN ms : ms[i].kind = "tool" => ms[i].calls # {}
HeadIds(ms, n) == {ms[i].id : i \in 1 .. n} \ {0}

LEMMA SomeEvent ==
  ASSUME NEW e \in Maybe(Event), e # None
  PROVE  e \in Event /\ e.cutoff \in Nat /\ e.covers \in SUBSET Nat /\ e.saved \in BOOLEAN
BY DEF Maybe, Event

LEMMA IdsOfHead ==
  ASSUME NEW ms \in Seq(Message), NEW n \in 0 .. Len(ms)
  PROVE  Ids(SubSeq(ms, 1, n)) = HeadIds(ms, n)
<1> DEFINE h == SubSeq(ms, 1, n)
<1>1. Len(ms) \in Nat /\ \A i \in 1 .. n : ms[i] \in Message
  BY Messages
<1>2. h \in Seq(Message) /\ Len(h) = n /\ \A i \in 1 .. n : h[i] = ms[i]
  <2>1. n \in Int /\ 1 \in Int
    BY <1>1
  <2>2. /\ h \in Seq(Message) /\ Len(h) = IF 1 <= n THEN n - 1 + 1 ELSE 0
        /\ \A i \in 1 .. n - 1 + 1 : h[i] = ms[1 + i - 1]
    BY <1>1, <2>1, SubSeqProperties
  <2>3. Len(h) = n
    BY <1>1, <2>2
  <2>4. \A i \in 1 .. n : i \in 1 .. n - 1 + 1 /\ 1 + i - 1 = i
    BY <1>1
  <2> HIDE DEF h
  <2> QED
    BY <2>2, <2>3, <2>4
<1> HIDE DEF h
<1>3. DOMAIN h = 1 .. n
  BY <1>2, LenProperties
<1>4. Ids(h) = HeadIds(ms, n)
  BY <1>2, <1>3 DEF Ids, HeadIds
<1> QED
  BY <1>4 DEF h

LEMMA FitsIs ==
  ASSUME NEW ms \in Seq(Message), NEW e \in Maybe(Event), e # None
  PROVE  Fits(ms, e) <=> /\ e.cutoff < Len(ms) /\ ms[e.cutoff + 1].kind # "tool"
                         /\ HeadIds(ms, e.cutoff) = e.covers
<1>1. e.cutoff \in Nat /\ Len(ms) \in Nat
  BY SomeEvent, Messages
<1>2. e.cutoff < Len(ms) => Ids(SubSeq(ms, 1, e.cutoff)) = HeadIds(ms, e.cutoff)
  BY <1>1, IdsOfHead
<1> QED
  BY <1>2 DEF Fits

\* What an event says of a list it says of one with the same head.
LEMMA FitsSameHead ==
  ASSUME NEW ms \in Seq(Message), NEW ns \in Seq(Message), NEW e \in Maybe(Event),
         Fits(ms, e),
         e # None => \A i \in 1 .. e.cutoff + 1 :
                       i <= Len(ns) /\ ns[i].id = ms[i].id /\ ns[i].kind = ms[i].kind
  PROVE  Fits(ns, e)
<1> SUFFICES ASSUME e # None PROVE Fits(ns, e)
  BY DEF Fits
<1> DEFINE c == e.cutoff
<1>1. c \in Nat /\ Len(ms) \in Nat /\ Len(ns) \in Nat
  BY SomeEvent, Messages
<1>2. /\ c < Len(ms) /\ ms[c + 1].kind # "tool" /\ HeadIds(ms, c) = e.covers
  BY FitsIs
<1>3. \A i \in 1 .. c + 1 : i <= Len(ns) /\ ns[i].id = ms[i].id /\ ns[i].kind = ms[i].kind
  OBVIOUS
<1> HIDE DEF c
<1>4. c + 1 \in 1 .. c + 1 /\ \A i \in 1 .. c : i \in 1 .. c + 1
  BY <1>1
<1>5. c < Len(ns) /\ ns[c + 1].kind # "tool"
  BY <1>1, <1>2, <1>3, <1>4
<1>6. HeadIds(ns, c) = HeadIds(ms, c)
  BY <1>3, <1>4 DEF HeadIds
<1> QED
  BY <1>2, <1>5, <1>6, FitsIs DEF c

LEMMA FitsProlonged ==
  ASSUME NEW ms \in Seq(Message), NEW ns \in Seq(Message), NEW e \in Maybe(Event),
         Fits(ms, e), Prolongs(ms, ns)
  PROVE  Fits(ns, e)
<1> SUFFICES ASSUME e # None
             PROVE  \A i \in 1 .. e.cutoff + 1 :
                      i <= Len(ns) /\ ns[i].id = ms[i].id /\ ns[i].kind = ms[i].kind
  BY FitsSameHead
<1>1. e.cutoff \in Nat /\ Len(ms) \in Nat /\ Len(ns) \in Nat /\ e.cutoff < Len(ms)
  BY SomeEvent, Messages DEF Fits
<1>2. Len(ms) <= Len(ns) /\ \A i \in 1 .. Len(ms) : ns[i].id = ms[i].id /\ ns[i].kind = ms[i].kind
  BY DEF Prolongs
<1>3. \A i \in 1 .. e.cutoff + 1 : i \in 1 .. Len(ms) /\ i <= Len(ns)
  BY <1>1, <1>2
<1> QED
  BY <1>2, <1>3

-----------------------------------------------------------------------------
(* The end of a list, after a summary *)

LEMMA TailTyped ==
  ASSUME NEW ms \in Seq(Message), NEW n \in Nat
  PROVE  /\ SubSeq(ms, n + 1, Len(ms)) \in Seq(Message)
         /\ n <= Len(ms) =>
              /\ Len(SubSeq(ms, n + 1, Len(ms))) = Len(ms) - n
              /\ \A k \in 1 .. Len(ms) - n : SubSeq(ms, n + 1, Len(ms))[k] = ms[n + k]
<1> DEFINE t == SubSeq(ms, n + 1, Len(ms))
<1>1. Len(ms) \in Nat /\ \A i \in n + 1 .. Len(ms) : ms[i] \in Message
  BY Messages
<1>2. n + 1 \in Int /\ Len(ms) \in Int
  BY <1>1
<1>3. /\ t \in Seq(Message) /\ Len(t) = IF n + 1 <= Len(ms) THEN Len(ms) - (n + 1) + 1 ELSE 0
      /\ \A k \in 1 .. Len(ms) - (n + 1) + 1 : t[k] = ms[n + 1 + k - 1]
  BY <1>1, <1>2, SubSeqProperties
<1> HIDE DEF t
<1>4. n <= Len(ms) => Len(t) = Len(ms) - n
  BY <1>1, <1>3
<1>5. \A k \in 1 .. Len(ms) - n : t[k] = ms[n + k]
  <2> SUFFICES ASSUME NEW k \in 1 .. Len(ms) - n
               PROVE  t[k] = ms[n + k]
    OBVIOUS
  <2>1. k \in 1 .. Len(ms) - (n + 1) + 1 /\ n + 1 + k - 1 = n + k
    BY <1>1
  <2> QED
    BY <1>3, <2>1
<1> QED
  BY <1>3, <1>4, <1>5 DEF t

LEMMA SummaryTyped ==
  Summary \in Message /\ Summary.id = 0 /\ Summary.kind = "human" /\ Summary.calls = {}
  /\ <<Summary>> \in Seq(Message)
<1>1. Summary \in Message /\ Summary.id = 0 /\ Summary.kind = "human" /\ Summary.calls = {}
  BY DEF Summary, New, Message
<1>2. <<Summary>> \in Seq(Message)
  BY <1>1
<1> QED
  BY <1>1, <1>2

\* A message and the tail ks of ms from n on, up to what is a stub.
Follows(vs, ms, n) ==
  /\ vs \in Seq(Message) /\ n < Len(ms) /\ Len(vs) = Len(ms) - n + 1
  /\ vs[1].id = 0 /\ vs[1].kind = "human" /\ vs[1].calls = {}
  /\ \A k \in 1 .. Len(ms) - n :
       /\ vs[k + 1].id = ms[n + k].id
       /\ vs[k + 1].kind = ms[n + k].kind /\ vs[k + 1].calls = ms[n + k].calls

LEMMA SummaryFollows ==
  ASSUME NEW ms \in Seq(Message), NEW n \in Nat, n < Len(ms), NEW ks \in Seq(Message),
         Len(ks) = Len(ms) - n,
         \A k \in 1 .. Len(ms) - n :
           ks[k].id = ms[n + k].id /\ ks[k].kind = ms[n + k].kind /\ ks[k].calls = ms[n + k].calls
  PROVE  Follows(<<Summary>> \o ks, ms, n)
<1> DEFINE s == <<Summary>>
           vs == s \o ks
<1>1. s \in Seq(Message) /\ Len(s) = 1 /\ s[1] = Summary
  BY SummaryTyped
<1>2. Joins(vs, s, ks)
  BY <1>1, Joined
<1> HIDE DEF s, vs
<1>3. vs \in Seq(Message) /\ Len(vs) = 1 + Len(ks) /\ vs[1] = Summary
      /\ \A k \in 1 .. Len(ks) : vs[1 + k] = ks[k]
  BY <1>1, <1>2 DEF Joins
<1>4. Len(ms) \in Nat
  BY Messages
<1>5. Len(vs) = Len(ms) - n + 1
  BY <1>3, <1>4
<1>6. vs[1].id = 0 /\ vs[1].kind = "human" /\ vs[1].calls = {}
  BY <1>3, SummaryTyped
<1>7. \A k \in 1 .. Len(ms) - n : vs[k + 1] = ks[k]
  BY <1>3, <1>4
<1>8. Follows(vs, ms, n)
  BY <1>3, <1>5, <1>6, <1>7 DEF Follows
<1> QED
  BY <1>8 DEF s, vs

LEMMA AfterIs ==
  ASSUME NEW ms, NEW i, NEW c
  PROVE  c \in After(ms, i) <=>
           \E j \in i + 1 .. Len(ms) :
             c \in ms[j].calls /\ \A l \in i + 1 .. j : ms[l].kind = "tool"
BY DEF After

LEMMA FollowsAnswered ==
  ASSUME NEW ms \in Seq(Message), NEW n \in Nat, NEW vs, Follows(vs, ms, n), CallsAnswered(ms)
  PROVE  CallsAnswered(vs)
<1>1. Len(ms) \in Nat /\ Len(vs) \in Nat /\ DOMAIN vs = 1 .. Len(vs) /\ DOMAIN ms = 1 .. Len(ms)
      /\ Len(vs) = Len(ms) - n + 1 /\ n < Len(ms)
  BY Messages DEF Follows
<1>2. /\ vs[1].kind = "human"
      /\ \A k \in 1 .. Len(ms) - n :
           vs[k + 1].kind = ms[n + k].kind /\ vs[k + 1].calls = ms[n + k].calls
  BY DEF Follows
<1>3. SUFFICES ASSUME NEW i \in 1 .. Len(vs), vs[i].kind = "ai", NEW c \in vs[i].calls
               PROVE  c \in After(vs, i)
  BY <1>1 DEF CallsAnswered
<1>4. i # 1
  BY <1>2, <1>3
<1> DEFINE k == i - 1
<1>5. k \in 1 .. Len(ms) - n /\ i = k + 1 /\ n + k \in 1 .. Len(ms)
  BY <1>1, <1>3, <1>4
<1> HIDE DEF k
<1>6. ms[n + k].kind = "ai" /\ c \in ms[n + k].calls
  BY <1>2, <1>3, <1>5
<1>7. c \in After(ms, n + k)
  BY <1>1, <1>5, <1>6 DEF CallsAnswered
<1>8. PICK j \in n + k + 1 .. Len(ms) :
        c \in ms[j].calls /\ \A l \in n + k + 1 .. j : ms[l].kind = "tool"
  BY <1>7, AfterIs
<1> DEFINE m == j - n + 1
<1>9. m \in i + 1 .. Len(vs) /\ j - n \in 1 .. Len(ms) - n /\ m = (j - n) + 1 /\ n + (j - n) = j
  BY <1>1, <1>5, <1>8
<1>10. c \in vs[m].calls
  BY <1>2, <1>8, <1>9
<1>11. ASSUME NEW l \in i + 1 .. m
       PROVE  vs[l].kind = "tool"
  <2>1. l - 1 \in 1 .. Len(ms) - n /\ l = (l - 1) + 1 /\ n + (l - 1) \in n + k + 1 .. j
    BY <1>1, <1>5, <1>9
  <2> QED
    BY <2>1, <1>2, <1>8
<1> HIDE DEF m
<1> QED
  BY <1>9, <1>10, <1>11, AfterIs

LEMMA FollowsCalled ==
  ASSUME NEW ms \in Seq(Message), NEW n \in Nat, NEW vs, Follows(vs, ms, n),
         ResultsCalled(ms), ms[n + 1].kind # "tool"
  PROVE  ResultsCalled(vs)
<1>1. Len(ms) \in Nat /\ Len(vs) \in Nat /\ DOMAIN vs = 1 .. Len(vs) /\ DOMAIN ms = 1 .. Len(ms)
      /\ Len(vs) = Len(ms) - n + 1 /\ n < Len(ms)
  BY Messages DEF Follows
<1>2. /\ vs[1].kind = "human"
      /\ \A k \in 1 .. Len(ms) - n :
           vs[k + 1].kind = ms[n + k].kind /\ vs[k + 1].calls = ms[n + k].calls
  BY DEF Follows
<1>3. SUFFICES ASSUME NEW i \in 1 .. Len(vs), vs[i].kind = "tool"
               PROVE  \E j \in 1 .. i - 1 : /\ vs[j].kind = "ai" /\ vs[i].calls \subseteq vs[j].calls
                                            /\ \A l \in j + 1 .. i : vs[l].kind = "tool"
  BY <1>1 DEF ResultsCalled
<1>4. i # 1
  BY <1>2, <1>3
<1> DEFINE k == i - 1
<1>5. k \in 1 .. Len(ms) - n /\ i = k + 1 /\ n + k \in 1 .. Len(ms)
  BY <1>1, <1>3, <1>4
<1> HIDE DEF k
<1> DEFINE p == n + k
<1>0. p = n + k
  OBVIOUS
<1> HIDE DEF p
<1>6. p \in DOMAIN ms /\ ms[p].kind = "tool" /\ vs[i].calls = ms[p].calls
  BY <1>1, <1>2, <1>3, <1>5, <1>0
<1>7. PICK j \in 1 .. p - 1 : /\ ms[j].kind = "ai" /\ ms[p].calls \subseteq ms[j].calls
                              /\ \A l \in j + 1 .. p : ms[l].kind = "tool"
  BY <1>6 DEF ResultsCalled
<1>8. j > n
  <2> SUFFICES ASSUME ~(j > n) PROVE FALSE
    OBVIOUS
  <2>1. n + 1 \in j + 1 .. p
    BY <1>1, <1>5, <1>7, <1>0
  <2> QED
    BY <2>1, <1>7
<1> DEFINE m == j - n + 1
<1>9. m \in 1 .. i - 1 /\ j - n \in 1 .. Len(ms) - n /\ m = (j - n) + 1 /\ n + (j - n) = j
  BY <1>1, <1>5, <1>7, <1>8, <1>0
<1>10. vs[m].kind = "ai" /\ vs[i].calls \subseteq vs[m].calls
  BY <1>2, <1>6, <1>7, <1>9
<1>11. ASSUME NEW l \in m + 1 .. i
       PROVE  vs[l].kind = "tool"
  <2>1. l - 1 \in 1 .. Len(ms) - n /\ l = (l - 1) + 1 /\ n + (l - 1) \in j + 1 .. p
    BY <1>1, <1>5, <1>8, <1>9, <1>0
  <2> QED
    BY <2>1, <1>2, <1>7
<1> HIDE DEF m
<1> QED
  BY <1>9, <1>10, <1>11

-----------------------------------------------------------------------------
(* Cutting a list *)

LEMMA LeastIs ==
  ASSUME NEW S \in SUBSET Nat, S # {}
  PROVE  Min(S) \in S /\ \A y \in S : Min(S) <= y
<1>1. PICK x \in S : \A y \in S : <<y, x>> \notin OpToRel(<, Nat)
  BY NatLessThanWellFounded, WFMin
<1>2. \A y \in S : ~ (y < x)
  BY <1>1, Zenon DEF OpToRel
<1>3. \A y \in S : x <= y
  BY <1>2
<1> QED
  BY <1>3 DEF Min

LEMMA GreatestIs ==
  ASSUME NEW n \in Nat, NEW R \in SUBSET (1 .. n), R # {}
  PROVE  Max(R) \in R
<1>1. PICK T \in SUBSET Nat : T = {n - i : i \in R}
  <2>1. \A i \in R : n - i \in Nat
    OBVIOUS
  <2>2. {n - i : i \in R} \in SUBSET Nat
    BY <2>1
  <2> QED
    BY <2>2, Zenon
<1>2. T # {}
  BY <1>1
<1>3. Min(T) \in T /\ \A y \in T : Min(T) <= y
  BY <1>2, LeastIs
<1>4. PICK i \in R : Min(T) = n - i
  BY <1>1, <1>3
<1>5. \A j \in R : n - j \in T
  BY <1>1
<1>6. \A j \in R : i >= j
  BY <1>3, <1>4, <1>5
<1> QED
  BY <1>6 DEF Max

\* A cut leaves a message out and may leave none; if the results follow the messages
\* that made their calls, it keeps a message, and the first it keeps is no result.
LEMMA CutIs ==
  ASSUME NEW ms \in Seq(Message), NEW n \in Cutoffs(ms)
  PROVE  /\ n \in 1 .. Len(ms)
         /\ ResultsCalled(ms) /\ Answers(ms) => n < Len(ms) /\ ms[n + 1].kind # "tool"
<1>1. Len(ms) \in Nat /\ DOMAIN ms = 1 .. Len(ms)
  BY Messages
<1>2. PICK k \in 0 .. Len(ms) - 1 : n = SafePoint(ms, k) /\ n # 0
  BY <1>1 DEF Cutoffs
<1> DEFINE S == {i \in k + 1 .. Len(ms) + 1 : i > Len(ms) \/ ms[i].kind # "tool"}
           stop == Min(S)
           ids == UNION {ms[i].calls : i \in k + 1 .. stop - 1}
           callers == {i \in 1 .. k : ms[i].kind = "ai" /\ ms[i].calls \cap ids # {}}
<1>3. n = IF ms[k + 1].kind # "tool" THEN k ELSE IF callers # {} THEN Max(callers) - 1 ELSE stop - 1
  BY <1>2 DEF SafePoint
<1>4. CASE ms[k + 1].kind # "tool"
  <2>1. n = k
    BY <1>3, <1>4
  <2> QED
    BY <1>1, <1>2, <1>4, <2>1
<1>5. CASE ms[k + 1].kind = "tool"
  <2>1. S \in SUBSET Nat /\ Len(ms) + 1 \in S
    BY <1>1, <1>2
  <2>2. stop \in S
    <3> HIDE DEF S
    <3> QED
      BY <2>1, LeastIs
  <2>3. stop \in k + 2 .. Len(ms) + 1
    BY <1>1, <1>2, <1>5, <2>2
  <2> HIDE DEF S, stop
  <2>4. CASE callers # {}
    <3>1. callers \in SUBSET (1 .. k) /\ k \in Nat
      BY <1>1, <1>2
    <3>2. Max(callers) \in callers
      <4> HIDE DEF callers
      <4> QED
        BY <2>4, <3>1, GreatestIs
    <3> DEFINE m == Max(callers)
    <3>3. m \in 1 .. k /\ ms[m].kind = "ai" /\ n = m - 1
      BY <1>3, <1>5, <2>4, <3>2
    <3> HIDE DEF m
    <3>4. n \in 1 .. Len(ms) /\ n < Len(ms) /\ n + 1 = m
      BY <1>1, <1>2, <3>3
    <3> QED
      BY <3>3, <3>4
  <2>5. CASE callers = {}
    <3>1. n = stop - 1
      BY <1>3, <1>5, <2>5
    <3>2. n \in 1 .. Len(ms)
      BY <1>1, <1>2, <2>3, <3>1
    <3>3. ASSUME ResultsCalled(ms), Answers(ms)
          PROVE  FALSE
      <4>1. k + 1 \in 1 .. Len(ms) /\ k + 1 \in k + 1 .. stop - 1
        BY <1>1, <1>2, <2>3
      <4> DEFINE p == k + 1
      <4>2. p = k + 1 /\ p \in DOMAIN ms /\ ms[p].kind = "tool" /\ p \in k + 1 .. stop - 1
        BY <1>1, <1>5, <4>1
      <4> HIDE DEF p
      <4>3. PICK c : c \in ms[p].calls
        BY <3>3, <4>2 DEF Answers
      <4>4. PICK j \in 1 .. p - 1 : ms[j].kind = "ai" /\ ms[p].calls \subseteq ms[j].calls
        BY <3>3, <4>2 DEF ResultsCalled
      <4>5. c \in ids /\ c \in ms[j].calls
        BY <4>2, <4>3, <4>4
      <4>6. j \in 1 .. k
        BY <4>2, <4>4, <1>2
      <4>7. j \in callers
        <5> HIDE DEF ids
        <5> QED
          BY <4>4, <4>5, <4>6
      <4> QED
        BY <2>5, <4>7
    <3> QED
      BY <3>2, <3>3
  <2> QED
    BY <2>4, <2>5
<1> QED
  BY <1>4, <1>5

-----------------------------------------------------------------------------
(* What the model is shown, and the event that summarizes more of it *)

LEMMA EffectiveTyped ==
  ASSUME NEW ms \in Seq(Message), NEW e \in Maybe(Event)
  PROVE  Effective(ms, e) \in Seq(Message)
<1>1. CASE e = None
  BY <1>1 DEF Effective
<1>2. CASE e # None
  <2>1. SubSeq(ms, e.cutoff + 1, Len(ms)) \in Seq(Message)
    BY <1>2, SomeEvent, TailTyped
  <2>2. <<Summary>> \o SubSeq(ms, e.cutoff + 1, Len(ms)) \in Seq(Message)
    BY <2>1, SummaryTyped, ConcatProperties
  <2> QED
    BY <1>2, <2>2 DEF Effective
<1> QED
  BY <1>1, <1>2

LEMMA TailFollows ==
  ASSUME NEW ms \in Seq(Message), NEW n \in Nat, n < Len(ms)
  PROVE  Follows(<<Summary>> \o SubSeq(ms, n + 1, Len(ms)), ms, n)
<1> DEFINE t == SubSeq(ms, n + 1, Len(ms))
<1>1. Len(ms) \in Nat
  BY Messages
<1>2. t \in Seq(Message) /\ Len(t) = Len(ms) - n /\ \A k \in 1 .. Len(ms) - n : t[k] = ms[n + k]
  BY <1>1, TailTyped
<1> HIDE DEF t
<1>3. Follows(<<Summary>> \o t, ms, n)
  BY <1>2, SummaryFollows
<1> QED
  BY <1>3 DEF t

LEMMA EffectiveFollows ==
  ASSUME NEW ms \in Seq(Message), NEW e \in Maybe(Event), e # None, Fits(ms, e)
  PROVE  Follows(Effective(ms, e), ms, e.cutoff)
<1>1. e.cutoff \in Nat /\ e.cutoff < Len(ms)
  BY SomeEvent DEF Fits
<1>2. Effective(ms, e) = <<Summary>> \o SubSeq(ms, e.cutoff + 1, Len(ms))
  BY DEF Effective
<1> QED
  BY <1>1, <1>2, TailFollows

LEMMA EffectiveCalled ==
  ASSUME NEW ms \in Seq(Message), NEW e \in Maybe(Event), Fits(ms, e),
         ResultsCalled(ms), Answers(ms)
  PROVE  ResultsCalled(Effective(ms, e)) /\ Answers(Effective(ms, e))
<1>1. CASE e = None
  BY <1>1 DEF Effective
<1>2. CASE e # None
  <2> DEFINE vs == Effective(ms, e)
             n == e.cutoff
  <2>1. Follows(vs, ms, n) /\ n \in Nat /\ ms[n + 1].kind # "tool"
    BY <1>2, EffectiveFollows, SomeEvent DEF Fits
  <2> HIDE DEF vs, n
  <2>2. ResultsCalled(vs)
    BY <2>1, FollowsCalled
  <2>3. Answers(vs)
    <3>1. Len(ms) \in Nat /\ DOMAIN ms = 1 .. Len(ms) /\ DOMAIN vs = 1 .. Len(vs) /\ n < Len(ms)
          /\ Len(vs) = Len(ms) - n + 1
      BY <2>1, Messages DEF Follows
    <3>2. SUFFICES ASSUME NEW i \in 1 .. Len(vs), vs[i].kind = "tool"
                   PROVE  vs[i].calls # {}
      BY <3>1 DEF Answers
    <3>3. i # 1
      BY <2>1, <3>2 DEF Follows
    <3>4. i - 1 \in 1 .. Len(ms) - n /\ i = (i - 1) + 1 /\ n + (i - 1) \in DOMAIN ms
      BY <2>1, <3>1, <3>3
    <3>5. vs[i].kind = ms[n + (i - 1)].kind /\ vs[i].calls = ms[n + (i - 1)].calls
      BY <2>1, <3>4 DEF Follows
    <3> QED
      BY <3>2, <3>4, <3>5 DEF Answers
  <2> QED
    BY <2>2, <2>3 DEF vs
<1> QED
  BY <1>1, <1>2

LEMMA EffectiveAnswered ==
  ASSUME NEW ms \in Seq(Message), NEW e \in Maybe(Event), Fits(ms, e), CallsAnswered(ms)
  PROVE  CallsAnswered(Effective(ms, e))
<1>1. CASE e = None
  BY <1>1 DEF Effective
<1>2. CASE e # None
  <2>1. Follows(Effective(ms, e), ms, e.cutoff) /\ e.cutoff \in Nat
    BY <1>2, EffectiveFollows, SomeEvent
  <2> QED
    BY <2>1, FollowsAnswered
<1> QED
  BY <1>1, <1>2

LEMMA IdsTyped ==
  ASSUME NEW ms \in Seq(Message)
  PROVE  Ids(ms) \in SUBSET Nat
BY Messages DEF Ids

LEMMA NewEventTyped ==
  ASSUME NEW ms \in Seq(Message), NEW e \in Maybe(Event), NEW n \in Cutoffs(Effective(ms, e)),
         NEW ok \in BOOLEAN
  PROVE  NewEvent(Effective(ms, e), e, n, ok) \in Event
<1> DEFINE eff == Effective(ms, e)
<1>1. eff \in Seq(Message)
  BY EffectiveTyped
<1>2. n \in 1 .. Len(eff) /\ Len(eff) \in Nat
  BY <1>1, CutIs, Messages
<1> HIDE DEF eff
<1>3. StateCutoff(e, n) \in Nat
  BY <1>2, SomeEvent DEF StateCutoff
<1>4. SubSeq(eff, 1, n) \in Seq(Message)
  <2>1. \A i \in 1 .. n : eff[i] \in Message
    BY <1>1, <1>2, Messages
  <2> QED
    BY <1>2, <2>1, SubSeqProperties
<1>5. Ids(SubSeq(eff, 1, n)) \in SUBSET Nat
  BY <1>4, IdsTyped
<1>6. (IF e = None THEN {} ELSE e.covers) \in SUBSET Nat
  BY SomeEvent
<1>7. NewEvent(eff, e, n, ok) \in Event
  BY <1>3, <1>5, <1>6 DEF NewEvent, Event
<1> QED
  BY <1>7 DEF eff

\* The arithmetic of _compute_state_cutoff is right.
LEMMA NewEventFits ==
  ASSUME NEW ms \in Seq(Message), NEW e \in Maybe(Event), NEW n \in Cutoffs(Effective(ms, e)),
         NEW ok \in BOOLEAN, Fits(ms, e), ResultsCalled(ms), Answers(ms)
  PROVE  Fits(ms, NewEvent(Effective(ms, e), e, n, ok))
<1> DEFINE eff == Effective(ms, e)
           new == NewEvent(eff, e, n, ok)
<1>1. new \in Maybe(Event) /\ new.cutoff = StateCutoff(e, n)
      /\ new.covers = Ids(SubSeq(eff, 1, n)) \cup IF e = None THEN {} ELSE e.covers
  BY NewEventTyped DEF NewEvent, Maybe
<1>2. eff \in Seq(Message) /\ Len(eff) \in Nat /\ Len(ms) \in Nat
  BY EffectiveTyped, Messages
<1>3. n \in 1 .. Len(eff) /\ n < Len(eff) /\ eff[n + 1].kind # "tool"
  BY <1>2, EffectiveCalled, CutIs
<1>4. Ids(SubSeq(eff, 1, n)) = HeadIds(eff, n)
  BY <1>2, <1>3, IdsOfHead
<1> HIDE DEF eff, new
<1>5. CASE e = None
  <2>1. eff = ms
    BY <1>5 DEF eff, Effective
  <2>2. new.cutoff = n /\ new.covers = HeadIds(ms, n)
    BY <1>1, <1>4, <1>5, <2>1 DEF StateCutoff
  <2>3. Fits(ms, new)
    BY <1>1, <1>3, <2>1, <2>2, FitsIs DEF Fits
  <2> QED
    BY <2>3 DEF new, eff
<1>6. CASE e # None
  <2> DEFINE c == e.cutoff
  <2>1. c \in Nat /\ Follows(eff, ms, c)
    BY <1>6, SomeEvent, EffectiveFollows DEF eff
  <2>2. HeadIds(ms, c) = e.covers
    BY <1>6, FitsIs
  <2>3. new.cutoff = c + n - 1 /\ new.covers = HeadIds(eff, n) \cup HeadIds(ms, c)
    BY <1>1, <1>4, <1>6, <2>2 DEF StateCutoff
  <2> HIDE DEF c
  <2>4. /\ c < Len(ms) /\ Len(eff) = Len(ms) - c + 1 /\ eff[1].id = 0
        /\ \A k \in 1 .. Len(ms) - c : eff[k + 1].id = ms[c + k].id /\ eff[k + 1].kind = ms[c + k].kind
    BY <2>1 DEF Follows
  <2> DEFINE d == c + n - 1
  <2>5. d \in Nat /\ d < Len(ms) /\ n \in 1 .. Len(ms) - c /\ d + 1 = c + n
    BY <1>2, <1>3, <2>1, <2>4
  <2>6. ms[d + 1].kind # "tool"
    BY <1>3, <2>4, <2>5
  <2>7. HeadIds(ms, d) = HeadIds(eff, n) \cup HeadIds(ms, c)
    <3>1. ASSUME NEW x \in HeadIds(ms, d)
          PROVE  x \in HeadIds(eff, n) \cup HeadIds(ms, c)
      <4>1. PICK i \in 1 .. d : x = ms[i].id /\ x # 0
        BY DEF HeadIds
      <4>2. CASE i <= c
        <5>1. i \in 1 .. c
          BY <2>1, <2>5, <4>2
        <5> QED
          BY <4>1, <5>1 DEF HeadIds
      <4>3. CASE ~(i <= c)
        <5>1. i - c \in 1 .. Len(ms) - c /\ c + (i - c) = i /\ (i - c) + 1 \in 1 .. n
          BY <2>1, <2>4, <2>5, <4>3, <1>2, <1>3
        <5>2. x = eff[(i - c) + 1].id
          BY <2>4, <4>1, <5>1
        <5> QED
          BY <4>1, <5>1, <5>2 DEF HeadIds
      <4> QED
        BY <4>2, <4>3
    <3>2. ASSUME NEW x \in HeadIds(eff, n)
          PROVE  x \in HeadIds(ms, d)
      <4>1. PICK i \in 1 .. n : x = eff[i].id /\ x # 0
        BY DEF HeadIds
      <4>2. i # 1
        BY <2>4, <4>1
      <4>3. i - 1 \in 1 .. Len(ms) - c /\ (i - 1) + 1 = i /\ c + (i - 1) \in 1 .. d
        BY <2>1, <2>5, <4>2, <1>2, <1>3
      <4>4. x = ms[c + (i - 1)].id
        BY <2>4, <4>1, <4>3
      <4> QED
        BY <4>1, <4>3, <4>4 DEF HeadIds
    <3>3. ASSUME NEW x \in HeadIds(ms, c)
          PROVE  x \in HeadIds(ms, d)
      <4>1. PICK i \in 1 .. c : x = ms[i].id /\ x # 0
        BY DEF HeadIds
      <4>2. i \in 1 .. d
        BY <2>1, <2>5, <1>3
      <4> QED
        BY <4>1, <4>2 DEF HeadIds
    <3> QED
      BY <3>1, <3>2, <3>3
  <2>8. new.cutoff = d /\ new.covers = HeadIds(ms, d)
    BY <2>3, <2>7
  <2> HIDE DEF d
  <2>9. Fits(ms, new)
    BY <1>1, <2>5, <2>6, <2>8, FitsIs DEF Fits
  <2> QED
    BY <2>9 DEF new, eff
<1> QED
  BY <1>5, <1>6

-----------------------------------------------------------------------------
(* The patched list *)

Before(ms, i) == Cardinality({d \in Dangling(ms) : d[1] < i})
DanglingAt(ms, i) == {c \in Call : <<i, c>> \in Dangling(ms)}
Piece(ms, i) == <<ms[i]>> \o Results(DanglingAt(ms, i), {}, born + Before(ms, i))
Pieces(ms) == [i \in 1 .. Len(ms) |-> Piece(ms, i)]

LEMMA PatchIs ==
  ASSUME NEW ms \in Seq(Message)
  PROVE  Patch(ms) = FlattenSeq(Pieces(ms))
<1>1. DOMAIN ms = 1 .. Len(ms)
  BY Messages
<1> QED
  BY <1>1, Zenon DEF Patch, Pieces, Piece, Before, DanglingAt

LEMMA DanglingFinite ==
  ASSUME NEW ms \in Seq(Message)
  PROVE  IsFiniteSet(Dangling(ms)) /\ Cardinality(Dangling(ms)) \in Nat
<1>1. Len(ms) \in Nat /\ DOMAIN ms = 1 .. Len(ms)
  BY Messages
<1>2. IsFiniteSet(1 .. Len(ms)) /\ IsFiniteSet(Call)
  BY <1>1, FS_Interval, CallAssumption
<1>3. IsFiniteSet((1 .. Len(ms)) \X Call)
  BY <1>2, FS_Product
<1>4. Dangling(ms) \in SUBSET ((1 .. Len(ms)) \X Call)
  BY <1>1 DEF Dangling
<1> QED
  BY <1>3, <1>4, FS_Subset, FS_CardinalityType

LEMMA DanglingIs ==
  ASSUME NEW ms \in Seq(Message), NEW i \in 1 .. Len(ms), NEW c
  PROVE  c \in DanglingAt(ms, i) <=>
           c \in Call /\ ms[i].kind = "ai" /\ c \in ms[i].calls /\ c \notin Answered(ms)
<1>1. DOMAIN ms = 1 .. Len(ms)
  BY Messages
<1> QED
  BY <1>1 DEF DanglingAt, Dangling

\* The ids that are given before a message and to its answers.
LEMMA BeforeIs ==
  ASSUME NEW ms \in Seq(Message), NEW i \in 1 .. Len(ms)
  PROVE  /\ Before(ms, i) \in Nat /\ Cardinality(DanglingAt(ms, i)) \in Nat
         /\ IsFiniteSet(DanglingAt(ms, i))
         /\ Before(ms, i) + Cardinality(DanglingAt(ms, i)) <= Cardinality(Dangling(ms))
         /\ \A k \in 1 .. Len(ms) :
              i < k => Before(ms, i) + Cardinality(DanglingAt(ms, i)) <= Before(ms, k)
<1> DEFINE D == Dangling(ms)
           A == {d \in D : d[1] < i}
           B == {d \in D : d[1] = i}
           C == DanglingAt(ms, i)
<1>1. IsFiniteSet(D) /\ A \in SUBSET D /\ B \in SUBSET D /\ C \in SUBSET Call
  BY DanglingFinite DEF DanglingAt
<1>2. \A d \in D : d[1] \in Nat /\ d[2] \in Call /\ d = <<d[1], d[2]>>
  BY Messages DEF Dangling
<1>3. \A c \in C : <<i, c>> \in B
  BY DEF DanglingAt
<1>4. \A d \in B : d[2] \in C /\ d = <<i, d[2]>>
  BY <1>2 DEF DanglingAt
<1>5. A \cap B = {}
  BY <1>2
<1>6. ASSUME NEW k \in 1 .. Len(ms), i < k
      PROVE  A \cup B \in SUBSET {d \in D : d[1] < k} /\ {d \in D : d[1] < k} \in SUBSET D
  BY <1>2, <1>6
<1>7. Before(ms, i) = Cardinality(A) /\ \A k \in 1 .. Len(ms) : Before(ms, k) = Cardinality({d \in D : d[1] < k})
  BY DEF Before
<1> HIDE DEF A, B, C
<1>8. IsFiniteSet(A) /\ IsFiniteSet(B) /\ IsFiniteSet(C) /\ IsFiniteSet(A \cup B)
  BY <1>1, CallAssumption, FS_Subset, FS_Union
<1>9. Cardinality(A) \in Nat /\ Cardinality(B) \in Nat /\ Cardinality(C) \in Nat /\ Cardinality(A \cup B) \in Nat
  BY <1>8, FS_CardinalityType
<1>10. Cardinality(C) = Cardinality(B)
  <2> DEFINE f == [c \in C |-> <<i, c>>]
  <2>1. f \in Bijection(C, B)
    <3>1. f \in [C -> B]
      BY <1>3
    <3>2. \A c, d \in C : f[c] = f[d] => c = d
      OBVIOUS
    <3>3. \A d \in B : \E c \in C : f[c] = d
      BY <1>4
    <3> HIDE DEF f
    <3> QED
      BY <3>1, <3>2, <3>3 DEF Bijection, Injection, Surjection, IsInjective
  <2> QED
    BY <1>8, <2>1, FS_Bijection DEF ExistsBijection
<1>11. Cardinality(A \cup B) = Cardinality(A) + Cardinality(C)
  <2>1. Cardinality(A \cup B) = Cardinality(A) + Cardinality(B) - Cardinality(A \cap B)
    BY <1>8, FS_Union
  <2>2. Cardinality(A \cap B) = 0
    BY <1>5, FS_EmptySet
  <2> QED
    BY <2>1, <2>2, <1>9, <1>10
<1>12. Cardinality(A \cup B) <= Cardinality(D)
  BY <1>1, FS_Subset
<1>13. ASSUME NEW k \in 1 .. Len(ms), i < k
       PROVE  Cardinality(A \cup B) <= Before(ms, k)
  <2> DEFINE E == {d \in D : d[1] < k}
  <2>1. A \cup B \in SUBSET E /\ E \in SUBSET D /\ Before(ms, k) = Cardinality(E)
    BY <1>6, <1>7, <1>13
  <2> HIDE DEF E
  <2>2. IsFiniteSet(E)
    BY <1>1, <2>1, FS_Subset
  <2> QED
    BY <2>1, <2>2, FS_Subset
<1> QED
  BY <1>7, <1>8, <1>9, <1>11, <1>12, <1>13 DEF C

\* A message, and an answer to each of its calls that has none.
PieceSize(ms, i) == 1 + Cardinality(DanglingAt(ms, i))
IsAnswer(m, ms, i, k) ==
  /\ m.id = born + Before(ms, i) + k /\ m.kind = "tool" /\ m.stub = FALSE
  /\ \E c \in DanglingAt(ms, i) : m.calls = {c}

LEMMA PieceIs ==
  ASSUME born \in Nat, NEW ms \in Seq(Message), NEW i \in 1 .. Len(ms)
  PROVE  /\ Piece(ms, i) \in Seq(Message) /\ Len(Piece(ms, i)) = PieceSize(ms, i)
         /\ PieceSize(ms, i) \in Nat \ {0}
         /\ Piece(ms, i)[1] = ms[i]
         /\ \A k \in 1 .. PieceSize(ms, i) - 1 : IsAnswer(Piece(ms, i)[1 + k], ms, i, k)
         /\ \A c \in DanglingAt(ms, i) :
              \E k \in 1 .. PieceSize(ms, i) - 1 : Piece(ms, i)[1 + k].calls = {c}
<1> DEFINE C == DanglingAt(ms, i)
           n == born + Before(ms, i)
           rs == Results(C, {}, n)
           m == <<ms[i]>>
           ps == m \o rs
<1>1. ps = Piece(ms, i)
  BY DEF Piece
<1>2. C \in SUBSET Call /\ n \in Nat /\ Cardinality(C) \in Nat
  <2>1. C \in SUBSET Call
    BY DEF DanglingAt
  <2>2. Before(ms, i) \in Nat /\ Cardinality(C) \in Nat
    BY BeforeIs
  <2> QED
    BY <2>1, <2>2
<1>3. ms[i] \in Message
  BY Messages
<1>4. m \in Seq(Message) /\ Len(m) = 1 /\ m[1] = ms[i]
  BY <1>3
<1> HIDE DEF n
<1>5. AreResults(rs, C, {}, n)
  BY <1>2, ResultsAre
<1>6. rs \in Seq(Message) /\ Len(rs) = Cardinality(C)
  BY <1>5 DEF AreResults
<1> HIDE DEF m, rs, C
<1>7. Joins(ps, m, rs)
  BY <1>4, <1>6, Joined
<1> HIDE DEF ps
<1>8. /\ ps \in Seq(Message) /\ Len(ps) = 1 + Cardinality(C) /\ ps[1] = ms[i]
      /\ \A k \in 1 .. Cardinality(C) : ps[1 + k] = rs[k]
  BY <1>4, <1>6, <1>7 DEF Joins
<1>9. \A k \in 1 .. Cardinality(C) :
        /\ rs[k].id = n + k /\ rs[k].kind = "tool" /\ rs[k].stub = FALSE
        /\ \E c \in C : rs[k].calls = {c}
  <2>1. \A c : (c \in {}) = FALSE
    OBVIOUS
  <2>2. \A k \in 1 .. Cardinality(C) :
          /\ rs[k].id = n + k /\ rs[k].kind = "tool"
          /\ \E c \in C : rs[k].calls = {c} /\ rs[k].stub = (c \in {})
    BY <1>5, <1>6, Zenon DEF AreResults
  <2> QED
    BY <2>1, <2>2, Zenon
<1>10. \A c \in C : \E k \in 1 .. Cardinality(C) : rs[k].calls = {c}
  BY <1>5, <1>6 DEF AreResults
<1>11. PieceSize(ms, i) = 1 + Cardinality(C) /\ PieceSize(ms, i) - 1 = Cardinality(C)
  BY <1>2 DEF PieceSize, C
<1>12. \A k \in 1 .. Cardinality(C) : IsAnswer(ps[1 + k], ms, i, k)
  <2>1. \A k \in 1 .. Cardinality(C) : IsAnswer(rs[k], ms, i, k)
    BY <1>9, Zenon DEF IsAnswer, C, n
  <2> QED
    BY <1>8, <2>1
<1>13. \A c \in C : \E k \in 1 .. Cardinality(C) : ps[1 + k].calls = {c}
  BY <1>8, <1>10
<1> DEFINE z == PieceSize(ms, i)
<1>14. /\ \A k \in 1 .. z - 1 : IsAnswer(ps[1 + k], ms, i, k)
       /\ \A c \in C : \E k \in 1 .. z - 1 : ps[1 + k].calls = {c}
  BY <1>11, <1>12, <1>13
<1>15. z \in Nat \ {0} /\ Len(ps) = z
  BY <1>2, <1>8, <1>11
<1> HIDE DEF z
<1> QED
  BY <1>1, <1>8, <1>14, <1>15, Zenon DEF C, z

\* Where the messages of ms, with their answers, stand in the patched list.
Orderly(ms, ns, off) ==
  /\ off \in [1 .. Len(ms) + 1 -> Nat] /\ off[Len(ms) + 1] = Len(ns)
  /\ \A i \in 1 .. Len(ms), k \in 1 .. Len(ms) + 1 : i < k => off[i] + PieceSize(ms, i) <= off[k]
Covered(ms, ns, off) ==
  \A p \in 1 .. Len(ns) : \E i \in 1 .. Len(ms) : \E j \in 1 .. PieceSize(ms, i) : p = off[i] + j
Filled(ms, ns, off) ==
  \A i \in 1 .. Len(ms) :
    /\ ns[off[i] + 1] = ms[i]
    /\ \A k \in 1 .. PieceSize(ms, i) - 1 : IsAnswer(ns[off[i] + 1 + k], ms, i, k)
    /\ \A c \in DanglingAt(ms, i) :
         \E k \in 1 .. PieceSize(ms, i) - 1 : ns[off[i] + 1 + k].calls = {c}

LEMMA PatchedIs ==
  ASSUME born \in Nat, NEW ms \in Seq(Message)
  PROVE  /\ Patch(ms) \in Seq(Message)
         /\ \E off : /\ Placed(Len(ms), off, Pieces(ms)) /\ Orderly(ms, Patch(ms), off)
                     /\ Covered(ms, Patch(ms), off) /\ Filled(ms, Patch(ms), off)
<1> DEFINE N == Len(ms)
           ss == Pieces(ms)
           F == FlattenSeq(ss)
<1>1. N \in Nat
  BY Messages
<1>2. \A i \in 1 .. N : ss[i] = Piece(ms, i)
  BY DEF Pieces
<1>3. ss \in [1 .. N -> Seq(Message)]
  BY PieceIs DEF Pieces
<1>4. \A i \in 1 .. N : Len(ss[i]) = PieceSize(ms, i) /\ Len(ss[i]) \in Nat
  BY <1>2, PieceIs
<1> HIDE DEF ss, N
<1>5. F \in Seq(Message) /\ Places(N, ss, F) # {}
  BY <1>1, <1>3, Flattened
<1>6. F = Patch(ms)
  BY PatchIs DEF ss
<1> HIDE DEF F
<1>7. PICK off \in [1 .. N + 1 -> Nat] :
        /\ Placed(N, off, ss) /\ off[N + 1] = Len(F)
        /\ \A i \in 1 .. N : \A j \in 1 .. Len(ss[i]) : F[off[i] + j] = ss[i][j]
  BY <1>5 DEF Places
<1>8. /\ \A i \in 1 .. N, k \in 1 .. N + 1 : i < k => off[i] + Len(ss[i]) <= off[k]
      /\ \A p \in 1 .. off[N + 1] : \E i \in 1 .. N : \E j \in 1 .. Len(ss[i]) : p = off[i] + j
  <2>1. \A i \in 1 .. N : Len(ss[i]) \in Nat
    BY <1>4
  <2>2. Placed(N, off, ss)
    BY <1>7
  <2> QED
    <3>1. InOrder(N, off, ss)
      BY <1>1, <2>1, <2>2, Offsets
    <3> QED
      BY <3>1 DEF InOrder
<1>9. Orderly(ms, F, off)
  BY <1>4, <1>7, <1>8 DEF Orderly, N
<1>10. Covered(ms, F, off)
  BY <1>4, <1>7, <1>8 DEF Covered, N
<1>11. Filled(ms, F, off)
  <2> SUFFICES ASSUME NEW i \in 1 .. N
               PROVE  /\ F[off[i] + 1] = ms[i]
                      /\ \A k \in 1 .. PieceSize(ms, i) - 1 : IsAnswer(F[off[i] + 1 + k], ms, i, k)
                      /\ \A c \in DanglingAt(ms, i) :
                           \E k \in 1 .. PieceSize(ms, i) - 1 : F[off[i] + 1 + k].calls = {c}
    BY DEF Filled, N
  <2> DEFINE z == PieceSize(ms, i)
             o == off[i]
  <2>1. /\ z \in Nat \ {0} /\ ss[i][1] = ms[i]
        /\ \A k \in 1 .. z - 1 : IsAnswer(ss[i][1 + k], ms, i, k)
        /\ \A c \in DanglingAt(ms, i) : \E k \in 1 .. z - 1 : ss[i][1 + k].calls = {c}
    <3>1. i \in 1 .. Len(ms)
      BY DEF N
    <3> QED
      <4> DEFINE q == Piece(ms, i)
      <4>1. /\ z \in Nat \ {0} /\ q[1] = ms[i]
            /\ \A k \in 1 .. z - 1 : IsAnswer(q[1 + k], ms, i, k)
            /\ \A c \in DanglingAt(ms, i) : \E k \in 1 .. z - 1 : q[1 + k].calls = {c}
        BY <3>1, PieceIs
      <4>2. ss[i] = q
        BY <1>2
      <4> HIDE DEF q, z
      <4> QED
        BY <4>1, <4>2
  <2>2. \A j \in 1 .. z : F[o + j] = ss[i][j]
    BY <1>4, <1>7
  <2>3. o \in Nat
    BY <1>1, <1>7
  <2> HIDE DEF z, o
  <2>4. F[o + 1] = ms[i]
    BY <2>1, <2>2
  <2>5. \A k \in 1 .. z - 1 : F[o + 1 + k] = ss[i][1 + k]
    <3>1. \A k \in 1 .. z - 1 : 1 + k \in 1 .. z /\ o + 1 + k = o + (1 + k)
      BY <2>1, <2>3
    <3> QED
      BY <3>1, <2>2
  <2> QED
    BY <2>1, <2>4, <2>5 DEF z, o
<1> QED
  BY <1>5, <1>6, <1>7, <1>9, <1>10, <1>11 DEF N, ss

\* The results that are stubs are in st, or of read_file.
Readable(ms, st) == \A i \in DOMAIN ms : ms[i].stub => ms[i].calls \subseteq st \cup Reads
\* Ids up to n, each once.
Known(ms, n) ==
  /\ \A i \in DOMAIN ms : ms[i].id \in 1 .. n
  /\ \A i, j \in DOMAIN ms : ms[i].id = ms[j].id => i = j
\* A call is answered right after the message that makes it, or nowhere.
Patchable(ms) ==
  \A i \in DOMAIN ms : ms[i].kind = "ai" =>
    \A c \in ms[i].calls : c \in After(ms, i) \/ c \notin Answered(ms)

LEMMA Room ==
  ASSUME NEW a \in Nat, NEW z \in Nat \ {0}, NEW b \in Nat, a + z <= b
  PROVE  a + 1 <= b /\ a + 1 \in 1 .. b
OBVIOUS

LEMMA Span ==
  ASSUME NEW a \in Nat, NEW b \in Nat, NEW z \in Nat \ {0}
  PROVE  \A l \in (a + 1) + 1 .. b + 1 : l \in a + 2 .. b + z
OBVIOUS

\* What a place of the patched list holds.
LEMMA PatchPlace ==
  ASSUME born \in Nat, NEW ms \in Seq(Message), NEW ns \in Seq(Message), NEW off,
         Orderly(ms, ns, off), Covered(ms, ns, off), Filled(ms, ns, off),
         NEW p \in 1 .. Len(ns)
  PROVE  \E i \in 1 .. Len(ms) :
           \/ p = off[i] + 1 /\ ns[p] = ms[i]
           \/ \E k \in 1 .. PieceSize(ms, i) - 1 : p = off[i] + 1 + k /\ IsAnswer(ns[p], ms, i, k)
<1>1. PICK i \in 1 .. Len(ms) : \E j \in 1 .. PieceSize(ms, i) : p = off[i] + j
  BY DEF Covered
<1>0. PICK j \in 1 .. PieceSize(ms, i) : p = off[i] + j
  BY <1>1
<1>2. off[i] \in Nat /\ PieceSize(ms, i) \in Nat
  <2>1. i \in 1 .. Len(ms) + 1 /\ off \in [1 .. Len(ms) + 1 -> Nat]
    BY Messages DEF Orderly
  <2> QED
    BY <2>1, PieceIs
<1>3. CASE j = 1
  BY <1>0, <1>3 DEF Filled
<1>4. CASE j # 1
  <2> DEFINE k == j - 1
  <2>1. k \in 1 .. PieceSize(ms, i) - 1 /\ p = off[i] + 1 + k
    BY <1>0, <1>2, <1>4
  <2> HIDE DEF k
  <2>2. IsAnswer(ns[p], ms, i, k)
    BY <2>1 DEF Filled
  <2> QED
    BY <2>1, <2>2
<1> QED
  BY <1>3, <1>4

LEMMA OffsetsNat ==
  ASSUME born \in Nat, NEW ms \in Seq(Message), NEW ns \in Seq(Message), NEW off,
         Orderly(ms, ns, off), NEW i \in 1 .. Len(ms)
  PROVE  /\ off[i] \in Nat /\ PieceSize(ms, i) \in Nat \ {0}
         /\ Len(ms) \in Nat /\ Len(ns) \in Nat
         /\ off[i] + PieceSize(ms, i) <= Len(ns)
<1>1. Len(ms) \in Nat /\ Len(ns) \in Nat
  BY Messages
<1>2. i \in 1 .. Len(ms) + 1 /\ off \in [1 .. Len(ms) + 1 -> Nat] /\ off[Len(ms) + 1] = Len(ns)
  BY <1>1 DEF Orderly
<1>3. off[i] + PieceSize(ms, i) <= off[Len(ms) + 1]
  <2>1. i < Len(ms) + 1 /\ Len(ms) + 1 \in 1 .. Len(ms) + 1
    BY <1>1
  <2> QED
    BY <2>1 DEF Orderly
<1> QED
  BY <1>1, <1>2, <1>3, PieceIs

\* Only results stand between a message and its answers, and before a result that
\* only results separate from the message.
LEMMA PatchBetween ==
  ASSUME born \in Nat, NEW ms \in Seq(Message), NEW ns \in Seq(Message), NEW off,
         Orderly(ms, ns, off), Covered(ms, ns, off), Filled(ms, ns, off),
         NEW i \in 1 .. Len(ms), NEW m \in i .. Len(ms),
         \A l \in i + 1 .. m : ms[l].kind = "tool",
         NEW p \in off[i] + 2 .. off[m] + PieceSize(ms, m)
  PROVE  p \in 1 .. Len(ns) /\ ns[p].kind = "tool"
<1>1. m \in 1 .. Len(ms)
  BY Messages
<1>2. /\ off[i] \in Nat /\ PieceSize(ms, i) \in Nat \ {0} /\ off[m] \in Nat
      /\ PieceSize(ms, m) \in Nat \ {0} /\ Len(ns) \in Nat /\ Len(ms) \in Nat
      /\ off[m] + PieceSize(ms, m) <= Len(ns)
  BY <1>1, OffsetsNat
<1>3. p \in 1 .. Len(ns) /\ p \in Nat /\ off[i] + 2 <= p /\ p <= off[m] + PieceSize(ms, m)
  BY <1>2
<1>4. PICK k \in 1 .. Len(ms) :
        \/ p = off[k] + 1 /\ ns[p] = ms[k]
        \/ \E j \in 1 .. PieceSize(ms, k) - 1 : p = off[k] + 1 + j /\ IsAnswer(ns[p], ms, k, j)
  BY <1>3, PatchPlace
<1>5. CASE \E j \in 1 .. PieceSize(ms, k) - 1 : p = off[k] + 1 + j /\ IsAnswer(ns[p], ms, k, j)
  BY <1>3, <1>5 DEF IsAnswer
<1>6. CASE p = off[k] + 1 /\ ns[p] = ms[k]
  <2>1. off[k] \in Nat /\ PieceSize(ms, k) \in Nat \ {0} /\ k \in 1 .. Len(ms) + 1 /\ i \in 1 .. Len(ms) + 1
        /\ m \in 1 .. Len(ms) + 1
    BY SMTT(20), <1>1, <1>2, OffsetsNat
  <2>2. k # i
    BY <1>2, <1>6
  <2>3. ~(k < i)
    <3> SUFFICES ASSUME k < i PROVE FALSE
      OBVIOUS
    <3>1. off[k] + PieceSize(ms, k) <= off[i]
      BY <2>1 DEF Orderly
    <3>2. p = off[k] + 1 /\ off[k] + 1 <= off[i]
      BY <1>2, <1>6, <2>1, <3>1, Room
    <3> QED
      BY <3>2, <1>2, <1>3
  <2>4. ~(m < k)
    <3> SUFFICES ASSUME m < k PROVE FALSE
      OBVIOUS
    <3>1. off[m] + PieceSize(ms, m) <= off[k]
      BY <2>1, <1>1 DEF Orderly
    <3>2. p = off[k] + 1 /\ off[k] \in Nat /\ off[m] + PieceSize(ms, m) \in Nat
      <4>1. off[m] + PieceSize(ms, m) \in Nat
        BY <1>2
      <4> QED
        BY <1>6, <2>1, <4>1
    <3> QED
      BY <3>1, <3>2, <1>3
  <2>5. k \in i + 1 .. m
    BY <2>2, <2>3, <2>4
  <2> QED
    BY <2>5, <1>3, <1>6
<1> QED
  BY <1>4, <1>5, <1>6

LEMMA PatchReadable ==
  ASSUME born \in Nat, NEW ms \in Seq(Message), NEW st, Readable(ms, st)
  PROVE  Readable(Patch(ms), st)
<1> DEFINE ns == Patch(ms)
<1>1. ns \in Seq(Message) /\ DOMAIN ns = 1 .. Len(ns) /\ DOMAIN ms = 1 .. Len(ms)
  BY PatchedIs, Messages
<1>2. PICK off : Orderly(ms, ns, off) /\ Covered(ms, ns, off) /\ Filled(ms, ns, off)
  BY PatchedIs
<1> HIDE DEF ns
<1>3. ASSUME NEW p \in 1 .. Len(ns), ns[p].stub
      PROVE  ns[p].calls \subseteq st \cup Reads
  <2>1. PICK i \in 1 .. Len(ms) :
           \/ p = off[i] + 1 /\ ns[p] = ms[i]
           \/ \E k \in 1 .. PieceSize(ms, i) - 1 : p = off[i] + 1 + k /\ IsAnswer(ns[p], ms, i, k)
    BY <1>1, <1>2, PatchPlace
  <2>2. ns[p] = ms[i]
    BY <1>3, <2>1 DEF IsAnswer
  <2> QED
    BY <1>1, <1>3, <2>2 DEF Readable
<1>4. Readable(ns, st)
  BY <1>1, <1>3 DEF Readable
<1> QED
  BY <1>4 DEF ns

LEMMA PatchAnswers ==
  ASSUME born \in Nat, NEW ms \in Seq(Message), Answers(ms)
  PROVE  Answers(Patch(ms))
<1> DEFINE ns == Patch(ms)
<1>1. ns \in Seq(Message) /\ DOMAIN ns = 1 .. Len(ns) /\ DOMAIN ms = 1 .. Len(ms)
  BY PatchedIs, Messages
<1>2. PICK off : Orderly(ms, ns, off) /\ Covered(ms, ns, off) /\ Filled(ms, ns, off)
  BY PatchedIs
<1> HIDE DEF ns
<1>3. ASSUME NEW p \in 1 .. Len(ns), ns[p].kind = "tool"
      PROVE  ns[p].calls # {}
  <2>1. PICK i \in 1 .. Len(ms) :
           \/ p = off[i] + 1 /\ ns[p] = ms[i]
           \/ \E k \in 1 .. PieceSize(ms, i) - 1 : p = off[i] + 1 + k /\ IsAnswer(ns[p], ms, i, k)
    BY <1>1, <1>2, PatchPlace
  <2>2. CASE ns[p] = ms[i]
    BY <1>1, <1>3, <2>2 DEF Answers
  <2>3. CASE \E k \in 1 .. PieceSize(ms, i) - 1 : IsAnswer(ns[p], ms, i, k)
    BY <2>3 DEF IsAnswer
  <2> QED
    BY <2>1, <2>2, <2>3
<1>4. Answers(ns)
  BY <1>1, <1>3 DEF Answers
<1> QED
  BY <1>4 DEF ns

LEMMA PatchCalled ==
  ASSUME born \in Nat, NEW ms \in Seq(Message), ResultsCalled(ms)
  PROVE  ResultsCalled(Patch(ms))
<1> DEFINE ns == Patch(ms)
<1>1. ns \in Seq(Message) /\ DOMAIN ns = 1 .. Len(ns) /\ DOMAIN ms = 1 .. Len(ms)
  BY PatchedIs, Messages
<1>2. PICK off : Orderly(ms, ns, off) /\ Covered(ms, ns, off) /\ Filled(ms, ns, off)
  BY PatchedIs
<1> HIDE DEF ns
<1>3. ASSUME NEW p \in 1 .. Len(ns), ns[p].kind = "tool"
      PROVE  \E q \in 1 .. p - 1 : /\ ns[q].kind = "ai" /\ ns[p].calls \subseteq ns[q].calls
                                   /\ \A l \in q + 1 .. p : ns[l].kind = "tool"
  <2>1. PICK i \in 1 .. Len(ms) :
           \/ p = off[i] + 1 /\ ns[p] = ms[i]
           \/ \E k \in 1 .. PieceSize(ms, i) - 1 : p = off[i] + 1 + k /\ IsAnswer(ns[p], ms, i, k)
    BY <1>1, <1>2, PatchPlace
  <2>2. off[i] \in Nat /\ PieceSize(ms, i) \in Nat \ {0} /\ Len(ms) \in Nat /\ Len(ns) \in Nat
    BY <1>1, <1>2, OffsetsNat
  <2>3. CASE \E k \in 1 .. PieceSize(ms, i) - 1 : p = off[i] + 1 + k /\ IsAnswer(ns[p], ms, i, k)
    <3>1. PICK k \in 1 .. PieceSize(ms, i) - 1 : p = off[i] + 1 + k /\ IsAnswer(ns[p], ms, i, k)
      BY <2>3
    <3>2. PICK c \in DanglingAt(ms, i) : ns[p].calls = {c}
      BY <3>1 DEF IsAnswer
    <3>3. ms[i].kind = "ai" /\ c \in ms[i].calls
      BY <3>2, DanglingIs
    <3> DEFINE q == off[i] + 1
    <3>4. q \in 1 .. p - 1 /\ ns[q] = ms[i]
      <4>1. q \in 1 .. p - 1
        BY <2>2, <3>1
      <4>2. ns[off[i] + 1] = ms[i]
        BY <1>2 DEF Filled
      <4> QED
        BY <4>1, <4>2
    <3>5. \A l \in q + 1 .. p : l \in off[i] + 2 .. off[i] + PieceSize(ms, i)
      BY SMTT(20), <2>2, <3>1
    <3>6. \A l \in q + 1 .. p : ns[l].kind = "tool"
      <4>1. i \in i .. Len(ms) /\ \A l \in i + 1 .. i : ms[l].kind = "tool"
        BY <2>2
      <4> QED
        BY <1>1, <1>2, <3>5, <4>1, PatchBetween
    <3> HIDE DEF q
    <3> QED
      BY <3>2, <3>3, <3>4, <3>6
  <2>4. CASE p = off[i] + 1 /\ ns[p] = ms[i]
    <3>1. PICK j \in 1 .. i - 1 : /\ ms[j].kind = "ai" /\ ms[i].calls \subseteq ms[j].calls
                                  /\ \A l \in j + 1 .. i : ms[l].kind = "tool"
      BY <1>1, <1>3, <2>4 DEF ResultsCalled
    <3>2. j \in 1 .. Len(ms) /\ i \in j .. Len(ms) /\ j < i /\ i \in 1 .. Len(ms) + 1
      BY <2>2
    <3>3. off[j] \in Nat /\ PieceSize(ms, j) \in Nat \ {0} /\ off[j] + PieceSize(ms, j) <= off[i]
      BY <1>1, <1>2, <3>2, OffsetsNat DEF Orderly
    <3> DEFINE q == off[j] + 1
    <3>4. q \in 1 .. p - 1 /\ ns[q] = ms[j]
      <4>1. q \in 1 .. p - 1
        <5>1. off[j] + 1 \in 1 .. off[i]
          BY <2>2, <3>3, Room
        <5>2. p - 1 = off[i]
          BY <2>2, <2>4
        <5> QED
          BY <5>1, <5>2
      <4>2. ns[off[j] + 1] = ms[j]
        BY <1>2, <3>2 DEF Filled
      <4> QED
        BY <4>1, <4>2
    <3>5. \A l \in q + 1 .. p : l \in off[j] + 2 .. off[i] + PieceSize(ms, i)
      <4>1. \A l \in (off[j] + 1) + 1 .. off[i] + 1 : l \in off[j] + 2 .. off[i] + PieceSize(ms, i)
        BY <2>2, <3>3, Span
      <4> QED
        BY <2>4, <4>1
    <3>6. \A l \in q + 1 .. p : ns[l].kind = "tool"
      BY <1>1, <1>2, <3>1, <3>2, <3>5, PatchBetween
    <3> HIDE DEF q
    <3> QED
      BY <2>4, <3>1, <3>4, <3>6
  <2> QED
    BY <2>1, <2>3, <2>4
<1>4. ResultsCalled(ns)
  BY <1>1, <1>3 DEF ResultsCalled
<1> QED
  BY <1>4 DEF ns

\* before_agent answers every call that nothing answers.
LEMMA PatchAnswered ==
  ASSUME born \in Nat, NEW ms \in Seq(Message), Patchable(ms)
  PROVE  CallsAnswered(Patch(ms))
<1> DEFINE ns == Patch(ms)
<1>1. ns \in Seq(Message) /\ DOMAIN ns = 1 .. Len(ns) /\ DOMAIN ms = 1 .. Len(ms)
  BY PatchedIs, Messages
<1>2. PICK off : Orderly(ms, ns, off) /\ Covered(ms, ns, off) /\ Filled(ms, ns, off)
  BY PatchedIs
<1> HIDE DEF ns
<1>3. ASSUME NEW p \in 1 .. Len(ns), ns[p].kind = "ai", NEW c \in ns[p].calls
      PROVE  c \in After(ns, p)
  <2>1. PICK i \in 1 .. Len(ms) :
           \/ p = off[i] + 1 /\ ns[p] = ms[i]
           \/ \E k \in 1 .. PieceSize(ms, i) - 1 : p = off[i] + 1 + k /\ IsAnswer(ns[p], ms, i, k)
    BY <1>1, <1>2, PatchPlace
  <2>2. off[i] \in Nat /\ PieceSize(ms, i) \in Nat \ {0} /\ Len(ms) \in Nat /\ Len(ns) \in Nat
    BY <1>1, <1>2, OffsetsNat
  <2>3. p = off[i] + 1 /\ ns[p] = ms[i]
    BY <1>3, <2>1 DEF IsAnswer
  <2>4. c \in After(ms, i) \/ c \notin Answered(ms)
    BY <1>1, <1>3, <2>3 DEF Patchable
  <2>5. CASE c \in After(ms, i)
    <3>1. PICK m \in i + 1 .. Len(ms) : c \in ms[m].calls /\ \A l \in i + 1 .. m : ms[l].kind = "tool"
      BY <2>5, AfterIs
    <3>2. m \in 1 .. Len(ms) /\ m \in i .. Len(ms) /\ i < m /\ m \in 1 .. Len(ms) + 1
      BY <2>2
    <3>3. off[m] \in Nat /\ PieceSize(ms, m) \in Nat \ {0} /\ off[i] + PieceSize(ms, i) <= off[m]
          /\ off[m] + PieceSize(ms, m) <= Len(ns)
      BY <1>1, <1>2, <3>2, OffsetsNat DEF Orderly
    <3> DEFINE q == off[m] + 1
    <3>4. q \in p + 1 .. Len(ns) /\ ns[q] = ms[m]
      <4>1. q \in p + 1 .. Len(ns)
        <5>1. p <= off[m] /\ p \in Nat
          <6>1. off[i] + 1 <= off[m] /\ off[i] + 1 \in Nat
            BY SMTT(20), <2>2, <3>3, Room
          <6> QED
            BY <2>3, <6>1
        <5>2. q <= Len(ns) /\ q \in Nat
          BY SMTT(20), <2>2, <3>3, Room
        <5>3. p < q
          BY <5>1, <3>3
        <5> QED
          BY <5>1, <5>2, <5>3, <2>2
      <4>2. ns[off[m] + 1] = ms[m]
        BY <1>2, <3>2 DEF Filled
      <4> QED
        BY <4>1, <4>2
    <3>5. \A l \in p + 1 .. q : l \in off[i] + 2 .. off[m] + PieceSize(ms, m)
      <4>1. p + 1 = off[i] + 2 /\ q <= off[m] + PieceSize(ms, m) /\ p \in Nat /\ q \in Nat
        <5>1. p + 1 = off[i] + 2 /\ p \in Nat
          BY <2>2, <2>3
        <5>2. q <= off[m] + PieceSize(ms, m) /\ q \in Nat
          BY <3>3
        <5> QED
          BY <5>1, <5>2
      <4> HIDE DEF q
      <4> QED
        BY SMTT(20), <4>1, <2>2, <3>3
    <3>6. \A l \in p + 1 .. q : ns[l].kind = "tool"
      BY <1>1, <1>2, <3>1, <3>2, <3>5, PatchBetween
    <3> HIDE DEF q
    <3> QED
      BY <3>1, <3>4, <3>6, AfterIs
  <2>6. CASE c \notin Answered(ms)
    <3>1. c \in DanglingAt(ms, i)
      <4>1. c \in Call
        BY <1>3, <2>3, Messages
      <4> QED
        BY <1>3, <2>3, <2>6, <4>1, DanglingIs
    <3>2. PICK k \in 1 .. PieceSize(ms, i) - 1 : ns[off[i] + 1 + k].calls = {c}
      BY <1>2, <3>1 DEF Filled
    <3> DEFINE q == off[i] + 1 + k
    <3>3. off[i] + PieceSize(ms, i) <= Len(ns)
      BY <1>1, <1>2, OffsetsNat
    <3>4. q \in p + 1 .. Len(ns) /\ c \in ns[q].calls
      BY SMTT(20), <2>2, <2>3, <3>2, <3>3
    <3>5. \A l \in p + 1 .. q : l \in off[i] + 2 .. off[i] + PieceSize(ms, i)
      <4>1. p + 1 = off[i] + 2 /\ q <= off[i] + PieceSize(ms, i) /\ p \in Nat /\ q \in Nat
        BY SMTT(20), <2>2, <2>3, <3>2
      <4> HIDE DEF q
      <4> QED
        BY SMTT(20), <4>1, <2>2
    <3>6. \A l \in p + 1 .. q : ns[l].kind = "tool"
      <4>1. i \in i .. Len(ms) /\ \A l \in i + 1 .. i : ms[l].kind = "tool"
        BY <2>2
      <4> QED
        BY <1>1, <1>2, <3>5, <4>1, PatchBetween
    <3> HIDE DEF q
    <3> QED
      BY <3>4, <3>6, AfterIs
  <2> QED
    BY <2>4, <2>5, <2>6
<1>4. CallsAnswered(ns)
  BY <1>1, <1>3 DEF CallsAnswered
<1> QED
  BY <1>4 DEF ns

LEMMA PatchKnown ==
  ASSUME born \in Nat, NEW ms \in Seq(Message), Known(ms, born)
  PROVE  Known(Patch(ms), born + Cardinality(Dangling(ms)))
<1> DEFINE ns == Patch(ms)
           top == born + Cardinality(Dangling(ms))
<1>1. ns \in Seq(Message) /\ DOMAIN ns = 1 .. Len(ns) /\ DOMAIN ms = 1 .. Len(ms)
  BY PatchedIs, Messages
<1>2. PICK off : Orderly(ms, ns, off) /\ Covered(ms, ns, off) /\ Filled(ms, ns, off)
  BY PatchedIs
<1>3. top \in Nat /\ born <= top
  BY DanglingFinite
<1> HIDE DEF ns
<1> DEFINE Old(p, i) == p = off[i] + 1 /\ ns[p] = ms[i]
           Fresh1(p, i) == \E k \in 1 .. PieceSize(ms, i) - 1 :
                             p = off[i] + 1 + k /\ IsAnswer(ns[p], ms, i, k)
<1>4. \A p \in 1 .. Len(ns) : \E i \in 1 .. Len(ms) : Old(p, i) \/ Fresh1(p, i)
  BY <1>1, <1>2, PatchPlace
<1>5. ASSUME NEW p, NEW i \in 1 .. Len(ms), Old(p, i)
      PROVE  ns[p].id \in 1 .. born /\ ns[p].id = ms[i].id
  BY <1>1, <1>5 DEF Known
<1>6. ASSUME NEW p, NEW i \in 1 .. Len(ms), Fresh1(p, i)
      PROVE  /\ ns[p].id \in born + 1 .. top
             /\ ns[p].id \in born + Before(ms, i) + 1 ..
                             born + Before(ms, i) + Cardinality(DanglingAt(ms, i))
             /\ p = off[i] + 1 + (ns[p].id - (born + Before(ms, i)))
  <2>1. PICK k \in 1 .. PieceSize(ms, i) - 1 : p = off[i] + 1 + k /\ IsAnswer(ns[p], ms, i, k)
    BY <1>6
  <2> DEFINE b == Before(ms, i)
             c == Cardinality(DanglingAt(ms, i))
             t == Cardinality(Dangling(ms))
  <2>2. b \in Nat /\ c \in Nat /\ t \in Nat /\ b + c <= t
    BY BeforeIs, DanglingFinite
  <2>3. ns[p].id = born + b + k
    BY <2>1 DEF IsAnswer
  <2>4. k \in 1 .. c
    BY <2>1, <2>2 DEF PieceSize
  <2>5. off[i] \in Nat
    BY <1>1, <1>2, OffsetsNat
  <2> HIDE DEF b, c, t
  <2>6. ns[p].id \in born + 1 .. born + t /\ ns[p].id \in born + b + 1 .. born + b + c
    BY <2>2, <2>3, <2>4
  <2>7. p = off[i] + 1 + (ns[p].id - (born + b))
    BY <2>1, <2>2, <2>3, <2>4, <2>5
  <2> QED
    BY <2>6, <2>7 DEF b, c, t
<1> HIDE DEF Old, Fresh1
<1>7. ASSUME NEW p \in 1 .. Len(ns)
      PROVE  ns[p].id \in 1 .. top
  BY <1>3, <1>4, <1>5, <1>6
<1>8. ASSUME NEW p \in 1 .. Len(ns), NEW q \in 1 .. Len(ns), ns[p].id = ns[q].id
      PROVE  p = q
  <2>1. PICK i \in 1 .. Len(ms) : Old(p, i) \/ Fresh1(p, i)
    BY <1>4
  <2>2. PICK j \in 1 .. Len(ms) : Old(q, j) \/ Fresh1(q, j)
    BY <1>4
  <2>3. CASE Old(p, i) /\ Old(q, j)
    <3>1. ms[i].id = ms[j].id
      BY <1>5, <1>8, <2>3
    <3>2. i = j
      BY <1>1, <3>1 DEF Known
    <3> QED
      BY <2>3, <3>2 DEF Old
  <2>4. CASE Old(p, i) /\ Fresh1(q, j)
    <3>1. ns[p].id \in 1 .. born /\ ns[q].id \in born + 1 .. top
      BY <1>5, <1>6, <2>4
    <3> QED
      BY <3>1, <1>3, <1>8
  <2>5. CASE Fresh1(p, i) /\ Old(q, j)
    <3>1. ns[q].id \in 1 .. born /\ ns[p].id \in born + 1 .. top
      BY <1>5, <1>6, <2>5
    <3> QED
      BY <3>1, <1>3, <1>8
  <2>6. CASE Fresh1(p, i) /\ Fresh1(q, j)
    <3> DEFINE x == ns[p].id
               bi == Before(ms, i)
               bj == Before(ms, j)
               ci == Cardinality(DanglingAt(ms, i))
               cj == Cardinality(DanglingAt(ms, j))
    <3>1. /\ x \in born + bi + 1 .. born + bi + ci
          /\ x \in born + bj + 1 .. born + bj + cj
          /\ p = off[i] + 1 + (x - (born + bi)) /\ q = off[j] + 1 + (x - (born + bj))
      BY <1>6, <1>8, <2>6
    <3>2. /\ bi \in Nat /\ ci \in Nat /\ bj \in Nat /\ cj \in Nat
          /\ i < j => bi + ci <= bj
          /\ j < i => bj + cj <= bi
      BY BeforeIs
    <3> HIDE DEF x, bi, bj, ci, cj
    <3>3. ~(i < j) /\ ~(j < i)
      BY <3>1, <3>2
    <3>4. i = j
      BY <3>3, <1>1
    <3> QED
      BY <3>1, <3>4 DEF bi, bj
  <2> QED
    BY <2>1, <2>2, <2>3, <2>4, <2>5, <2>6
<1> HIDE DEF top
<1>9. Known(ns, top)
  BY <1>1, <1>7, <1>8 DEF Known
<1> QED
  BY <1>9 DEF ns, top

\* Nothing moves before the first message that makes a dangling call, nor that message.
LEMMA PatchHead ==
  ASSUME born \in Nat, NEW ms \in Seq(Message), NEW n \in 0 .. Len(ms) - 1,
         \A d \in Dangling(ms) : ~(d[1] <= n)
  PROVE  n < Len(Patch(ms)) /\ \A i \in 1 .. n + 1 : Patch(ms)[i] = ms[i]
<1> DEFINE ns == Patch(ms)
<1>1. ns \in Seq(Message) /\ Len(ns) \in Nat /\ Len(ms) \in Nat /\ n \in Nat
  BY PatchedIs, Messages
<1>2. PICK off : Placed(Len(ms), off, Pieces(ms)) /\ Orderly(ms, ns, off) /\ Filled(ms, ns, off)
  BY PatchedIs
<1> HIDE DEF ns
<1>3. ASSUME NEW i \in 1 .. n
      PROVE  off[i + 1] = off[i] + 1
  <2>1. i \in 1 .. Len(ms)
    BY <1>1
  <2>2. DanglingAt(ms, i) = {}
    BY <1>3 DEF DanglingAt
  <2>3. Pieces(ms)[i] = Piece(ms, i) /\ Len(Piece(ms, i)) = PieceSize(ms, i)
    BY <2>1, PieceIs DEF Pieces
  <2>4. PieceSize(ms, i) = 1
    BY <2>2, FS_EmptySet DEF PieceSize
  <2> QED
    BY <2>1, <2>3, <2>4, <1>2 DEF Placed
<1>4. off[1] = 0
  BY <1>2 DEF Placed
<1> DEFINE U == {m \in Nat : m > n \/ off[m + 1] = m}
<1>5. n \in U /\ \A i \in 1 .. n + 1 : off[i] = i - 1
  <2>1. 0 \in U
    BY <1>4
  <2>2. ASSUME NEW m \in Nat, m \in U
        PROVE  m + 1 \in U
    <3>1. CASE m + 1 > n
      BY <3>1
    <3>2. CASE ~(m + 1 > n)
      <4>1. m + 1 \in 1 .. n /\ off[m + 1] = m
        BY <2>2, <3>2, <1>1
      <4>2. off[(m + 1) + 1] = m + 1
        BY <4>1, <1>3
      <4> QED
        BY <4>2
    <3> QED
      BY <3>1, <3>2
  <2>3. Nat \subseteq U
    <3> HIDE DEF U
    <3> QED
      BY <2>1, <2>2, NatInductive
  <2>4. ASSUME NEW i \in 1 .. n + 1
        PROVE  off[i] = i - 1
    <3>1. i - 1 \in Nat /\ ~(i - 1 > n) /\ (i - 1) + 1 = i
      BY <1>1
    <3>2. i - 1 \in U
      BY <2>3, <3>1
    <3> QED
      BY <3>1, <3>2
  <2> QED
    BY <2>3, <2>4, <1>1
<1> HIDE DEF U
<1>6. ASSUME NEW i \in 1 .. n + 1
      PROVE  ns[i] = ms[i]
  <2>1. i \in 1 .. Len(ms) /\ off[i] + 1 = i
    BY <1>1, <1>5
  <2>2. ns[off[i] + 1] = ms[i]
    BY <2>1, <1>2 DEF Filled
  <2> QED
    BY <2>1, <2>2
<1>7. n < Len(ns)
  <2>1. n + 1 \in 1 .. Len(ms) /\ off[n + 1] = n
    BY <1>1, <1>5
  <2>2. off[n + 1] + PieceSize(ms, n + 1) <= Len(ns) /\ PieceSize(ms, n + 1) \in Nat \ {0}
    BY <1>1, <1>2, <2>1, OffsetsNat
  <2> QED
    BY <1>1, <2>1, <2>2, Room
<1> QED
  BY <1>6, <1>7 DEF ns

LEMMA PatchFits ==
  ASSUME born \in Nat, NEW ms \in Seq(Message), NEW e \in Maybe(Event), Fits(ms, e),
         e # None => \A d \in Dangling(ms) : ~(d[1] <= e.cutoff)
  PROVE  Fits(Patch(ms), e)
<1> SUFFICES ASSUME e # None PROVE Fits(Patch(ms), e)
  BY DEF Fits
<1> DEFINE n == e.cutoff
           ns == Patch(ms)
<1>1. n \in 0 .. Len(ms) - 1 /\ Len(ms) \in Nat /\ n \in Nat
  BY SomeEvent, Messages DEF Fits
<1>2. \A d \in Dangling(ms) : ~(d[1] <= n)
  OBVIOUS
<1>3. ns \in Seq(Message) /\ Len(ns) \in Nat
  BY PatchedIs, Messages
<1>4. n < Len(ns) /\ \A i \in 1 .. n + 1 : ns[i] = ms[i]
  <2> HIDE DEF n
  <2> QED
    BY <1>1, <1>2, PatchHead
<1> HIDE DEF n, ns
<1>5. \A i \in 1 .. n + 1 : i <= Len(ns) /\ ns[i].id = ms[i].id /\ ns[i].kind = ms[i].kind
  BY <1>1, <1>3, <1>4
<1>6. Fits(ns, e)
  BY <1>3, <1>5, FitsSameHead DEF n
<1> QED
  BY <1>6 DEF ns

-----------------------------------------------------------------------------
(* Lists that grow *)

\* Ids from n + 1 to m, each once.
Newer(rs, n, m) ==
  /\ n \in Nat /\ m \in Nat /\ n <= m
  /\ \A k \in 1 .. Len(rs) : rs[k].id \in n + 1 .. m
  /\ \A k, l \in 1 .. Len(rs) : rs[k].id = rs[l].id => k = l

LEMMA ResultsNewer ==
  ASSUME NEW rs, NEW cs, NEW st, NEW n \in Nat, AreResults(rs, cs, st, n)
  PROVE  Newer(rs, n, n + Cardinality(cs))
<1>1. Len(rs) \in Nat /\ Len(rs) = Cardinality(cs) /\ \A k \in 1 .. Len(rs) : rs[k].id = n + k
  BY DEF AreResults
<1> QED
  BY <1>1 DEF Newer

LEMMA OneNewer ==
  ASSUME NEW n \in Nat, NEW m \in Nat, NEW x \in Message, n < m, x.id = m
  PROVE  Newer(<<x>>, n, m)
BY DEF Newer

LEMMA KnownJoined ==
  ASSUME NEW ms \in Seq(Message), NEW rs \in Seq(Message), NEW ns, Joins(ns, ms, rs),
         NEW n, NEW m, Known(ms, n), Newer(rs, n, m)
  PROVE  Known(ns, m)
<1>1. /\ ns \in Seq(Message) /\ Len(ms) \in Nat /\ Len(rs) \in Nat /\ Len(ns) \in Nat
      /\ DOMAIN ms = 1 .. Len(ms) /\ DOMAIN ns = 1 .. Len(ns) /\ Len(ns) = Len(ms) + Len(rs)
  BY Messages DEF Joins
<1>2. \A i \in 1 .. Len(ns) : i \in 1 .. Len(ms) \/ (i - Len(ms) \in 1 .. Len(rs) /\ Len(ms) + (i - Len(ms)) = i)
  BY <1>1
<1>3. \A i \in 1 .. Len(ns) : IF i \in 1 .. Len(ms) THEN ns[i] = ms[i] ELSE ns[i] = rs[i - Len(ms)]
  BY <1>2 DEF Joins
<1>4. n \in Nat /\ m \in Nat /\ n <= m
  BY DEF Newer
<1>5. \A i \in 1 .. Len(ns) :
        IF i \in 1 .. Len(ms) THEN ns[i].id \in 1 .. n ELSE ns[i].id \in n + 1 .. m
  BY <1>1, <1>2, <1>3 DEF Known, Newer
<1>6. \A i \in 1 .. Len(ns) : ns[i].id \in 1 .. m
  BY <1>4, <1>5
<1>7. ASSUME NEW i \in 1 .. Len(ns), NEW j \in 1 .. Len(ns), ns[i].id = ns[j].id
      PROVE  i = j
  <2>1. i \in 1 .. Len(ms) <=> j \in 1 .. Len(ms)
    <3>1. (1 .. n) \cap (n + 1 .. m) = {}
      BY <1>4
    <3> QED
      BY <1>5, <1>7, <3>1
  <2>2. CASE i \in 1 .. Len(ms)
    BY <2>1, <2>2, <1>1, <1>3, <1>7 DEF Known
  <2>3. CASE i \notin 1 .. Len(ms)
    <3>1. i - Len(ms) = j - Len(ms)
      BY <2>1, <2>3, <1>2, <1>3, <1>7 DEF Newer
    <3> QED
      BY <3>1, <1>1
  <2> QED
    BY <2>2, <2>3
<1> QED
  BY <1>1, <1>6, <1>7 DEF Known

LEMMA KnownMore ==
  ASSUME NEW ms \in Seq(Message), NEW n \in Nat, NEW m \in Nat, n <= m, Known(ms, n)
  PROVE  Known(ms, m)
<1>1. \A i \in DOMAIN ms : ms[i].id \in 1 .. n
  BY DEF Known
<1>2. \A i \in DOMAIN ms : ms[i].id \in 1 .. m
  BY <1>1
<1> QED
  BY <1>2 DEF Known

LEMMA JoinedPlace ==
  ASSUME NEW ms \in Seq(Message), NEW rs \in Seq(Message), NEW ns, Joins(ns, ms, rs)
  PROVE  /\ ns \in Seq(Message) /\ DOMAIN ns = 1 .. Len(ns)
         /\ DOMAIN ms = 1 .. Len(ms) /\ DOMAIN rs = 1 .. Len(rs)
         /\ Len(ms) \in Nat /\ Len(rs) \in Nat /\ Len(ns) = Len(ms) + Len(rs)
         /\ \A i \in DOMAIN ns : \/ i \in DOMAIN ms /\ ns[i] = ms[i]
                                 \/ \E k \in DOMAIN rs : i = Len(ms) + k /\ ns[i] = rs[k]
<1>1. /\ ns \in Seq(Message) /\ Len(ms) \in Nat /\ Len(rs) \in Nat /\ Len(ns) \in Nat
      /\ DOMAIN ms = 1 .. Len(ms) /\ DOMAIN ns = 1 .. Len(ns) /\ DOMAIN rs = 1 .. Len(rs)
      /\ Len(ns) = Len(ms) + Len(rs)
  BY Messages DEF Joins
<1>2. \A i \in 1 .. Len(ns) : i \in 1 .. Len(ms) \/ (i - Len(ms) \in 1 .. Len(rs) /\ Len(ms) + (i - Len(ms)) = i)
  BY <1>1
<1> QED
  BY <1>1, <1>2 DEF Joins

LEMMA ReadableJoined ==
  ASSUME NEW ms \in Seq(Message), NEW rs \in Seq(Message), NEW ns, Joins(ns, ms, rs), NEW st,
         Readable(ms, st), Readable(rs, st)
  PROVE  Readable(ns, st)
BY JoinedPlace DEF Readable

LEMMA AnswersJoined ==
  ASSUME NEW ms \in Seq(Message), NEW rs \in Seq(Message), NEW ns, Joins(ns, ms, rs),
         Answers(ms), Answers(rs)
  PROVE  Answers(ns)
<1>1. ASSUME NEW i \in DOMAIN ns, ns[i].kind = "tool"
      PROVE  ns[i].calls # {}
  <2>1. \/ i \in DOMAIN ms /\ ns[i] = ms[i]
        \/ \E k \in DOMAIN rs : ns[i] = rs[k]
    BY JoinedPlace
  <2> QED
    BY <2>1, <1>1 DEF Answers
<1> QED
  BY <1>1 DEF Answers

\* The same messages, up to what is a stub.
Alike(ms, ns) ==
  /\ Len(ns) = Len(ms)
  /\ \A i \in 1 .. Len(ms) :
       ns[i].id = ms[i].id /\ ns[i].kind = ms[i].kind /\ ns[i].calls = ms[i].calls

LEMMA AlikeKept ==
  ASSUME NEW ms \in Seq(Message), NEW ns \in Seq(Message), Alike(ms, ns)
  PROVE  /\ \A n : Known(ms, n) => Known(ns, n)
         /\ Answers(ms) => Answers(ns)
         /\ ResultsCalled(ms) => ResultsCalled(ns)
         /\ CallsAnswered(ms) => CallsAnswered(ns)
<1>1. Len(ms) \in Nat /\ DOMAIN ms = 1 .. Len(ms) /\ DOMAIN ns = 1 .. Len(ms)
      /\ \A i \in 1 .. Len(ms) :
           ns[i].id = ms[i].id /\ ns[i].kind = ms[i].kind /\ ns[i].calls = ms[i].calls
  BY Messages DEF Alike
<1>2. \A n : Known(ms, n) => Known(ns, n)
  BY <1>1 DEF Known
<1>3. Answers(ms) => Answers(ns)
  BY <1>1 DEF Answers
<1>4. ASSUME ResultsCalled(ms)
      PROVE  ResultsCalled(ns)
  <2> SUFFICES ASSUME NEW i \in 1 .. Len(ms), ns[i].kind = "tool"
               PROVE  \E j \in 1 .. i - 1 : /\ ns[j].kind = "ai" /\ ns[i].calls \subseteq ns[j].calls
                                            /\ \A l \in j + 1 .. i : ns[l].kind = "tool"
    BY <1>1 DEF ResultsCalled
  <2>1. PICK j \in 1 .. i - 1 : /\ ms[j].kind = "ai" /\ ms[i].calls \subseteq ms[j].calls
                                /\ \A l \in j + 1 .. i : ms[l].kind = "tool"
    BY <1>1, <1>4 DEF ResultsCalled
  <2>2. j \in 1 .. Len(ms) /\ \A l \in j + 1 .. i : l \in 1 .. Len(ms)
    BY <1>1
  <2> QED
    BY <2>1, <2>2, <1>1
<1>5. ASSUME CallsAnswered(ms)
      PROVE  CallsAnswered(ns)
  <2> SUFFICES ASSUME NEW i \in 1 .. Len(ms), ns[i].kind = "ai", NEW c \in ns[i].calls
               PROVE  c \in After(ns, i)
    BY <1>1 DEF CallsAnswered
  <2>1. c \in After(ms, i)
    BY <1>1, <1>5 DEF CallsAnswered
  <2>2. PICK j \in i + 1 .. Len(ms) : c \in ms[j].calls /\ \A l \in i + 1 .. j : ms[l].kind = "tool"
    BY <2>1, AfterIs
  <2>3. j \in 1 .. Len(ms) /\ \A l \in i + 1 .. j : l \in 1 .. Len(ms)
    BY <1>1
  <2>4. j \in i + 1 .. Len(ns) /\ c \in ns[j].calls /\ \A l \in i + 1 .. j : ns[l].kind = "tool"
    BY <2>2, <2>3, <1>1 DEF Alike
  <2> QED
    BY <2>4, AfterIs
<1> QED
  BY <1>2, <1>3, <1>4, <1>5

LEMMA RecordStubbed ==
  ASSUME NEW m \in Message, NEW b \in BOOLEAN
  PROVE  LET s == [m EXCEPT !.stub = @ \/ b] IN
         /\ s \in Message /\ s.id = m.id /\ s.kind = m.kind /\ s.calls = m.calls
         /\ s.stub = (m.stub \/ b)
BY DEF Message

LEMMA ClippedIs ==
  ASSUME NEW ms \in Seq(Message), NEW ids
  PROVE  LET ns == [i \in DOMAIN ms |-> [ms[i] EXCEPT !.stub = @ \/ ms[i].id \in ids]] IN
         /\ ns \in Seq(Message) /\ Alike(ms, ns)
         /\ \A i \in DOMAIN ms : ns[i].stub <=> ms[i].stub \/ ms[i].id \in ids
<1> DEFINE s(i) == [ms[i] EXCEPT !.stub = @ \/ ms[i].id \in ids]
           ns == [i \in DOMAIN ms |-> s(i)]
<1>1. Len(ms) \in Nat /\ DOMAIN ms = 1 .. Len(ms) /\ \A i \in 1 .. Len(ms) : ms[i] \in Message
  BY Messages
<1>2. \A i \in 1 .. Len(ms) : /\ s(i) \in Message /\ s(i).id = ms[i].id /\ s(i).kind = ms[i].kind
                              /\ s(i).calls = ms[i].calls
                              /\ s(i).stub = (ms[i].stub \/ ms[i].id \in ids)
  <2> SUFFICES ASSUME NEW i \in 1 .. Len(ms)
               PROVE  /\ s(i) \in Message /\ s(i).id = ms[i].id /\ s(i).kind = ms[i].kind
                      /\ s(i).calls = ms[i].calls
                      /\ s(i).stub = (ms[i].stub \/ ms[i].id \in ids)
    OBVIOUS
  <2>1. ms[i] \in Message /\ (ms[i].id \in ids) \in BOOLEAN
    BY <1>1
  <2> QED
    BY <2>1, RecordStubbed
<1>3. \A i \in 1 .. Len(ms) : ns[i] = s(i)
  BY <1>1
<1>4. ns \in [1 .. Len(ms) -> Message]
  BY <1>1, <1>2
<1> HIDE DEF ns, s
<1>5. ns \in Seq(Message) /\ Len(ns) = Len(ms)
  <2>1. ns \in Seq(Message)
    BY <1>1, <1>4, SeqDef
  <2> QED
    BY <1>1, <1>4, <2>1, LenProperties
<1>6. Alike(ms, ns)
  BY <1>2, <1>3, <1>5 DEF Alike
<1>7. \A i \in DOMAIN ms : ns[i].stub <=> ms[i].stub \/ ms[i].id \in ids
  BY <1>1, <1>2, <1>3
<1> QED
  BY <1>5, <1>6, <1>7 DEF ns, s

LEMMA CutStubbedIs ==
  ASSUME NEW ms \in Seq(Message), NEW cut
  PROVE  LET ns == [i \in DOMAIN ms |-> [ms[i] EXCEPT !.stub = @ \/ i \in cut]] IN
         ns \in Seq(Message) /\ Alike(ms, ns)
<1> DEFINE s(i) == [ms[i] EXCEPT !.stub = @ \/ i \in cut]
           ns == [i \in DOMAIN ms |-> s(i)]
<1>1. Len(ms) \in Nat /\ DOMAIN ms = 1 .. Len(ms) /\ \A i \in 1 .. Len(ms) : ms[i] \in Message
  BY Messages
<1>2. \A i \in 1 .. Len(ms) : /\ s(i) \in Message /\ s(i).id = ms[i].id /\ s(i).kind = ms[i].kind
                              /\ s(i).calls = ms[i].calls
  <2> SUFFICES ASSUME NEW i \in 1 .. Len(ms)
               PROVE  /\ s(i) \in Message /\ s(i).id = ms[i].id /\ s(i).kind = ms[i].kind
                      /\ s(i).calls = ms[i].calls
    OBVIOUS
  <2>1. ms[i] \in Message /\ (i \in cut) \in BOOLEAN
    BY <1>1
  <2> QED
    BY <2>1, RecordStubbed
<1>3. \A i \in 1 .. Len(ms) : ns[i] = s(i)
  BY <1>1
<1>4. ns \in [1 .. Len(ms) -> Message]
  BY <1>1, <1>2
<1> HIDE DEF ns, s
<1>5. ns \in Seq(Message) /\ Len(ns) = Len(ms)
  <2>1. ns \in Seq(Message)
    BY <1>1, <1>4, SeqDef
  <2> QED
    BY <1>1, <1>4, <2>1, LenProperties
<1>6. Alike(ms, ns)
  BY <1>2, <1>3, <1>5 DEF Alike
<1> QED
  BY <1>5, <1>6 DEF ns, s

-----------------------------------------------------------------------------
(* Types *)

\* What each place of the run, and each wait of the client, implies.
Quiet ==
  /\ pc # "model" => pending = None /\ clips = {}
  /\ pc \notin {"tools", "idle"} => finished = {}
  /\ finished = {} => compacted = None
  /\ ui = "saving" => shown \in SUBSET Call
  /\ ui # "offloading" => plan = None
  /\ pc = "asking" => disk.msgs = msgs

LEMMA CallsFinite ==
  ASSUME NEW cs \in SUBSET Call
  PROVE  IsFiniteSet(cs) /\ Cardinality(cs) \in Nat
BY CallAssumption, FS_Subset, FS_CardinalityType

LEMMA WithResults ==
  ASSUME NEW ms \in Seq(Message), NEW cs \in SUBSET Call, NEW st, NEW n \in Nat
  PROVE  /\ ms \o Results(cs, st, n) \in Seq(Message)
         /\ Results(cs, st, n) \in Seq(Message) /\ AreResults(Results(cs, st, n), cs, st, n)
         /\ Joins(ms \o Results(cs, st, n), ms, Results(cs, st, n))
<1>1. AreResults(Results(cs, st, n), cs, st, n)
  BY ResultsAre
<1>2. Results(cs, st, n) \in Seq(Message)
  BY <1>1 DEF AreResults
<1> QED
  BY <1>1, <1>2, Joined, ConcatProperties

LEMMA SettledTyped ==
  ASSUME TypeOK
  PROVE  Settled \in Seq(Message) /\ SettledEvent \in Maybe(Event)
<1>1. msgs \in Seq(Message) /\ finished \in SUBSET Call /\ born \in Nat
      /\ event \in Maybe(Event) /\ compacted \in Maybe(Event)
  BY DEF TypeOK
<1>2. Settled \in Seq(Message)
  BY <1>1, WithResults DEF Settled
<1> QED
  BY <1>1, <1>2 DEF SettledEvent

LEMMA SettleTyped ==
  ASSUME TypeOK, NEW ms \in Seq(Message), NEW e, Settle(ms, e)
  PROVE  /\ msgs' \in Seq(Message) /\ born' \in Nat /\ event' = e
         /\ Settled \in Seq(Message) /\ Joins(msgs', Settled, ms)
<1>1. finished \in SUBSET Call /\ born \in Nat
  BY DEF TypeOK
<1>2. Cardinality(finished) \in Nat /\ Len(ms) \in Nat
  BY <1>1, CallsFinite, Messages
<1>3. msgs' = Settled \o ms /\ born' = born + Cardinality(finished) + Len(ms) /\ event' = e
  BY DEF Settle
<1>4. Settled \in Seq(Message)
  BY SettledTyped
<1>5. Joins(msgs', Settled, ms)
  BY <1>3, <1>4, Joined
<1>6. msgs' \in Seq(Message)
  BY <1>5 DEF Joins
<1> QED
  BY <1>1, <1>2, <1>3, <1>4, <1>5, <1>6

LEMMA CheckpointTyped ==
  ASSUME TypeOK, Checkpoint, msgs' \in Seq(Message), born' \in Nat, finished' \in SUBSET Call,
         event' \in Maybe(Event), compacted' \in Maybe(Event)
  PROVE  disk' \in [msgs : Seq(Message), event : Maybe(Event)]
<1>1. CASE Busy'
  BY <1>1 DEF Checkpoint, TypeOK
<1>2. CASE ~Busy'
  <2>1. Settled' \in Seq(Message)
    BY WithResults DEF Settled
  <2>2. SettledEvent' \in Maybe(Event)
    BY DEF SettledEvent
  <2>3. disk' = [msgs |-> Settled', event |-> SettledEvent']
    BY <1>2 DEF Checkpoint
  <2> QED
    BY <2>1, <2>2, <2>3
<1> QED
  BY <1>1, <1>2

LEMMA SpendTyped ==
  ASSUME TypeOK, NEW o \in Op, Spend(o)
  PROVE  left' \in [Op -> Nat]
BY DEF TypeOK, Spend

LEMMA FilesTyped ==
  ASSUME TypeOK, NEW ids \in SUBSET Nat, NEW ok \in BOOLEAN, OffloadMessages(ids, ok)
  PROVE  file' \in SUBSET Nat /\ lost' \in BOOLEAN
BY DEF TypeOK, OffloadMessages

LEMMA HeadIdsTyped ==
  ASSUME NEW ms \in Seq(Message), NEW n \in Cutoffs(ms)
  PROVE  Ids(SubSeq(ms, 1, n)) \in SUBSET Nat
<1>1. n \in 1 .. Len(ms) /\ Len(ms) \in Nat
  BY CutIs, Messages
<1>2. \A i \in 1 .. n : ms[i] \in Message
  BY <1>1, Messages
<1>3. SubSeq(ms, 1, n) \in Seq(Message)
  BY <1>1, <1>2, SubSeqProperties
<1> QED
  BY <1>3, IdsTyped

LEMMA NoneIsMaybe == None \in Maybe(Event) /\ None \in Maybe(SUBSET Call)
BY DEF Maybe

LEMMA EventIsMaybe ==
  ASSUME NEW e \in Event
  PROVE  e \in Maybe(Event)
BY DEF Maybe

LEMMA NoCallTyped ==
  ASSUME NoCall
  PROVE  view' \in Seq(Message) /\ pending' \in Maybe(Event) /\ clips' \in SUBSET Nat
BY EmptySeq DEF NoCall, Maybe

LEMMA NoToolsTyped ==
  ASSUME NoTools
  PROVE  finished' \in SUBSET Call /\ evicted' \in SUBSET finished' /\ compacted' \in Maybe(Event)
BY DEF NoTools, Maybe

LEMMA RepliesTyped == \A cs \in Replies : cs \in SUBSET Call
BY DEF Replies, Fresh

\* What Summarize and Overflow file and keep.
LEMMA SummarizeTyped ==
  ASSUME TypeOK, NEW n \in Cutoffs(Effective(msgs, event)), NEW tail \in Seq(Message),
         SummarizeAt(n, tail)
  PROVE  /\ view' \in Seq(Message) /\ pending' \in Maybe(Event)
         /\ file' \in SUBSET Nat /\ lost' \in BOOLEAN
<1> DEFINE eff == Effective(msgs, event)
<1>1. msgs \in Seq(Message) /\ event \in Maybe(Event)
  BY DEF TypeOK
<1>2. eff \in Seq(Message)
  BY <1>1, EffectiveTyped
<1>3. PICK ok \in BOOLEAN : /\ OffloadMessages(Ids(SubSeq(eff, 1, n)), ok)
                            /\ pending' = NewEvent(eff, event, n, ok)
                            /\ view' = <<Summary>> \o tail
  BY DEF SummarizeAt
<1>4. pending' \in Event
  BY <1>1, <1>3, NewEventTyped
<1>5. file' \in SUBSET Nat /\ lost' \in BOOLEAN
  BY <1>2, <1>3, HeadIdsTyped, FilesTyped
<1>6. view' \in Seq(Message)
  BY <1>3, SummaryTyped, ConcatProperties
<1> QED
  BY <1>4, <1>5, <1>6 DEF Maybe

LEMMA InputTyped ==
  ASSUME TypeOK, Input
  PROVE  TypeOK'
<1>1. finished \in SUBSET Call /\ born \in Nat /\ msgs \in Seq(Message) /\ event \in Maybe(Event)
  BY DEF TypeOK
<1>2. Cardinality(finished) \in Nat
  BY <1>1, CallsFinite
<1> DEFINE given == born + Cardinality(finished) + 1
           message == New(given, "human", {})
<1>3. given \in Nat /\ message \in Message /\ <<message>> \in Seq(Message)
  <2>1. given \in Nat
    BY <1>1, <1>2
  <2>2. message \in Message
    BY <2>1, NewMessage
  <2> QED
    BY <2>1, <2>2
<1>4. msgs' \in Seq(Message) /\ born' \in Nat /\ event' \in Maybe(Event)
  <2>1. CASE Settle(<<message>>, SettledEvent)
    BY <1>3, <2>1, SettleTyped, SettledTyped
  <2>2. CASE born' = given /\ msgs' = Append(msgs, message) /\ UNCHANGED event
    <3> HIDE DEF message, given
    <3> QED
      BY <1>1, <1>3, <2>2, AppendProperties
  <2> QED
    BY <2>1, <2>2 DEF Input
<1>5. left' \in [Op -> Nat]
  BY SpendTyped DEF Input, Op
<1>6. finished' \in SUBSET Call /\ evicted' \in SUBSET finished' /\ compacted' \in Maybe(Event)
  BY NoToolsTyped DEF Input
<1> QED
  BY <1>4, <1>5, <1>6 DEF Input, TypeOK, fileVars, ghostVars

LEMMA BeforeAgentTyped ==
  ASSUME TypeOK, BeforeAgent
  PROVE  TypeOK'
<1>1. born \in Nat /\ msgs \in Seq(Message)
  BY DEF TypeOK
<1>2. msgs' \in Seq(Message) /\ born' \in Nat
  BY <1>1, PatchedIs, DanglingFinite DEF BeforeAgent
<1> QED
  BY <1>2 DEF BeforeAgent, TypeOK, fileVars, callVars, toolVars, clientVars

LEMMA CallModelTyped ==
  ASSUME TypeOK, CallModel
  PROVE  TypeOK'
<1>1. view' \in Seq(Message) /\ pending' \in Maybe(Event) /\ clips' \in SUBSET Nat
  BY EffectiveTyped, NoneIsMaybe DEF CallModel, TypeOK
<1>2. reply' \in SUBSET Call
  BY RepliesTyped DEF CallModel
<1> QED
  BY <1>1, <1>2 DEF CallModel, TypeOK, stateVars, fileVars, toolVars, clientVars, ghostVars

LEMMA SummarizeStepTyped ==
  ASSUME TypeOK, Summarize
  PROVE  TypeOK'
<1> DEFINE eff == Effective(msgs, event)
<1>1. PICK n \in Cutoffs(eff) : SummarizeAt(n, SubSeq(eff, n + 1, Len(eff)))
  BY DEF Summarize
<1>2. eff \in Seq(Message)
  BY EffectiveTyped DEF TypeOK
<1>3. n \in Nat
  BY <1>2, CutIs, Messages
<1>4. SubSeq(eff, n + 1, Len(eff)) \in Seq(Message)
  BY <1>2, <1>3, TailTyped
<1>5. view' \in Seq(Message) /\ pending' \in Maybe(Event) /\ file' \in SUBSET Nat /\ lost' \in BOOLEAN
  BY <1>1, <1>4, SummarizeTyped
<1>6. left' \in [Op -> Nat]
  BY SpendTyped DEF Summarize, Op
<1>7. reply' \in SUBSET Call
  BY RepliesTyped DEF Summarize
<1> QED
  BY <1>5, <1>6, <1>7 DEF Summarize, TypeOK, stateVars, toolVars, clientVars

LEMMA OverflowTyped ==
  ASSUME TypeOK, Overflow
  PROVE  TypeOK'
<1> DEFINE eff == Effective(msgs, event)
           kept(n) == SubSeq(eff, n + 1, Len(eff))
<1>1. PICK n \in Cutoffs(eff) : \E cut \in SUBSET Clippable(kept(n)) :
        /\ SummarizeAt(n, [i \in DOMAIN kept(n) |-> [kept(n)[i] EXCEPT !.stub = @ \/ i \in cut]])
        /\ clips' = {kept(n)[i].id : i \in cut}
        /\ stored' = stored \cup UNION {kept(n)[i].calls : i \in cut \ Sliced(kept(n))}
  BY DEF Overflow
<1>0. PICK cut \in SUBSET Clippable(kept(n)) :
        /\ SummarizeAt(n, [i \in DOMAIN kept(n) |-> [kept(n)[i] EXCEPT !.stub = @ \/ i \in cut]])
        /\ clips' = {kept(n)[i].id : i \in cut}
        /\ stored' = stored \cup UNION {kept(n)[i].calls : i \in cut \ Sliced(kept(n))}
  BY <1>1
<1>2. eff \in Seq(Message)
  BY EffectiveTyped DEF TypeOK
<1>3. n \in Nat
  BY <1>2, CutIs, Messages
<1> DEFINE k == kept(n)
<1>4. k \in Seq(Message)
  BY <1>2, <1>3, TailTyped
<1>5. cut \in SUBSET DOMAIN k
  BY DEF Clippable, Sliced, TailBatch
<1>6. /\ SummarizeAt(n, [i \in DOMAIN k |-> [k[i] EXCEPT !.stub = @ \/ i \in cut]])
      /\ clips' = {k[i].id : i \in cut}
      /\ stored' = stored \cup UNION {k[i].calls : i \in cut \ Sliced(k)}
  BY <1>0
<1> HIDE DEF k
<1>7. view' \in Seq(Message) /\ pending' \in Maybe(Event) /\ file' \in SUBSET Nat /\ lost' \in BOOLEAN
  <2>1. [i \in DOMAIN k |-> [k[i] EXCEPT !.stub = @ \/ i \in cut]] \in Seq(Message)
    BY <1>4, CutStubbedIs
  <2> QED
    BY <2>1, <1>6, SummarizeTyped
<1>8. \A i \in cut : k[i].id \in Nat /\ k[i].calls \in SUBSET Call
  BY <1>4, <1>5, Messages
<1>9. clips' \in SUBSET Nat /\ stored' \in SUBSET Call
  <2>1. stored \in SUBSET Call
    BY DEF TypeOK
  <2> QED
    BY <2>1, <1>6, <1>8
<1>10. left' \in [Op -> Nat]
  BY SpendTyped DEF Overflow, Op
<1>11. reply' \in SUBSET Call
  BY RepliesTyped DEF Overflow
<1> HIDE DEF eff
<1> QED
  BY <1>7, <1>9, <1>10, <1>11 DEF Overflow, TypeOK, stateVars, toolVars, clientVars

LEMMA RespondTyped ==
  ASSUME TypeOK, Respond
  PROVE  TypeOK'
<1>1. born \in Nat /\ msgs \in Seq(Message) /\ reply \in SUBSET Call
      /\ event \in Maybe(Event) /\ pending \in Maybe(Event)
      /\ finished \in SUBSET Call /\ compacted \in Maybe(Event)
  BY DEF TypeOK
<1> DEFINE ns == [i \in DOMAIN msgs |-> [msgs[i] EXCEPT !.stub = @ \/ msgs[i].id \in clips]]
           x == New(born + 1, "ai", reply)
<1>2. ns \in Seq(Message) /\ x \in Message
  <2>1. ns \in Seq(Message)
    BY <1>1, ClippedIs
  <2>2. born + 1 \in Nat
    BY <1>1
  <2> QED
    BY <1>1, <2>1, <2>2, NewMessage
<1>3. msgs' = Append(ns, x)
  BY DEF Respond
<1> HIDE DEF ns, x
<1>4. msgs' \in Seq(Message)
  BY <1>2, <1>3, AppendProperties
<1>5. born' \in Nat /\ event' \in Maybe(Event) /\ finished' \in SUBSET Call /\ compacted' \in Maybe(Event)
  BY <1>1 DEF Respond, toolVars
<1>6. disk' \in [msgs : Seq(Message), event : Maybe(Event)]
  BY <1>4, <1>5, CheckpointTyped DEF Respond
<1>7. view' \in Seq(Message) /\ pending' \in Maybe(Event) /\ clips' \in SUBSET Nat
  BY NoCallTyped DEF Respond
<1>8. pc' \in {"idle", "asking", "tools"}
  BY DEF Respond
<1> QED
  BY <1>4, <1>5, <1>6, <1>7, <1>8 DEF Respond, TypeOK, toolVars, clientVars, ghostVars

LEMMA RequestFailsTyped ==
  ASSUME TypeOK, RequestFails
  PROVE  TypeOK'
<1>1. left' \in [Op -> Nat]
  BY SpendTyped DEF RequestFails, Op
<1>2. view' \in Seq(Message) /\ pending' \in Maybe(Event) /\ clips' \in SUBSET Nat
  BY NoCallTyped DEF RequestFails
<1>3. disk' \in [msgs : Seq(Message), event : Maybe(Event)]
  BY CheckpointTyped DEF RequestFails, TypeOK, stateVars, toolVars
<1> QED
  BY <1>1, <1>2, <1>3 DEF RequestFails, TypeOK, stateVars, toolVars, clientVars, ghostVars

LEMMA CrashTyped ==
  ASSUME TypeOK, Crash
  PROVE  TypeOK'
<1>1. left' \in [Op -> Nat]
  BY SpendTyped DEF Crash, Op
<1>2. view' \in Seq(Message) /\ pending' \in Maybe(Event) /\ clips' \in SUBSET Nat
  BY NoCallTyped DEF Crash
<1>3. finished' \in SUBSET Call /\ evicted' \in SUBSET finished' /\ compacted' \in Maybe(Event)
  BY NoToolsTyped DEF Crash
<1>4. msgs' \in Seq(Message) /\ event' \in Maybe(Event)
  BY DEF Crash, TypeOK
<1>5. born' \in Nat
  <2>1. finished \in SUBSET Call /\ born \in Nat
    BY DEF TypeOK
  <2> QED
    BY <2>1, CallsFinite DEF Crash
<1> QED
  BY <1>1, <1>2, <1>3, <1>4, <1>5 DEF Crash, TypeOK, fileVars, clientVars, ghostVars

LEMMA DecideTyped ==
  ASSUME TypeOK, NEW approved \in SUBSET reply, Decide(approved)
  PROVE  TypeOK'
<1>1. born \in Nat /\ msgs \in Seq(Message) /\ reply \ approved \in SUBSET Call /\ approved \in SUBSET Call
  BY DEF TypeOK
<1>2. msgs' \in Seq(Message) /\ born' \in Nat
  BY <1>1, WithResults, CallsFinite DEF Decide
<1> QED
  BY <1>1, <1>2 DEF Decide, TypeOK, fileVars, toolVars, clientVars, ghostVars

LEMMA ToolReturnsTyped ==
  ASSUME TypeOK, NEW c \in Call, ToolReturns(c)
  PROVE  TypeOK'
<1>1. finished' \in SUBSET Call /\ evicted' \in SUBSET finished' /\ stored' \in SUBSET Call
  BY DEF ToolReturns, TypeOK, Evict
<1> QED
  BY <1>1 DEF ToolReturns, TypeOK, stateVars, callVars, clientVars, ghostVars

LEMMA CompactTyped ==
  ASSUME TypeOK, NEW c \in Call, Compact(c)
  PROVE  TypeOK'
<1> DEFINE eff == Effective(msgs, event)
<1>1. PICK n \in Cutoffs(eff), ok \in BOOLEAN :
        OffloadMessages(Ids(SubSeq(eff, 1, n)), ok) /\ compacted' = NewEvent(eff, event, n, ok)
  BY DEF Compact
<1>2. msgs \in Seq(Message) /\ event \in Maybe(Event) /\ eff \in Seq(Message)
  BY EffectiveTyped DEF TypeOK
<1>3. compacted' \in Maybe(Event)
  BY <1>1, <1>2, NewEventTyped, EventIsMaybe
<1>4. file' \in SUBSET Nat /\ lost' \in BOOLEAN
  BY <1>1, <1>2, HeadIdsTyped, FilesTyped
<1>5. left' \in [Op -> Nat]
  BY SpendTyped DEF Compact, Op
<1>6. finished' \in SUBSET Call /\ evicted' \in SUBSET finished'
  BY DEF Compact, TypeOK
<1> HIDE DEF eff
<1> QED
  BY <1>3, <1>4, <1>5, <1>6 DEF Compact, TypeOK, stateVars, callVars, clientVars

LEMMA ToolsReturnTyped ==
  ASSUME TypeOK, ToolsReturn
  PROVE  TypeOK'
<1>1. msgs' \in Seq(Message) /\ born' \in Nat /\ event' \in Maybe(Event)
  BY SettleTyped, SettledTyped, EmptySeq DEF ToolsReturn
<1>2. finished' \in SUBSET Call /\ evicted' \in SUBSET finished' /\ compacted' \in Maybe(Event)
  BY NoToolsTyped DEF ToolsReturn
<1> QED
  BY <1>1, <1>2 DEF ToolsReturn, TypeOK, fileVars, callVars, clientVars, ghostVars

LEMMA UpdateTyped ==
  ASSUME TypeOK, NEW ms \in Seq(Message), NEW e \in Maybe(Event), Update(ms, e)
  PROVE  /\ msgs' \in Seq(Message) /\ born' \in Nat /\ event' \in Maybe(Event)
         /\ finished' \in SUBSET Call /\ evicted' \in SUBSET finished' /\ compacted' \in Maybe(Event)
         /\ disk' \in [msgs : Seq(Message), event : Maybe(Event)]
         /\ pc' = "idle" /\ retried' = FALSE
<1>1. msgs' \in Seq(Message) /\ born' \in Nat /\ event' \in Maybe(Event)
  BY SettleTyped DEF Update
<1>2. finished' \in SUBSET Call /\ evicted' \in SUBSET finished' /\ compacted' \in Maybe(Event)
  BY NoToolsTyped DEF Update
<1>3. disk' \in [msgs : Seq(Message), event : Maybe(Event)]
  BY <1>1, <1>2, CheckpointTyped DEF Update
<1> QED
  BY <1>1, <1>2, <1>3 DEF Update

LEMMA NextNewMessage ==
  ASSUME TypeOK, NEW k \in {"human", "ai", "tool"}, NEW cs \in SUBSET Call
  PROVE  LET x == New(born + Cardinality(finished) + 1, k, cs) IN
         x \in Message /\ <<x>> \in Seq(Message) /\ x.id = born + Cardinality(finished) + 1
         /\ x.kind = k /\ x.calls = cs /\ x.stub = FALSE
<1>1. finished \in SUBSET Call /\ born \in Nat
  BY DEF TypeOK
<1>2. born + Cardinality(finished) + 1 \in Nat
  BY <1>1, CallsFinite
<1> DEFINE n == born + Cardinality(finished) + 1
<1>3. n \in Nat
  BY <1>2
<1> HIDE DEF n
<1> DEFINE x == New(n, k, cs)
<1>4. x \in Message /\ x.id = n /\ x.kind = k /\ x.calls = cs /\ x.stub = FALSE
  BY <1>3 DEF New, Message
<1> HIDE DEF x
<1>5. <<x>> \in Seq(Message)
  BY <1>4
<1>6. /\ x \in Message /\ <<x>> \in Seq(Message) /\ x.id = n
      /\ x.kind = k /\ x.calls = cs /\ x.stub = FALSE
  BY <1>4, <1>5
<1> QED
  BY <1>6 DEF x, n

LEMMA ClientTyped ==
  ASSUME TypeOK, Quiet, SaveReply \/ SaveNotice \/ EndOffload
  PROVE  TypeOK'
<1>1. SettledEvent \in Maybe(Event) /\ plan \in Maybe(Event)
  BY SettledTyped DEF TypeOK
<1>2. CASE SaveReply
  <2>1. shown \in SUBSET Call
    BY <1>2 DEF SaveReply, Quiet
  <2> DEFINE x == New(born + Cardinality(finished) + 1, "ai", shown)
  <2>2. <<x>> \in Seq(Message)
    BY <2>1, NextNewMessage
  <2>3. Update(<<x>>, SettledEvent)
    BY <1>2 DEF SaveReply
  <2> HIDE DEF x
  <2>4. /\ msgs' \in Seq(Message) /\ born' \in Nat /\ event' \in Maybe(Event)
        /\ finished' \in SUBSET Call /\ evicted' \in SUBSET finished' /\ compacted' \in Maybe(Event)
        /\ disk' \in [msgs : Seq(Message), event : Maybe(Event)]
        /\ pc' = "idle" /\ retried' = FALSE
    BY <1>1, <2>2, <2>3, UpdateTyped
  <2>5. shown' \in Maybe(SUBSET Call) /\ reissued' \in BOOLEAN
    BY <1>2, NoneIsMaybe DEF SaveReply, TypeOK
  <2> QED
    BY <1>2, <2>4, <2>5 DEF SaveReply, TypeOK, callVars
<1>3. CASE SaveNotice
  <2> DEFINE x == New(born + Cardinality(finished) + 1, "human", {})
  <2>1. <<x>> \in Seq(Message)
    BY NextNewMessage
  <2>2. Update(<<x>>, SettledEvent)
    BY <1>3 DEF SaveNotice
  <2> HIDE DEF x
  <2>3. /\ msgs' \in Seq(Message) /\ born' \in Nat /\ event' \in Maybe(Event)
        /\ finished' \in SUBSET Call /\ evicted' \in SUBSET finished' /\ compacted' \in Maybe(Event)
        /\ disk' \in [msgs : Seq(Message), event : Maybe(Event)]
        /\ pc' = "idle" /\ retried' = FALSE
    BY <1>1, <2>1, <2>2, UpdateTyped
  <2> QED
    BY <1>3, <2>3 DEF SaveNotice, TypeOK, callVars, ghostVars
<1>4. CASE EndOffload
  <2>1. <<>> \in Seq(Message)
    BY EmptySeq
  <2>2. /\ msgs' \in Seq(Message) /\ born' \in Nat /\ event' \in Maybe(Event)
        /\ finished' \in SUBSET Call /\ evicted' \in SUBSET finished' /\ compacted' \in Maybe(Event)
        /\ disk' \in [msgs : Seq(Message), event : Maybe(Event)]
        /\ pc' = "idle" /\ retried' = FALSE
    BY <1>1, <1>4, <2>1, UpdateTyped DEF EndOffload
  <2> QED
    BY <1>4, <2>2, NoneIsMaybe DEF EndOffload, TypeOK, callVars, ghostVars
<1> QED
  BY <1>2, <1>3, <1>4

LEMMA ConflictTyped ==
  ASSUME TypeOK, Conflict
  PROVE  TypeOK'
<1>1. view' \in Seq(Message) /\ pending' \in Maybe(Event) /\ clips' \in SUBSET Nat
      /\ pc' \in {"idle", "before", "ready", "model", "asking", "tools"}
  <2>1. CASE UNCHANGED <<pc, view, pending, clips>>
    BY <2>1 DEF TypeOK
  <2>2. CASE pc' = "idle" /\ NoCall
    BY <2>2, NoCallTyped
  <2> QED
    BY <2>1, <2>2 DEF Conflict
<1>2. disk' \in [msgs : Seq(Message), event : Maybe(Event)]
  BY CheckpointTyped DEF Conflict, TypeOK, stateVars, toolVars
<1> QED
  BY <1>1, <1>2 DEF Conflict, TypeOK, stateVars, toolVars, ghostVars

LEMMA StartOffloadTyped ==
  ASSUME TypeOK, StartOffload
  PROVE  TypeOK'
<1> DEFINE eff == Effective(disk.msgs, disk.event)
<1>1. PICK n \in Cutoffs(eff), ok \in BOOLEAN :
        /\ OffloadMessages(Ids(SubSeq(eff, 1, n)), ok)
        /\ plan' = NewEvent(eff, disk.event, n, ok /\ Ids(SubSeq(eff, 1, n)) # {})
  BY DEF StartOffload
<1>2. disk.msgs \in Seq(Message) /\ disk.event \in Maybe(Event)
  BY DEF TypeOK
<1>3. eff \in Seq(Message)
  BY <1>2, EffectiveTyped
<1>4. plan' \in Maybe(Event)
  <2> DEFINE ok2 == ok /\ Ids(SubSeq(eff, 1, n)) # {}
  <2>1. ok2 \in BOOLEAN
    OBVIOUS
  <2> HIDE DEF ok2
  <2>2. NewEvent(eff, disk.event, n, ok2) \in Event
    BY <1>2, <2>1, NewEventTyped
  <2> QED
    BY <1>1, <2>2, EventIsMaybe DEF ok2
<1>5. file' \in SUBSET Nat /\ lost' \in BOOLEAN
  BY <1>1, <1>3, HeadIdsTyped, FilesTyped
<1>6. left' \in [Op -> Nat]
  BY SpendTyped DEF StartOffload, Op
<1>7. shifted' \in BOOLEAN
  BY DEF StartOffload, TypeOK
<1> HIDE DEF eff
<1> QED
  BY <1>4, <1>5, <1>6, <1>7 DEF StartOffload, TypeOK, stateVars, callVars, toolVars

LEMMA OthersTyped ==
  ASSUME TypeOK, TurnEnds \/ Cancel \/ UpdateFails \/ UNCHANGED vars
  PROVE  TypeOK'
<1>1. CASE TurnEnds
  BY <1>1 DEF TurnEnds, TypeOK, stateVars, fileVars, callVars, toolVars, ghostVars
<1>2. CASE Cancel
  <2>1. left' \in [Op -> Nat]
    BY <1>2, SpendTyped DEF Cancel, Op
  <2>2. shown' \in Maybe(SUBSET Call) /\ ui' \in {"saving", "noticing"}
    BY <1>2 DEF Cancel, TypeOK, Maybe
  <2> QED
    BY <1>2, <2>1, <2>2 DEF Cancel, TypeOK, stateVars, fileVars, callVars, toolVars, ghostVars
<1>3. CASE UpdateFails
  <2>1. left' \in [Op -> Nat]
    <3>1. left \in [Op -> Nat] /\ (left["fail"] > 0 => left["fail"] - 1 \in Nat)
      BY DEF TypeOK, Op
    <3>2. (Busy /\ retried) \/ left["fail"] > 0
      BY <1>3 DEF UpdateFails, GivesUp
    <3> QED
      BY <1>3, <3>1, <3>2 DEF UpdateFails, Op
  <2>2. shown' \in Maybe(SUBSET Call) /\ plan' \in Maybe(Event)
    BY <1>3, NoneIsMaybe DEF UpdateFails
  <2> QED
    BY <1>3, <2>1, <2>2 DEF UpdateFails, TypeOK, stateVars, fileVars, callVars, toolVars, ghostVars
<1>4. CASE UNCHANGED vars
  BY <1>4 DEF TypeOK, vars, stateVars, fileVars, callVars, toolVars, clientVars, ghostVars
<1> QED
  BY <1>1, <1>2, <1>3, <1>4

LEMMA TypeStep ==
  ASSUME TypeOK, Quiet, [Next]_vars
  PROVE  TypeOK'
BY InputTyped, BeforeAgentTyped, CallModelTyped, SummarizeStepTyped, OverflowTyped, RespondTyped,
   RequestFailsTyped, CrashTyped, DecideTyped, ToolReturnsTyped, CompactTyped, ToolsReturnTyped,
   ClientTyped, ConflictTyped, StartOffloadTyped, OthersTyped, Zenon DEF Next

\* The state is written as it is then, or stays as it was.
LEMMA Written ==
  ASSUME Checkpoint
  PROVE  \/ UNCHANGED disk
         \/ ~Busy' /\ disk'.msgs = Settled' /\ disk'.event = SettledEvent'
BY DEF Checkpoint

\* The steps that leave the messages as they are.
Elsewhere ==
  \/ CallModel \/ Summarize \/ Overflow \/ RequestFails
  \/ TurnEnds \/ Cancel \/ Conflict \/ UpdateFails \/ StartOffload \/ UNCHANGED vars
Returns == \E c \in Call : ToolReturns(c) \/ Compact(c)
Decides == \E approved \in SUBSET reply : Decide(approved)

LEMMA Untouched ==
  ASSUME Elsewhere
  PROVE  UNCHANGED <<stateVars, toolVars>> /\ (UNCHANGED disk \/ Checkpoint)
<1>1. CASE CallModel \/ Summarize \/ Overflow
  BY <1>1 DEF CallModel, Summarize, Overflow, stateVars, toolVars, fileVars
<1>2. CASE RequestFails \/ Conflict
  BY <1>2 DEF RequestFails, Conflict, stateVars, toolVars
<1>3. CASE TurnEnds \/ Cancel \/ UpdateFails \/ StartOffload \/ UNCHANGED vars
  BY <1>3 DEF TurnEnds, Cancel, UpdateFails, StartOffload, vars, stateVars, toolVars, fileVars
<1> QED
  BY <1>1, <1>2, <1>3 DEF Elsewhere

LEMMA NextIs ==
  ASSUME [Next]_vars
  PROVE  \/ Elsewhere \/ Returns \/ Decides \/ Input \/ BeforeAgent \/ Respond \/ Crash
         \/ ToolsReturn \/ SaveReply \/ SaveNotice \/ EndOffload
BY Zenon DEF Next, Elsewhere, Returns, Decides

LEMMA NothingReturned ==
  ASSUME NoTools
  PROVE  finished' = {} /\ evicted' = {} /\ compacted' = None /\ Cardinality(finished') = 0
BY FS_EmptySet DEF NoTools

LEMMA QuietStep ==
  ASSUME TypeOK, Quiet, [Next]_vars
  PROVE  Quiet'
<1>1. CASE UNCHANGED vars
  BY <1>1 DEF Quiet, vars, stateVars, fileVars, callVars, toolVars, clientVars, ghostVars
<1>2. CASE Input
  BY <1>2 DEF Input, Quiet, Busy, NoTools, fileVars
<1>3. CASE BeforeAgent
  BY <1>3 DEF BeforeAgent, Quiet, callVars, toolVars, clientVars
<1>4. CASE CallModel
  BY <1>4 DEF CallModel, Quiet, toolVars, clientVars
<1>5. CASE Summarize
  BY <1>5 DEF Summarize, Quiet, toolVars, clientVars
<1>6. CASE Overflow
  BY <1>6 DEF Overflow, Quiet, toolVars, clientVars
<1>7. CASE Respond
  <2>1. finished' = {} /\ evicted' = evicted /\ compacted' = compacted /\ finished = {}
    BY <1>7 DEF Respond, toolVars, Quiet
  <2>2. pc' = "asking" => disk'.msgs = msgs'
    <3>1. msgs' \in Seq(Message) /\ born' \in Nat
      BY <1>7, RespondTyped DEF TypeOK
    <3>2. Settled' = msgs'
      BY <2>1, <3>1, NoResults DEF Settled
    <3>3. pc' = "asking" => ~Busy'
      BY DEF Busy
    <3> QED
      BY <1>7, <3>2, <3>3 DEF Respond, Checkpoint
  <2> QED
    BY <1>7, <2>1, <2>2 DEF Respond, Quiet, NoCall, toolVars, clientVars
<1>8. CASE RequestFails
  BY <1>8 DEF RequestFails, Quiet, NoCall, toolVars, clientVars
<1>9. CASE Crash
  BY <1>9 DEF Crash, Quiet, NoCall, NoTools, fileVars, clientVars, Busy
<1>10. CASE Decides
  <2>1. PICK approved \in SUBSET reply : Decide(approved)
    BY <1>10 DEF Decides
  <2> QED
    BY <2>1 DEF Decide, Quiet, toolVars, clientVars
<1>11. CASE Returns
  <2>1. PICK c \in Call : ToolReturns(c) \/ Compact(c)
    BY <1>11 DEF Returns
  <2>2. CASE ToolReturns(c)
    BY <2>2 DEF ToolReturns, Quiet, stateVars, callVars, clientVars
  <2>3. CASE Compact(c)
    BY <2>3 DEF Compact, Quiet, stateVars, callVars, clientVars
  <2> QED
    BY <2>1, <2>2, <2>3
<1>12. CASE ToolsReturn
  BY <1>12 DEF ToolsReturn, NoTools, Quiet, callVars, clientVars
<1>13. CASE TurnEnds
  BY <1>13 DEF TurnEnds, Quiet, stateVars, fileVars, callVars, toolVars
<1>14. CASE Cancel
  <2>1. ui' = "saving" => shown' \in SUBSET Call
    BY <1>14 DEF Cancel, TypeOK
  <2> QED
    BY <1>14, <2>1 DEF Cancel, Quiet, stateVars, fileVars, callVars, toolVars
<1>15. CASE SaveReply \/ SaveNotice \/ EndOffload
  <2>1. pc' = "idle" /\ pc # "model" /\ NoTools /\ pending' = pending /\ clips' = clips
        /\ ui' # "saving" /\ plan' = None
    BY <1>15 DEF SaveReply, SaveNotice, EndOffload, Update, Busy, callVars, Quiet
  <2> QED
    BY <2>1 DEF Quiet, NoTools
<1>16. CASE Conflict
  <2>1. pc' # "asking" /\ (pc' # "model" => pending' = None /\ clips' = {})
        /\ (pc' = pc \/ pc' = "idle")
    BY <1>16 DEF Conflict, Busy, NoCall, Quiet
  <2> QED
    BY <1>16, <2>1 DEF Conflict, Quiet, toolVars
<1>17. CASE UpdateFails
  BY <1>17 DEF UpdateFails, Quiet, stateVars, fileVars, callVars, toolVars
<1>18. CASE StartOffload
  BY <1>18 DEF StartOffload, Quiet, stateVars, callVars, toolVars
<1> QED
  BY <1>1, <1>2, <1>3, <1>4, <1>5, <1>6, <1>7, <1>8, <1>9, <1>10, <1>11, <1>12, <1>13, <1>14,
     <1>15, <1>16, <1>17, <1>18, Zenon DEF Next, Returns, Decides
-----------------------------------------------------------------------------
(* Ids *)

\* The messages, and those that were written, have ids that are given, each once.
IdInv == Known(msgs, born) /\ Known(disk.msgs, born + Cardinality(finished))

LEMMA SettledKnown ==
  ASSUME NEW ms \in Seq(Message), NEW cs \in SUBSET Call, NEW st, NEW n \in Nat, Known(ms, n)
  PROVE  Known(ms \o Results(cs, st, n), n + Cardinality(cs))
<1>1. Newer(Results(cs, st, n), n, n + Cardinality(cs))
  BY WithResults, ResultsNewer
<1> QED
  BY <1>1, WithResults, KnownJoined

\* It is enough that a step keeps the messages known, and takes no id back.
LEMMA KnownWritten ==
  ASSUME TypeOK, TypeOK', IdInv, Known(msgs', born'),
         born + Cardinality(finished) <= born' + Cardinality(finished'),
         UNCHANGED disk \/ Checkpoint
  PROVE  IdInv'
<1>1. /\ msgs' \in Seq(Message) /\ born' \in Nat /\ finished' \in SUBSET Call
      /\ born \in Nat /\ finished \in SUBSET Call /\ disk.msgs \in Seq(Message)
  BY DEF TypeOK
<1>2. Cardinality(finished) \in Nat /\ Cardinality(finished') \in Nat
  BY <1>1, CallsFinite
<1>3. CASE UNCHANGED disk
  <2>1. born + Cardinality(finished) \in Nat /\ born' + Cardinality(finished') \in Nat
    BY <1>1, <1>2
  <2>2. Known(disk.msgs, born' + Cardinality(finished'))
    BY <1>1, <2>1, KnownMore DEF IdInv
  <2> QED
    BY <1>3, <2>2 DEF IdInv
<1>4. CASE disk'.msgs = Settled'
  <2>1. Known(Settled', born' + Cardinality(finished'))
    BY <1>1, SettledKnown DEF Settled
  <2> QED
    BY <1>4, <2>1 DEF IdInv
<1> QED
  BY <1>3, <1>4, Written

\* The messages a step commits, with ids that are new.
LEMMA KnownSettled ==
  ASSUME TypeOK, IdInv, NEW ms \in Seq(Message), NEW e, Settle(ms, e), NoTools,
         Newer(ms, born + Cardinality(finished), born + Cardinality(finished) + Len(ms))
  PROVE  /\ Known(msgs', born')
         /\ born + Cardinality(finished) <= born' + Cardinality(finished')
<1>1. born \in Nat /\ finished \in SUBSET Call /\ msgs \in Seq(Message) /\ Len(ms) \in Nat
  BY Messages DEF TypeOK
<1>2. Cardinality(finished) \in Nat /\ Cardinality(finished') = 0
  BY <1>1, CallsFinite, NothingReturned
<1>3. Known(Settled, born + Cardinality(finished))
  BY <1>1, SettledKnown DEF Settled, IdInv
<1>4. born' = born + Cardinality(finished) + Len(ms)
  BY DEF Settle
<1>5. Joins(msgs', Settled, ms) /\ Settled \in Seq(Message)
  BY SettleTyped
<1>6. Known(msgs', born')
  BY <1>3, <1>4, <1>5, KnownJoined
<1> QED
  BY <1>1, <1>2, <1>4, <1>6

LEMMA NoneNewer ==
  ASSUME NEW n \in Nat
  PROVE  Newer(<<>>, n, n + Len(<<>>)) /\ <<>> \in Seq(Message)
BY EmptySeq DEF Newer

LEMMA NextNewer ==
  ASSUME TypeOK, NEW k \in {"human", "ai", "tool"}, NEW cs \in SUBSET Call
  PROVE  LET x == New(born + Cardinality(finished) + 1, k, cs)
             n == born + Cardinality(finished)
         IN Newer(<<x>>, n, n + Len(<<x>>))
<1> DEFINE x == New(born + Cardinality(finished) + 1, k, cs)
           n == born + Cardinality(finished)
<1>1. n \in Nat
  <2>1. finished \in SUBSET Call /\ born \in Nat
    BY DEF TypeOK
  <2> QED
    BY <2>1, CallsFinite
<1>2. x \in Message /\ x.id = n + 1
  <2> DEFINE m == n + 1
  <2>1. m \in Nat
    BY <1>1
  <2> HIDE DEF m
  <2>2. New(m, k, cs) \in Message /\ New(m, k, cs).id = m
    BY <2>1 DEF New, Message
  <2> QED
    BY <2>2 DEF m
<1>3. Len(<<x>>) = 1
  OBVIOUS
<1> HIDE DEF x, n
<1>4. Newer(<<x>>, n, n + 1)
  BY <1>1, <1>2, OneNewer
<1>5. Newer(<<x>>, n, n + Len(<<x>>))
  BY <1>3, <1>4
<1> QED
  BY <1>5 DEF x, n

LEMMA IdStep ==
  ASSUME TypeOK, TypeOK', Quiet, IdInv, [Next]_vars
  PROVE  IdInv'
<1>1. /\ born \in Nat /\ finished \in SUBSET Call /\ msgs \in Seq(Message)
      /\ finished' \in SUBSET Call /\ Known(msgs, born)
      /\ disk.msgs \in Seq(Message) /\ Known(disk.msgs, born + Cardinality(finished))
  BY DEF TypeOK, IdInv
<1>2. Cardinality(finished) \in Nat /\ Cardinality(finished') \in Nat
      /\ born + Cardinality(finished) \in Nat
  BY <1>1, CallsFinite
<1> DEFINE Goal == /\ Known(msgs', born')
                   /\ born + Cardinality(finished) <= born' + Cardinality(finished')
                   /\ UNCHANGED disk \/ Checkpoint
<1>3. SUFFICES Goal
  BY KnownWritten
<1>4. CASE Elsewhere
  BY <1>1, <1>2, <1>4, Untouched DEF stateVars, toolVars
<1>5. CASE Returns
  <2>1. PICK c \in Call : ToolReturns(c) \/ Compact(c)
    BY <1>5 DEF Returns
  <2>2. UNCHANGED <<msgs, born, disk>> /\ finished' = finished \cup {c} /\ c \notin finished
    BY <2>1 DEF ToolReturns, Compact, stateVars
  <2>3. Cardinality(finished') = Cardinality(finished) + 1
    BY <1>1, <2>2, CallsFinite, FS_AddElement
  <2> QED
    BY <1>1, <1>2, <2>2, <2>3
<1>6. CASE Decides
  <2>1. PICK approved \in SUBSET reply : Decide(approved)
    BY <1>6 DEF Decides
  <2> DEFINE cs == reply \ approved
  <2>2. /\ msgs' = msgs \o Results(cs, {}, born) /\ born' = born + Cardinality(cs)
        /\ UNCHANGED <<disk, finished>>
    BY <2>1 DEF Decide, fileVars, toolVars
  <2>3. cs \in SUBSET Call
    BY DEF TypeOK
  <2> HIDE DEF cs
  <2>4. Known(msgs', born')
    BY <1>1, <2>2, <2>3, SettledKnown
  <2>5. Cardinality(cs) \in Nat
    BY <2>3, CallsFinite
  <2>6. born <= born' /\ born' \in Nat /\ Cardinality(finished') = Cardinality(finished)
    BY <1>1, <2>2, <2>5
  <2> QED
    BY <1>1, <1>2, <2>2, <2>4, <2>6
<1>7. CASE Input
  <2> DEFINE x == New(born + Cardinality(finished) + 1, "human", {})
             n == born + Cardinality(finished)
  <2>1. x \in Message /\ <<x>> \in Seq(Message) /\ x.id = n + 1
    BY NextNewMessage
  <2>2. Newer(<<x>>, n, n + Len(<<x>>))
    BY NextNewer
  <2>3. NoTools /\ UNCHANGED disk
    BY <1>7 DEF Input, fileVars
  <2>4. CASE Settle(<<x>>, SettledEvent)
    BY <2>1, <2>2, <2>3, <2>4, KnownSettled
  <2>5. CASE born' = n + 1 /\ msgs' = Append(msgs, x)
    <3>1. n \in Nat /\ born < n + 1 /\ n + 1 \in Nat
      BY <1>1, <1>2
    <3>2. Joins(msgs', msgs, <<x>>)
      BY <1>1, <2>1, <2>5, Appended
    <3>3. born' = n + 1
      BY <2>5
    <3> HIDE DEF x, n
    <3>4. Newer(<<x>>, born, born')
      BY <1>1, <2>1, <3>1, <3>3, OneNewer
    <3>5. Known(msgs', born')
      BY <1>1, <2>1, <3>2, <3>4, KnownJoined
    <3> QED
      BY <2>3, <3>1, <3>3, <3>5, NothingReturned DEF n
  <2> QED
    BY <1>7, <2>4, <2>5 DEF Input
<1>8. CASE BeforeAgent
  <2>1. msgs' = Patch(msgs) /\ born' = born + Cardinality(Dangling(msgs))
        /\ UNCHANGED <<disk, finished>>
    BY <1>8 DEF BeforeAgent, fileVars, toolVars
  <2>2. Known(msgs', born')
    BY <1>1, <2>1, PatchKnown
  <2>3. Cardinality(Dangling(msgs)) \in Nat
    BY <1>1, DanglingFinite
  <2> QED
    BY <1>1, <1>2, <2>1, <2>2, <2>3
<1>9. CASE Respond
  <2> DEFINE ns == [i \in DOMAIN msgs |-> [msgs[i] EXCEPT !.stub = @ \/ msgs[i].id \in clips]]
             x == New(born + 1, "ai", reply)
  <2>1. ns \in Seq(Message) /\ Alike(msgs, ns)
    BY <1>1, ClippedIs
  <2>2. Known(ns, born)
    BY <1>1, <2>1, AlikeKept
  <2>3. x \in Message /\ x.id = born + 1
    <3> DEFINE m == born + 1
    <3>1. m \in Nat /\ reply \in SUBSET Call
      BY <1>1 DEF TypeOK
    <3> HIDE DEF m
    <3>2. New(m, "ai", reply) \in Message /\ New(m, "ai", reply).id = m
      BY <3>1 DEF New, Message
    <3> QED
      BY <3>2 DEF m
  <2>4. msgs' = Append(ns, x) /\ born' = born + 1 /\ finished' = finished /\ Checkpoint
    BY <1>9 DEF Respond, toolVars
  <2>5. born' \in Nat /\ born < born' /\ born' = born + 1
    BY <1>1, <2>4
  <2> HIDE DEF ns, x
  <2>6. Joins(msgs', ns, <<x>>) /\ <<x>> \in Seq(Message)
    BY <2>1, <2>3, <2>4, Appended
  <2>7. Newer(<<x>>, born, born')
    BY <1>1, <2>3, <2>5, OneNewer
  <2>8. Known(msgs', born')
    BY <2>1, <2>2, <2>6, <2>7, KnownJoined
  <2> QED
    BY <1>1, <1>2, <2>4, <2>8
<1>10. CASE Crash
  <2>1. msgs' = disk.msgs /\ born' = born + Cardinality(finished) /\ UNCHANGED disk /\ NoTools
    BY <1>10 DEF Crash, fileVars
  <2> QED
    BY <1>1, <1>2, <2>1, NothingReturned
<1>11. CASE ToolsReturn
  <2>1. Settle(<<>>, SettledEvent) /\ NoTools /\ UNCHANGED disk
    BY <1>11 DEF ToolsReturn, fileVars
  <2> QED
    BY <1>2, <2>1, NoneNewer, KnownSettled
<1>12. CASE SaveReply
  <2> DEFINE x == New(born + Cardinality(finished) + 1, "ai", shown)
  <2>1. shown \in SUBSET Call
    BY <1>12 DEF SaveReply, Quiet
  <2>2. <<x>> \in Seq(Message)
    BY <2>1, NextNewMessage
  <2>3. Newer(<<x>>, born + Cardinality(finished), born + Cardinality(finished) + Len(<<x>>))
    BY <2>1, NextNewer
  <2>4. Settle(<<x>>, SettledEvent) /\ NoTools /\ Checkpoint
    BY <1>12 DEF SaveReply, Update
  <2> QED
    BY <2>2, <2>3, <2>4, KnownSettled
<1>13. CASE SaveNotice
  <2> DEFINE x == New(born + Cardinality(finished) + 1, "human", {})
  <2>2. <<x>> \in Seq(Message)
    BY NextNewMessage
  <2>3. Newer(<<x>>, born + Cardinality(finished), born + Cardinality(finished) + Len(<<x>>))
    BY NextNewer
  <2>4. Settle(<<x>>, SettledEvent) /\ NoTools /\ Checkpoint
    BY <1>13 DEF SaveNotice, Update
  <2> QED
    BY <2>2, <2>3, <2>4, KnownSettled
<1>14. CASE EndOffload
  <2>1. Settle(<<>>, plan) /\ NoTools /\ Checkpoint
    BY <1>14 DEF EndOffload, Update
  <2> QED
    BY <1>2, <2>1, NoneNewer, KnownSettled
<1> QED
  BY <1>4, <1>5, <1>6, <1>7, <1>8, <1>9, <1>10, <1>11, <1>12, <1>13, <1>14, NextIs

-----------------------------------------------------------------------------
(* Stubs *)

\* A stub, one that is there or will be, is of a result that was written, or of what
\* read_file returned.
StubInv ==
  /\ Readable(msgs, stored) /\ Readable(disk.msgs, stored) /\ evicted \subseteq stored
  /\ \A i \in DOMAIN msgs : msgs[i].id \in clips => msgs[i].calls \subseteq stored \cup Reads

LEMMA ReadableMore ==
  ASSUME NEW ms, NEW st, NEW ts, st \subseteq ts, Readable(ms, st)
  PROVE  Readable(ms, ts)
BY DEF Readable

LEMMA ResultsReadable ==
  ASSUME NEW cs \in SUBSET Call, NEW ev, NEW n \in Nat, NEW st, ev \subseteq st
  PROVE  Readable(Results(cs, ev, n), st)
<1> DEFINE rs == Results(cs, ev, n)
<1>1. AreResults(rs, cs, ev, n) /\ rs \in Seq(Message)
  <2>1. AreResults(rs, cs, ev, n)
    BY ResultsAre
  <2> QED
    BY <2>1 DEF AreResults
<1>2. DOMAIN rs = 1 .. Len(rs)
  BY <1>1, Messages
<1> HIDE DEF rs
<1>3. ASSUME NEW k \in DOMAIN rs, rs[k].stub
      PROVE  rs[k].calls \subseteq st
  <2>1. PICK c \in cs : rs[k].calls = {c} /\ rs[k].stub = (c \in ev)
    BY <1>1, <1>2 DEF AreResults
  <2>2. c \in ev
    BY <1>3, <2>1, Zenon
  <2> QED
    BY <2>1, <2>2
<1>4. Readable(rs, st)
  BY <1>3 DEF Readable
<1> QED
  BY <1>4 DEF rs

LEMMA SettledReadable ==
  ASSUME NEW ms \in Seq(Message), NEW cs \in SUBSET Call, NEW ev, NEW n \in Nat, NEW st,
         ev \subseteq st, Readable(ms, st)
  PROVE  Readable(ms \o Results(cs, ev, n), st)
BY WithResults, ResultsReadable, ReadableJoined

LEMMA OneReadable ==
  ASSUME NEW i, NEW k, NEW cs, NEW st
  PROVE  Readable(<<New(i, k, cs)>>, st)
BY DEF Readable, New

LEMMA NoneReadable == \A st : Readable(<<>>, st)
BY DEF Readable

\* No file is taken back, nor the memory of a write that failed.
LEMMA FilesGrow ==
  ASSUME TypeOK, [Next]_vars
  PROVE  file \subseteq file' /\ stored \subseteq stored' /\ (lost => lost')
<1> USE DEF fileVars, ghostVars, OffloadMessages
<1>1. CASE CallModel
  BY <1>1 DEF CallModel
<1>2. CASE Summarize
  BY <1>2 DEF Summarize, SummarizeAt
<1>3. CASE Overflow
  <2>1. PICK n \in Cutoffs(Effective(msgs, event)) :
          \E tail : SummarizeAt(n, tail)
    BY <1>3 DEF Overflow
  <2>2. stored \subseteq stored'
    BY <1>3 DEF Overflow
  <2> QED
    BY <2>1, <2>2 DEF SummarizeAt
<1>4. CASE RequestFails \/ Conflict \/ TurnEnds \/ Cancel \/ UpdateFails \/ UNCHANGED vars
  BY <1>4 DEF RequestFails, Conflict, TurnEnds, Cancel, UpdateFails, vars
<1>5. CASE StartOffload
  BY <1>5 DEF StartOffload
<1>6. CASE Returns
  <2>1. PICK c \in Call : ToolReturns(c) \/ Compact(c)
    BY <1>6 DEF Returns
  <2>2. CASE ToolReturns(c)
    BY <2>2 DEF ToolReturns, Evict
  <2>3. CASE Compact(c)
    BY <2>3 DEF Compact
  <2> QED
    BY <2>1, <2>2, <2>3
<1>7. CASE Decides
  BY <1>7 DEF Decides, Decide
<1>8. CASE Input \/ BeforeAgent \/ Respond \/ Crash \/ ToolsReturn
  BY <1>8 DEF Input, BeforeAgent, Respond, Crash, ToolsReturn
<1>9. CASE SaveReply \/ SaveNotice \/ EndOffload
  BY <1>9 DEF SaveReply, SaveNotice, EndOffload
<1> QED
  BY <1>1, <1>2, <1>3, <1>4, <1>5, <1>6, <1>7, <1>8, <1>9, NextIs DEF Elsewhere

\* It is enough that a step keeps the messages readable.
LEMMA StubsWritten ==
  ASSUME TypeOK', StubInv, Readable(msgs', stored'), stored \subseteq stored',
         evicted' \subseteq stored', UNCHANGED disk \/ Checkpoint,
         clips' = {} \/ UNCHANGED <<msgs, clips>>
  PROVE  StubInv'
<1>1. /\ msgs' \in Seq(Message) /\ born' \in Nat /\ finished' \in SUBSET Call
  BY DEF TypeOK
<1>2. Readable(Settled', stored')
  BY <1>1, SettledReadable DEF Settled
<1>3. Readable(disk'.msgs, stored')
  <2>1. Readable(disk.msgs, stored')
    BY ReadableMore DEF StubInv
  <2> QED
    BY <1>2, <2>1, Written
<1>4. \A i \in DOMAIN msgs' :
        msgs'[i].id \in clips' => msgs'[i].calls \subseteq stored' \cup Reads
  BY DEF StubInv
<1> QED
  BY <1>3, <1>4 DEF StubInv

LEMMA ReadableSettled ==
  ASSUME TypeOK, StubInv, NEW ms \in Seq(Message), NEW e, Settle(ms, e), NoTools,
         \A st : Readable(ms, st), stored \subseteq stored'
  PROVE  Readable(msgs', stored') /\ evicted' \subseteq stored'
<1>1. born \in Nat /\ finished \in SUBSET Call /\ msgs \in Seq(Message)
  BY DEF TypeOK
<1>2. Readable(Settled, stored)
  BY <1>1, SettledReadable DEF Settled, StubInv
<1>3. Joins(msgs', Settled, ms) /\ Settled \in Seq(Message)
  BY SettleTyped
<1>4. Readable(msgs', stored)
  BY <1>2, <1>3, ReadableJoined
<1> QED
  BY <1>4, ReadableMore, NothingReturned

\* A message of a request is the summary, or one of the messages.
LEMMA EffectiveFrom ==
  ASSUME NEW ms \in Seq(Message), NEW e \in Maybe(Event), NEW i \in DOMAIN Effective(ms, e)
  PROVE  Effective(ms, e)[i].id = 0 \/ \E j \in DOMAIN ms : Effective(ms, e)[i] = ms[j]
<1>1. CASE e = None
  BY <1>1 DEF Effective
<1>2. CASE e # None
  <2> DEFINE n == e.cutoff
             tail == SubSeq(ms, n + 1, Len(ms))
  <2>1. n \in Nat /\ Len(ms) \in Nat /\ DOMAIN ms = 1 .. Len(ms)
    BY <1>2, SomeEvent, Messages
  <2>2. tail \in Seq(Message)
    BY <2>1, TailTyped
  <2>3. Effective(ms, e) = <<Summary>> \o tail
    BY <1>2 DEF Effective
  <2>4. \A k \in DOMAIN tail : \E j \in DOMAIN ms : tail[k] = ms[j]
    <3>1. CASE n <= Len(ms)
      <4>1. Len(tail) = Len(ms) - n /\ \A k \in 1 .. Len(ms) - n : tail[k] = ms[n + k]
        BY <2>1, <3>1, TailTyped
      <4>2. DOMAIN tail = 1 .. Len(ms) - n
        BY <2>2, <4>1, Messages
      <4> HIDE DEF tail, n
      <4>3. \A k \in 1 .. Len(ms) - n : n + k \in DOMAIN ms
        BY <2>1, <3>1
      <4> QED
        BY <4>1, <4>2, <4>3
    <3>2. CASE ~(n <= Len(ms))
      <4>1. DOMAIN tail = {}
        BY <2>1, <3>2
      <4> QED
        BY <4>1
    <3> QED
      BY <3>1, <3>2
  <2> HIDE DEF tail, n
  <2>5. <<Summary>> \in Seq(Message) /\ Summary.id = 0 /\ Len(<<Summary>>) = 1
    BY SummaryTyped
  <2>6. Joins(<<Summary>> \o tail, <<Summary>>, tail)
    BY <2>2, <2>5, Joined
  <2>7. i \in DOMAIN (<<Summary>> \o tail)
    BY <2>3
  <2>8. \/ i \in DOMAIN <<Summary>> /\ (<<Summary>> \o tail)[i] = <<Summary>>[i]
        \/ \E k \in DOMAIN tail : (<<Summary>> \o tail)[i] = tail[k]
    BY <2>2, <2>5, <2>6, <2>7, JoinedPlace
  <2>9. \A j \in DOMAIN <<Summary>> : <<Summary>>[j] = Summary
    OBVIOUS
  <2>10. \/ Effective(ms, e)[i] = Summary
         \/ \E k \in DOMAIN tail : Effective(ms, e)[i] = tail[k]
    BY <2>3, <2>8, <2>9
  <2> QED
    BY <2>4, <2>5, <2>10
<1> QED
  BY <1>1, <1>2

\* The results Overflow clips are those its ids name, and they are written.
LEMMA OverflowReadable ==
  ASSUME TypeOK, IdInv, StubInv, Overflow
  PROVE  \A i \in DOMAIN msgs :
          msgs[i].id \in clips' => msgs[i].calls \subseteq stored' \cup Reads
<1> DEFINE eff == Effective(msgs, event)
<1>1. PICK n \in Cutoffs(eff) : \E cut \in SUBSET Clippable(SubSeq(eff, n + 1, Len(eff))) :
        LET kept == SubSeq(eff, n + 1, Len(eff)) IN
        /\ clips' = {kept[i].id : i \in cut}
        /\ stored' = stored \cup UNION {kept[i].calls : i \in cut \ Sliced(kept)}
  BY DEF Overflow
<1> DEFINE kept == SubSeq(eff, n + 1, Len(eff))
<1>2. PICK cut \in SUBSET Clippable(kept) :
        /\ clips' = {kept[i].id : i \in cut}
        /\ stored' = stored \cup UNION {kept[i].calls : i \in cut \ Sliced(kept)}
  BY <1>1
<1>3. /\ msgs \in Seq(Message) /\ event \in Maybe(Event) /\ born \in Nat
      /\ eff \in Seq(Message) /\ Known(msgs, born)
  BY EffectiveTyped DEF TypeOK, IdInv
<1>4. n \in 1 .. Len(eff) /\ Len(eff) \in Nat /\ DOMAIN eff = 1 .. Len(eff)
  BY <1>3, CutIs, Messages
<1>5. /\ kept \in Seq(Message) /\ Len(kept) = Len(eff) - n
      /\ \A k \in 1 .. Len(eff) - n : kept[k] = eff[n + k]
  <2> HIDE DEF eff
  <2>1. n \in Nat /\ n <= Len(eff)
    BY <1>4
  <2> QED
    BY <1>3, <2>1, TailTyped
<1>6. \A i \in DOMAIN eff : eff[i].id = 0 \/ \E j \in DOMAIN msgs : eff[i] = msgs[j]
  BY <1>3, EffectiveFrom
<1> HIDE DEF eff
<1>7. \A i \in cut : i \in 1 .. Len(eff) - n
  BY <1>5, Messages DEF Clippable, Sliced, TailBatch
<1>8. \A i \in cut : kept[i].id = 0 \/ \E j \in DOMAIN msgs : kept[i] = msgs[j]
  <2>1. \A i \in 1 .. Len(eff) - n : n + i \in DOMAIN eff
    BY <1>4
  <2> QED
    BY <1>5, <1>6, <1>7, <2>1
<1> HIDE DEF kept
<1>9. ASSUME NEW i \in DOMAIN msgs, msgs[i].id \in clips'
      PROVE  msgs[i].calls \subseteq stored' \cup Reads
  <2>1. PICK k \in cut : msgs[i].id = kept[k].id
    BY <1>2, <1>9
  <2>2. msgs[i].id # 0
    BY <1>3 DEF Known
  <2>3. PICK j \in DOMAIN msgs : kept[k] = msgs[j]
    BY <1>8, <2>1, <2>2
  <2>4. i = j
    BY <1>3, <2>1, <2>3 DEF Known
  <2>5. k \in Sliced(kept) => kept[k].calls \subseteq Reads
    BY DEF Sliced
  <2>6. k \notin Sliced(kept) => kept[k].calls \subseteq stored'
    BY <1>2
  <2> QED
    BY <2>3, <2>4, <2>5, <2>6
<1> QED
  BY <1>9

LEMMA StubStep ==
  ASSUME TypeOK, TypeOK', Quiet, IdInv, StubInv, [Next]_vars
  PROVE  StubInv'
<1>1. /\ born \in Nat /\ finished \in SUBSET Call /\ msgs \in Seq(Message)
      /\ stored \subseteq stored'
  BY FilesGrow DEF TypeOK
<1>2. /\ Readable(msgs, stored) /\ Readable(disk.msgs, stored) /\ evicted \subseteq stored
      /\ Readable(msgs, stored')
  BY <1>1, ReadableMore DEF StubInv
<1>3. ASSUME Readable(msgs', stored'), evicted' \subseteq stored', UNCHANGED disk \/ Checkpoint,
             clips' = {} \/ UNCHANGED <<msgs, clips>>
      PROVE  StubInv'
  BY <1>1, <1>3, StubsWritten
<1>4. CASE Overflow
  <2>1. UNCHANGED <<msgs, disk, evicted>>
    BY <1>4 DEF Overflow, stateVars, toolVars
  <2>2. Readable(disk.msgs, stored')
    BY <1>1, <1>2, ReadableMore
  <2>3. \A i \in DOMAIN msgs :
          msgs[i].id \in clips' => msgs[i].calls \subseteq stored' \cup Reads
    BY <1>4, OverflowReadable
  <2> QED
    BY <1>1, <1>2, <2>1, <2>2, <2>3 DEF StubInv
<1>5. CASE Elsewhere /\ ~Overflow
  <2>1. UNCHANGED <<msgs, evicted>> /\ (UNCHANGED disk \/ Checkpoint)
    BY <1>5, Untouched DEF stateVars, toolVars
  <2>2. clips' = {} \/ clips' = clips
    <3>1. CASE CallModel \/ Summarize \/ RequestFails \/ Conflict
      BY <3>1 DEF CallModel, Summarize, RequestFails, Conflict, NoCall
    <3>2. CASE TurnEnds \/ Cancel \/ UpdateFails \/ StartOffload \/ UNCHANGED vars
      BY <3>2 DEF TurnEnds, Cancel, UpdateFails, StartOffload, vars, callVars
    <3> QED
      BY <1>5, <3>1, <3>2 DEF Elsewhere
  <2> QED
    BY <1>1, <1>2, <1>3, <2>1, <2>2
<1>6. CASE Returns
  <2>1. PICK c \in Call : ToolReturns(c) \/ Compact(c)
    BY <1>6 DEF Returns
  <2>2. UNCHANGED <<msgs, disk, clips>>
    BY <2>1 DEF ToolReturns, Compact, stateVars, callVars
  <2>3. evicted' \subseteq stored'
    BY <1>2, <2>1 DEF ToolReturns, Compact, Evict
  <2> QED
    BY <1>2, <1>3, <2>2, <2>3
<1>7. CASE Decides
  <2>1. PICK approved \in SUBSET reply : Decide(approved)
    BY <1>7 DEF Decides
  <2> DEFINE cs == reply \ approved
  <2>2. /\ msgs' = msgs \o Results(cs, {}, born) /\ pc = "asking"
        /\ UNCHANGED <<disk, evicted, clips, stored>>
    BY <2>1 DEF Decide, fileVars, toolVars
  <2>3. cs \in SUBSET Call
    BY DEF TypeOK
  <2> HIDE DEF cs
  <2>4. Readable(msgs', stored')
    BY <1>1, <1>2, <2>2, <2>3, SettledReadable
  <2>5. clips' = {}
    BY <2>2 DEF Quiet
  <2> QED
    BY <1>2, <1>3, <2>2, <2>4, <2>5
<1>8. CASE Input
  <2> DEFINE given == born + Cardinality(finished) + 1
             x == New(given, "human", {})
  <2>1. x \in Message /\ <<x>> \in Seq(Message)
    BY NextNewMessage
  <2>2. \A st : Readable(<<x>>, st)
    BY OneReadable
  <2>3. NoTools /\ UNCHANGED <<disk, clips>> /\ pc # "model"
    BY <1>8 DEF Input, fileVars, Busy
  <2>4. clips' = {}
    BY <2>3 DEF Quiet
  <2>5. Settle(<<x>>, SettledEvent) \/ msgs' = Append(msgs, x)
    BY <1>8 DEF Input
  <2> HIDE DEF x
  <2>6. CASE Settle(<<x>>, SettledEvent)
    BY <1>1, <1>3, <2>1, <2>2, <2>3, <2>4, <2>6, ReadableSettled
  <2>7. CASE msgs' = Append(msgs, x)
    <3>1. Joins(msgs', msgs, <<x>>)
      BY <1>1, <2>1, <2>7, Appended
    <3>2. Readable(msgs', stored')
      BY <1>1, <1>2, <2>1, <2>2, <3>1, ReadableJoined
    <3> QED
      BY <1>3, <2>3, <2>4, <3>2, NothingReturned
  <2> QED
    BY <2>5, <2>6, <2>7
<1>9. CASE BeforeAgent
  <2>1. msgs' = Patch(msgs) /\ UNCHANGED <<disk, evicted, clips, stored>> /\ pc # "model"
    BY <1>9 DEF BeforeAgent, fileVars, toolVars, callVars
  <2>2. Readable(msgs', stored') /\ clips' = {}
    BY <1>1, <1>2, <2>1, PatchReadable DEF Quiet
  <2> QED
    BY <1>2, <1>3, <2>1, <2>2
<1>10. CASE Respond
  <2> DEFINE ns == [i \in DOMAIN msgs |-> [msgs[i] EXCEPT !.stub = @ \/ msgs[i].id \in clips]]
             x == New(born + 1, "ai", reply)
  <2>1. /\ ns \in Seq(Message) /\ Alike(msgs, ns)
        /\ \A i \in DOMAIN msgs : ns[i].stub <=> msgs[i].stub \/ msgs[i].id \in clips
    BY <1>1, ClippedIs
  <2>2. DOMAIN ns = DOMAIN msgs
    OBVIOUS
  <2>3. x \in Message /\ \A st : Readable(<<x>>, st)
    <3> DEFINE m == born + 1
    <3>1. m \in Nat /\ reply \in SUBSET Call
      BY <1>1 DEF TypeOK
    <3> HIDE DEF m
    <3>2. New(m, "ai", reply) \in Message
      BY <3>1 DEF New, Message
    <3>3. \A st : Readable(<<New(m, "ai", reply)>>, st)
      BY OneReadable
    <3> QED
      BY <3>2, <3>3 DEF m
  <2>4. /\ msgs' = Append(ns, x) /\ UNCHANGED <<evicted, stored>> /\ Checkpoint /\ clips' = {}
    BY <1>10 DEF Respond, toolVars, NoCall
  <2> HIDE DEF ns, x
  <2>5. Joins(msgs', ns, <<x>>) /\ <<x>> \in Seq(Message)
    BY <2>1, <2>3, <2>4, Appended
  <2>6. Readable(ns, stored)
    <3>1. \A i \in DOMAIN msgs : ns[i].calls = msgs[i].calls
      BY <1>1, <2>1, Messages DEF Alike
    <3> QED
      BY <2>1, <2>2, <3>1 DEF Readable, StubInv
  <2>7. Readable(msgs', stored)
    BY <2>1, <2>3, <2>5, <2>6, ReadableJoined
  <2> QED
    BY <1>2, <1>3, <2>4, <2>7
<1>11. CASE Crash
  <2>1. msgs' = disk.msgs /\ UNCHANGED <<disk, stored>> /\ NoTools /\ clips' = {}
    BY <1>11 DEF Crash, fileVars, NoCall
  <2> QED
    BY <1>2, <1>3, <2>1, NothingReturned
<1>12. CASE ToolsReturn \/ EndOffload
  <2>1. PICK e : Settle(<<>>, e)
    BY <1>12 DEF ToolsReturn, EndOffload, Update
  <2>2. NoTools /\ (UNCHANGED disk \/ Checkpoint) /\ UNCHANGED clips /\ pc # "model"
    BY <1>12 DEF ToolsReturn, EndOffload, Update, fileVars, callVars, Busy
  <2>3. Readable(msgs', stored') /\ evicted' \subseteq stored'
    BY <1>1, <2>1, <2>2, EmptySeq, NoneReadable, ReadableSettled
  <2> QED
    BY <1>3, <2>2, <2>3 DEF Quiet
<1>13. CASE SaveReply
  <2> DEFINE given == born + Cardinality(finished) + 1
             x == New(given, "ai", shown)
  <2>1. shown \in SUBSET Call
    BY <1>13 DEF SaveReply, Quiet
  <2>2. <<x>> \in Seq(Message)
    BY <2>1, NextNewMessage
  <2>3. \A st : Readable(<<x>>, st)
    BY OneReadable
  <2>4. Settle(<<x>>, SettledEvent) /\ NoTools /\ Checkpoint /\ UNCHANGED clips /\ pc # "model"
    BY <1>13 DEF SaveReply, Update, callVars, Busy
  <2> HIDE DEF x
  <2>5. Readable(msgs', stored') /\ evicted' \subseteq stored'
    BY <1>1, <2>2, <2>3, <2>4, ReadableSettled
  <2> QED
    BY <1>3, <2>4, <2>5 DEF Quiet
<1>14. CASE SaveNotice
  <2> DEFINE given == born + Cardinality(finished) + 1
             x == New(given, "human", {})
  <2>2. <<x>> \in Seq(Message)
    BY NextNewMessage
  <2>3. \A st : Readable(<<x>>, st)
    BY OneReadable
  <2>4. Settle(<<x>>, SettledEvent) /\ NoTools /\ Checkpoint /\ UNCHANGED clips /\ pc # "model"
    BY <1>14 DEF SaveNotice, Update, callVars, Busy
  <2> HIDE DEF x
  <2>5. Readable(msgs', stored') /\ evicted' \subseteq stored'
    BY <1>1, <2>2, <2>3, <2>4, ReadableSettled
  <2> QED
    BY <1>3, <2>4, <2>5 DEF Quiet
<1> QED
  BY <1>4, <1>5, <1>6, <1>7, <1>8, <1>9, <1>10, <1>11, <1>12, <1>13, <1>14, NextIs
-----------------------------------------------------------------------------
(* Files *)

Filed(e) == e # None => e.covers \subseteq file
\* What an event covers, and one that is still to be committed, is in the history file.
FiledInv ==
  ~lost => Filed(event) /\ Filed(pending) /\ Filed(compacted) /\ Filed(plan) /\ Filed(disk.event)

\* What is summarized is filed first, with what the event before it covers.
LEMMA NewEventFiled ==
  ASSUME NEW eff, NEW e, NEW n, NEW ok \in BOOLEAN, NEW ok2, ~lost => Filed(e),
         OffloadMessages(Ids(SubSeq(eff, 1, n)), ok), ~lost'
  PROVE  NewEvent(eff, e, n, ok2).covers \subseteq file'
BY DEF OffloadMessages, NewEvent, Filed

LEMMA FiledStep ==
  ASSUME TypeOK, FiledInv, [Next]_vars
  PROVE  FiledInv'
<1>1. SUFFICES ASSUME ~lost'
               PROVE  /\ Filed(event)' /\ Filed(pending)' /\ Filed(compacted)' /\ Filed(plan)'
                      /\ Filed(disk.event)'
  BY DEF FiledInv
<1>2. /\ ~lost /\ file \subseteq file'
      /\ Filed(event) /\ Filed(pending) /\ Filed(compacted) /\ Filed(plan) /\ Filed(disk.event)
  BY <1>1, FilesGrow DEF FiledInv
<1>3. /\ event # None => event.covers \subseteq file'
      /\ pending # None => pending.covers \subseteq file'
      /\ compacted # None => compacted.covers \subseteq file'
      /\ plan # None => plan.covers \subseteq file'
      /\ disk.event # None => disk.event.covers \subseteq file'
  BY <1>2 DEF Filed
<1> DEFINE OnFile(e) == e # None => e.covers \subseteq file'
<1>4. SUFFICES OnFile(event') /\ OnFile(pending') /\ OnFile(compacted') /\ OnFile(plan')
  <2>1. OnFile(SettledEvent')
    BY <1>4 DEF SettledEvent
  <2>2. UNCHANGED disk \/ Checkpoint
    <3>1. CASE Elsewhere
      BY <3>1, Untouched
    <3>2. CASE Returns \/ Decides
      BY <3>2 DEF Returns, Decides, ToolReturns, Compact, Decide, fileVars
    <3>3. CASE Input \/ BeforeAgent \/ Respond \/ Crash \/ ToolsReturn
      BY <3>3 DEF Input, BeforeAgent, Respond, Crash, ToolsReturn, fileVars
    <3>4. CASE SaveReply \/ SaveNotice \/ EndOffload
      BY <3>4 DEF SaveReply, SaveNotice, EndOffload, Update
    <3> QED
      BY <3>1, <3>2, <3>3, <3>4, NextIs
  <2>3. OnFile(disk'.event)
    BY <1>3, <2>1, <2>2, Written
  <2> QED
    BY <1>4, <2>3 DEF Filed
<1>5. CASE CallModel
  BY <1>3, <1>5 DEF CallModel, stateVars, toolVars, clientVars
<1>6. CASE Summarize \/ Overflow
  <2> DEFINE eff == Effective(msgs, event)
  <2>1. PICK n, tail : SummarizeAt(n, tail)
    BY <1>6 DEF Summarize, Overflow
  <2>2. PICK ok \in BOOLEAN : /\ OffloadMessages(Ids(SubSeq(eff, 1, n)), ok)
                              /\ pending' = NewEvent(eff, event, n, ok)
    BY <2>1 DEF SummarizeAt
  <2> HIDE DEF eff
  <2>3. pending'.covers \subseteq file'
    BY <1>1, <1>2, <2>2, NewEventFiled
  <2>4. UNCHANGED <<event, compacted, plan>>
    BY <1>6 DEF Summarize, Overflow, stateVars, toolVars, clientVars
  <2> QED
    BY <1>3, <2>3, <2>4
<1>7. CASE RequestFails \/ Conflict
  BY <1>3, <1>7 DEF RequestFails, Conflict, NoCall, stateVars, toolVars, clientVars
<1>8. CASE TurnEnds \/ Cancel \/ UpdateFails \/ UNCHANGED vars
  BY <1>3, <1>8 DEF TurnEnds, Cancel, UpdateFails, vars, stateVars, toolVars, clientVars, callVars
<1>9. CASE StartOffload
  <2> DEFINE eff == Effective(disk.msgs, disk.event)
  <2>1. PICK n \in Cutoffs(eff), ok \in BOOLEAN :
          /\ OffloadMessages(Ids(SubSeq(eff, 1, n)), ok)
          /\ plan' = NewEvent(eff, disk.event, n, ok /\ Ids(SubSeq(eff, 1, n)) # {})
    BY <1>9 DEF StartOffload
  <2> HIDE DEF eff
  <2>2. plan'.covers \subseteq file'
    BY <1>1, <1>2, <2>1, NewEventFiled
  <2>3. UNCHANGED <<event, compacted, pending>>
    BY <1>9 DEF StartOffload, stateVars, toolVars, callVars
  <2> QED
    BY <1>3, <2>2, <2>3
<1>10. CASE Returns
  <2>1. PICK c \in Call : ToolReturns(c) \/ Compact(c)
    BY <1>10 DEF Returns
  <2>2. CASE ToolReturns(c)
    BY <1>3, <2>2 DEF ToolReturns, stateVars, callVars, clientVars
  <2>3. CASE Compact(c)
    <3> DEFINE eff == Effective(msgs, event)
    <3>1. PICK n \in Cutoffs(eff), ok \in BOOLEAN :
            /\ OffloadMessages(Ids(SubSeq(eff, 1, n)), ok)
            /\ compacted' = NewEvent(eff, event, n, ok)
      BY <2>3 DEF Compact
    <3> HIDE DEF eff
    <3>2. compacted'.covers \subseteq file'
      BY <1>1, <1>2, <3>1, NewEventFiled
    <3>3. UNCHANGED <<event, plan, pending>>
      BY <2>3 DEF Compact, stateVars, clientVars, callVars
    <3> QED
      BY <1>3, <3>2, <3>3
  <2> QED
    BY <2>1, <2>2, <2>3
<1>11. CASE Decides
  BY <1>3, <1>11 DEF Decides, Decide, toolVars, clientVars
<1>12. CASE Input
  BY <1>3, <1>12 DEF Input, Settle, SettledEvent, NoTools
<1>13. CASE BeforeAgent
  BY <1>3, <1>13 DEF BeforeAgent, callVars, toolVars, clientVars
<1>14. CASE Respond
  BY <1>3, <1>14 DEF Respond, NoCall, toolVars, clientVars
<1>15. CASE Crash
  BY <1>3, <1>15 DEF Crash, NoCall, NoTools, clientVars
<1>16. CASE ToolsReturn
  BY <1>3, <1>16 DEF ToolsReturn, Settle, SettledEvent, NoTools, callVars, clientVars
<1>17. CASE SaveReply \/ SaveNotice
  BY <1>3, <1>17 DEF SaveReply, SaveNotice, Update, Settle, SettledEvent, NoTools, callVars
<1>18. CASE EndOffload
  BY <1>3, <1>18 DEF EndOffload, Update, Settle, NoTools, callVars
<1> QED
  BY <1>5, <1>6, <1>7, <1>8, <1>9, <1>10, <1>11, <1>12, <1>13, <1>14, <1>15, <1>16, <1>17, <1>18,
     NextIs DEF Elsewhere

-----------------------------------------------------------------------------
(* Results follow the message that made the call *)

\* Only results follow the last message, which makes the calls cs.
LastMakes(ms, cs, L) ==
  /\ ms[L].kind = "ai" /\ cs \subseteq ms[L].calls
  /\ \A l \in L + 1 .. Len(ms) : ms[l].kind = "tool"
Awaiting(ms, cs) == \E L \in DOMAIN ms : LastMakes(ms, cs, L)
CalledInv ==
  /\ ResultsCalled(msgs) /\ Answers(msgs)
  /\ ResultsCalled(disk.msgs) /\ Answers(disk.msgs)
  /\ pc \in {"asking", "tools"} \/ finished # {} =>
       Awaiting(msgs, reply) /\ finished \subseteq reply

\* Messages that are no results, or results of the calls awaited.
LEMMA CalledJoined ==
  ASSUME NEW ms \in Seq(Message), NEW rs \in Seq(Message), NEW ns, Joins(ns, ms, rs),
         ResultsCalled(ms),
         \/ \A k \in 1 .. Len(rs) : rs[k].kind # "tool"
         \/ \E cs : /\ Awaiting(ms, cs)
                    /\ \A k \in 1 .. Len(rs) : rs[k].kind = "tool" /\ rs[k].calls \subseteq cs
  PROVE  ResultsCalled(ns)
<1>1. /\ DOMAIN ns = 1 .. Len(ns) /\ DOMAIN ms = 1 .. Len(ms) /\ DOMAIN rs = 1 .. Len(rs)
      /\ Len(ms) \in Nat /\ Len(rs) \in Nat /\ Len(ns) = Len(ms) + Len(rs)
      /\ \A i \in DOMAIN ns : \/ i \in DOMAIN ms /\ ns[i] = ms[i]
                              \/ \E k \in DOMAIN rs : i = Len(ms) + k /\ ns[i] = rs[k]
  BY JoinedPlace
<1>2. /\ \A i \in 1 .. Len(ms) : ns[i] = ms[i]
      /\ \A k \in 1 .. Len(rs) : ns[Len(ms) + k] = rs[k]
  BY DEF Joins
<1>3. ASSUME NEW i \in DOMAIN ns, ns[i].kind = "tool"
      PROVE  \E j \in 1 .. i - 1 : /\ ns[j].kind = "ai" /\ ns[i].calls \subseteq ns[j].calls
                                   /\ \A l \in j + 1 .. i : ns[l].kind = "tool"
  <2>1. CASE i \in DOMAIN ms /\ ns[i] = ms[i]
    <3>1. PICK j \in 1 .. i - 1 : /\ ms[j].kind = "ai" /\ ms[i].calls \subseteq ms[j].calls
                                  /\ \A l \in j + 1 .. i : ms[l].kind = "tool"
      BY <1>3, <2>1 DEF ResultsCalled
    <3>2. i \in 1 .. Len(ms)
      BY <1>1, <2>1
    <3>3. j \in 1 .. Len(ms) /\ \A l \in j + 1 .. i : l \in 1 .. Len(ms)
      BY <1>1, <3>2
    <3>4. \A l \in j + 1 .. i : ns[l].kind = "tool"
      BY <1>2, <3>1, <3>3
    <3> QED
      BY <1>2, <2>1, <3>1, <3>3, <3>4
  <2>2. CASE \E k \in DOMAIN rs : i = Len(ms) + k /\ ns[i] = rs[k]
    <3>1. PICK k \in 1 .. Len(rs) : i = Len(ms) + k /\ ns[i] = rs[k]
      BY <1>1, <2>2
    <3>2. PICK cs : /\ Awaiting(ms, cs)
                    /\ \A m \in 1 .. Len(rs) : rs[m].kind = "tool" /\ rs[m].calls \subseteq cs
      BY <1>3, <3>1
    <3>3. PICK L \in 1 .. Len(ms) : LastMakes(ms, cs, L)
      BY <1>1, <3>2 DEF Awaiting
    <3>4. ns[L].kind = "ai" /\ ns[i].calls \subseteq ns[L].calls
      BY <1>2, <3>1, <3>2, <3>3 DEF LastMakes
    <3>5. \A l \in L + 1 .. i : ns[l].kind = "tool"
      <4> SUFFICES ASSUME NEW l \in L + 1 .. i
                   PROVE  ns[l].kind = "tool"
        OBVIOUS
      <4>1. CASE l <= Len(ms)
        <5>1. l \in 1 .. Len(ms) /\ l \in L + 1 .. Len(ms)
          BY <1>1, <3>1, <4>1
        <5> QED
          BY <1>2, <3>3, <5>1 DEF LastMakes
      <4>2. CASE ~(l <= Len(ms))
        <5>1. l - Len(ms) \in 1 .. Len(rs) /\ l = Len(ms) + (l - Len(ms))
          BY <1>1, <3>1, <4>2
        <5> QED
          BY <1>2, <3>2, <5>1
      <4> QED
        BY <4>1, <4>2
    <3>6. L \in 1 .. i - 1
      BY <1>1, <3>1
    <3> QED
      BY <3>4, <3>5, <3>6
  <2> QED
    BY <1>1, <2>1, <2>2
<1> QED
  BY <1>3 DEF ResultsCalled

LEMMA SettledCalled ==
  ASSUME NEW ms \in Seq(Message), NEW cs \in SUBSET Call, NEW ev, NEW n \in Nat, NEW rp,
         ResultsCalled(ms), Answers(ms), cs # {} => Awaiting(ms, rp) /\ cs \subseteq rp
  PROVE  ResultsCalled(ms \o Results(cs, ev, n)) /\ Answers(ms \o Results(cs, ev, n))
<1>1. CASE cs = {}
  BY <1>1, NoResults
<1>2. CASE cs # {}
  <2> DEFINE rs == Results(cs, ev, n)
  <2>1. AreResults(rs, cs, ev, n) /\ rs \in Seq(Message) /\ Joins(ms \o rs, ms, rs)
    BY WithResults
  <2> HIDE DEF rs
  <2>2. \A k \in 1 .. Len(rs) : /\ rs[k].kind = "tool" /\ rs[k].calls \subseteq rp
                                /\ rs[k].calls # {}
    <3> TAKE k \in 1 .. Len(rs)
    <3>1. PICK c \in cs : rs[k].kind = "tool" /\ rs[k].calls = {c}
      BY <2>1 DEF AreResults
    <3> QED
      BY <1>2, <3>1
  <2>3. ResultsCalled(ms \o rs)
    BY <1>2, <2>1, <2>2, CalledJoined
  <2>4. Answers(rs)
    BY <2>1, <2>2, Messages DEF Answers
  <2>5. Answers(ms \o rs)
    BY <2>1, <2>4, AnswersJoined
  <2> QED
    BY <2>3, <2>5 DEF rs
<1> QED
  BY <1>1, <1>2

\* The last message makes the calls.
LEMMA LastAwaits ==
  ASSUME NEW ms \in Seq(Message), NEW x \in Message, NEW ns, Joins(ns, ms, <<x>>), x.kind = "ai"
  PROVE  Awaiting(ns, x.calls)
<1>1. <<x>> \in Seq(Message) /\ Len(<<x>>) = 1 /\ <<x>>[1] = x /\ Len(ms) \in Nat
  BY Messages
<1>2. ns \in Seq(Message) /\ Len(ns) = Len(ms) + 1 /\ ns[Len(ms) + 1] = x
  BY <1>1 DEF Joins
<1>3. DOMAIN ns = 1 .. Len(ns)
  BY <1>2, Messages
<1>4. Len(ms) + 1 \in DOMAIN ns /\ (Len(ms) + 1) + 1 .. Len(ns) = {}
  BY <1>1, <1>2, <1>3
<1>5. LastMakes(ns, x.calls, Len(ms) + 1)
  BY <1>2, <1>4 DEF LastMakes
<1> QED
  BY <1>4, <1>5 DEF Awaiting

LEMMA ResultsAwait ==
  ASSUME NEW ms \in Seq(Message), NEW rs \in Seq(Message), NEW ns, Joins(ns, ms, rs),
         NEW cs, NEW ds, ds \subseteq cs, Awaiting(ms, cs),
         \A k \in 1 .. Len(rs) : rs[k].kind = "tool"
  PROVE  Awaiting(ns, ds)
<1>1. /\ DOMAIN ns = 1 .. Len(ns) /\ DOMAIN ms = 1 .. Len(ms) /\ DOMAIN rs = 1 .. Len(rs)
      /\ Len(ms) \in Nat /\ Len(rs) \in Nat /\ Len(ns) = Len(ms) + Len(rs)
      /\ \A i \in DOMAIN ns : \/ i \in DOMAIN ms /\ ns[i] = ms[i]
                              \/ \E k \in DOMAIN rs : i = Len(ms) + k /\ ns[i] = rs[k]
  BY JoinedPlace
<1>2. PICK L \in 1 .. Len(ms) : LastMakes(ms, cs, L)
  BY <1>1 DEF Awaiting
<1>3. L \in DOMAIN ns /\ ns[L] = ms[L]
  BY <1>1 DEF Joins
<1>4. \A l \in L + 1 .. Len(ns) : ns[l].kind = "tool"
  <2> TAKE l \in L + 1 .. Len(ns)
  <2>1. l \in DOMAIN ns
    BY <1>1
  <2>2. CASE l \in DOMAIN ms /\ ns[l] = ms[l]
    <3>1. l \in L + 1 .. Len(ms)
      BY <1>1, <2>2
    <3> QED
      BY <1>2, <2>2, <3>1 DEF LastMakes
  <2>3. CASE \E k \in DOMAIN rs : ns[l] = rs[k]
    BY <1>1, <2>3
  <2> QED
    BY <1>1, <2>1, <2>2, <2>3
<1>5. LastMakes(ns, ds, L)
  BY <1>2, <1>3, <1>4 DEF LastMakes
<1> QED
  BY <1>3, <1>5 DEF Awaiting

\* It is enough that a step keeps the messages called.
LEMMA CalledWritten ==
  ASSUME TypeOK', CalledInv, ResultsCalled(msgs'), Answers(msgs'),
         pc' \in {"asking", "tools"} \/ finished' # {} =>
           Awaiting(msgs', reply') /\ finished' \subseteq reply',
         UNCHANGED disk \/ Checkpoint
  PROVE  CalledInv'
<1>1. msgs' \in Seq(Message) /\ born' \in Nat /\ finished' \in SUBSET Call
  BY DEF TypeOK
<1>2. ResultsCalled(Settled') /\ Answers(Settled')
  BY <1>1, SettledCalled DEF Settled
<1>3. ResultsCalled(disk'.msgs) /\ Answers(disk'.msgs)
  BY <1>2, Written DEF CalledInv
<1> QED
  BY <1>3 DEF CalledInv

LEMMA CalledSettled ==
  ASSUME TypeOK, CalledInv, NEW ms \in Seq(Message), NEW e, Settle(ms, e),
         \A k \in 1 .. Len(ms) : ms[k].kind # "tool"
  PROVE  ResultsCalled(msgs') /\ Answers(msgs')
<1>1. born \in Nat /\ finished \in SUBSET Call /\ msgs \in Seq(Message)
  BY DEF TypeOK
<1>2. ResultsCalled(Settled) /\ Answers(Settled)
  BY <1>1, SettledCalled DEF Settled, CalledInv
<1>3. Joins(msgs', Settled, ms) /\ Settled \in Seq(Message)
  BY SettleTyped
<1>4. Answers(ms)
  BY Messages DEF Answers
<1> QED
  BY <1>2, <1>3, <1>4, CalledJoined, AnswersJoined

LEMMA OneIs ==
  ASSUME NEW x \in Message
  PROVE  <<x>> \in Seq(Message) /\ \A k \in 1 .. Len(<<x>>) : <<x>>[k] = x
OBVIOUS

LEMMA CalledStep ==
  ASSUME TypeOK, TypeOK', Quiet, Quiet', CalledInv, [Next]_vars
  PROVE  CalledInv'
<1>1. /\ born \in Nat /\ finished \in SUBSET Call /\ msgs \in Seq(Message) /\ reply \in SUBSET Call
      /\ ResultsCalled(msgs) /\ Answers(msgs)
      /\ ResultsCalled(disk.msgs) /\ Answers(disk.msgs)
      /\ pc \in {"asking", "tools"} \/ finished # {} =>
           Awaiting(msgs, reply) /\ finished \subseteq reply
  BY DEF TypeOK, CalledInv
<1>2. ASSUME ResultsCalled(msgs'), Answers(msgs'),
             pc' \in {"asking", "tools"} \/ finished' # {} =>
               Awaiting(msgs', reply') /\ finished' \subseteq reply',
             UNCHANGED disk \/ Checkpoint
      PROVE  CalledInv'
  BY <1>2, CalledWritten
<1>3. CASE Elsewhere
  <2>1. UNCHANGED <<msgs, finished>> /\ (UNCHANGED disk \/ Checkpoint)
    BY <1>3, Untouched DEF stateVars, toolVars
  <2>2. \/ UNCHANGED <<pc, reply>>
        \/ pc' = "model" /\ finished' = {}
        \/ pc' = "idle" /\ reply' = reply
    <3>1. CASE CallModel \/ Summarize \/ Overflow
      <4>1. pc' = "model"
        BY <3>1 DEF CallModel, Summarize, Overflow
      <4> QED
        BY <4>1 DEF Quiet
    <3>2. CASE RequestFails
      BY <3>2 DEF RequestFails
    <3>3. CASE TurnEnds \/ Cancel \/ Conflict \/ UpdateFails \/ StartOffload \/ UNCHANGED vars
      BY <3>3 DEF TurnEnds, Cancel, Conflict, UpdateFails, StartOffload, vars, callVars
    <3> QED
      BY <1>3, <3>1, <3>2, <3>3 DEF Elsewhere
  <2> QED
    BY <1>1, <1>2, <2>1, <2>2
<1>4. CASE Returns
  <2>1. PICK c \in Call : ToolReturns(c) \/ Compact(c)
    BY <1>4 DEF Returns
  <2>2. UNCHANGED <<msgs, disk, reply>> /\ pc = "tools" /\ finished' = finished \cup {c}
        /\ c \in reply
    BY <2>1 DEF ToolReturns, Compact, stateVars, callVars
  <2> QED
    BY <1>1, <1>2, <2>2
<1>5. CASE Decides
  <2>1. PICK approved \in SUBSET reply : Decide(approved)
    BY <1>5 DEF Decides
  <2> DEFINE cs == reply \ approved
             rs == Results(cs, {}, born)
  <2>2. /\ msgs' = msgs \o rs /\ pc = "asking" /\ reply' = approved
        /\ UNCHANGED <<disk, finished>>
    BY <2>1 DEF Decide, fileVars, toolVars
  <2>3. cs \in SUBSET Call /\ cs \subseteq reply /\ finished = {}
    BY <1>1, <2>2 DEF Quiet
  <2> HIDE DEF cs
  <2>4. ResultsCalled(msgs') /\ Answers(msgs')
    BY <1>1, <2>2, <2>3, SettledCalled
  <2>5. AreResults(rs, cs, {}, born) /\ rs \in Seq(Message) /\ Joins(msgs', msgs, rs)
    BY <1>1, <2>2, <2>3, WithResults
  <2> HIDE DEF rs
  <2>6. \A k \in 1 .. Len(rs) : rs[k].kind = "tool"
    BY <2>5 DEF AreResults
  <2>7. Awaiting(msgs', approved)
    BY <1>1, <2>2, <2>5, <2>6, ResultsAwait
  <2> QED
    BY <1>2, <2>2, <2>3, <2>4, <2>7
<1>6. CASE Input
  <2> DEFINE given == born + Cardinality(finished) + 1
             x == New(given, "human", {})
  <2>1. x \in Message /\ <<x>> \in Seq(Message) /\ x.kind = "human"
    BY NextNewMessage
  <2>2. NoTools /\ UNCHANGED disk /\ pc' = "before"
    BY <1>6 DEF Input, fileVars
  <2>3. Settle(<<x>>, SettledEvent) \/ msgs' = Append(msgs, x)
    BY <1>6 DEF Input
  <2> HIDE DEF x
  <2>4. \A k \in 1 .. Len(<<x>>) : <<x>>[k].kind # "tool"
    BY <2>1, OneIs
  <2>5. ResultsCalled(msgs') /\ Answers(msgs')
    <3>1. CASE Settle(<<x>>, SettledEvent)
      BY <2>1, <2>4, <3>1, CalledSettled
    <3>2. CASE msgs' = Append(msgs, x)
      <4>1. Joins(msgs', msgs, <<x>>)
        BY <1>1, <2>1, <3>2, Appended
      <4>2. Answers(<<x>>)
        BY <2>1, <2>4, Messages DEF Answers
      <4> QED
        BY <1>1, <2>1, <2>4, <4>1, <4>2, CalledJoined, AnswersJoined
    <3> QED
      BY <2>3, <3>1, <3>2
  <2> QED
    BY <1>2, <2>2, <2>5, NothingReturned
<1>7. CASE BeforeAgent
  <2>1. msgs' = Patch(msgs) /\ UNCHANGED <<disk, finished>> /\ pc' = "ready" /\ pc = "before"
    BY <1>7 DEF BeforeAgent, fileVars, toolVars
  <2>2. ResultsCalled(msgs') /\ Answers(msgs') /\ finished' = {}
    BY <1>1, <2>1, PatchCalled, PatchAnswers DEF Quiet
  <2> QED
    BY <1>2, <2>1, <2>2
<1>8. CASE Respond
  <2> DEFINE ns == [i \in DOMAIN msgs |-> [msgs[i] EXCEPT !.stub = @ \/ msgs[i].id \in clips]]
             x == New(born + 1, "ai", reply)
  <2>1. ns \in Seq(Message) /\ Alike(msgs, ns)
    BY <1>1, ClippedIs
  <2>2. ResultsCalled(ns) /\ Answers(ns)
    BY <1>1, <2>1, AlikeKept
  <2>3. x \in Message /\ x.kind = "ai" /\ x.calls = reply
    <3> DEFINE m == born + 1
    <3>1. m \in Nat
      BY <1>1
    <3> HIDE DEF m
    <3>2. New(m, "ai", reply) \in Message /\ New(m, "ai", reply).kind = "ai"
          /\ New(m, "ai", reply).calls = reply
      BY <1>1, <3>1 DEF New, Message
    <3> QED
      BY <3>2 DEF m
  <2>4. msgs' = Append(ns, x) /\ Checkpoint /\ UNCHANGED <<finished, reply>> /\ pc = "model"
    BY <1>8 DEF Respond, toolVars
  <2> HIDE DEF ns, x
  <2>5. Joins(msgs', ns, <<x>>) /\ <<x>> \in Seq(Message)
    BY <2>1, <2>3, <2>4, Appended
  <2>6. \A k \in 1 .. Len(<<x>>) : <<x>>[k].kind # "tool"
    BY <2>3, OneIs
  <2>7. Answers(<<x>>)
    BY <2>5, <2>6, Messages DEF Answers
  <2>8. ResultsCalled(msgs') /\ Answers(msgs')
    BY <2>1, <2>2, <2>5, <2>6, <2>7, CalledJoined, AnswersJoined
  <2>9. Awaiting(msgs', reply') /\ finished' = {}
    BY <2>1, <2>3, <2>4, <2>5, LastAwaits DEF Quiet
  <2> QED
    BY <1>2, <2>4, <2>8, <2>9
<1>9. CASE Crash
  <2>1. /\ msgs' = disk.msgs /\ UNCHANGED <<disk, reply>> /\ finished' = {}
        /\ pc' = "asking" => pc = "asking"
        /\ pc' # "tools"
    BY <1>9 DEF Crash, fileVars, NoTools, Busy
  <2>2. pc' = "asking" => disk.msgs = msgs
    BY <2>1 DEF Quiet
  <2> QED
    BY <1>1, <1>2, <2>1, <2>2
<1>10. CASE ToolsReturn \/ EndOffload
  <2>1. PICK e : Settle(<<>>, e)
    BY <1>10 DEF ToolsReturn, EndOffload, Update
  <2>2. NoTools /\ (UNCHANGED disk \/ Checkpoint) /\ pc' \in {"ready", "idle"}
    BY <1>10 DEF ToolsReturn, EndOffload, Update, fileVars
  <2>3. <<>> \in Seq(Message) /\ \A k \in 1 .. Len(<<>>) : <<>>[k].kind # "tool"
    BY EmptySeq
  <2>4. ResultsCalled(msgs') /\ Answers(msgs')
    BY <2>1, <2>3, CalledSettled
  <2> QED
    BY <1>2, <2>2, <2>4, NothingReturned
<1>11. CASE SaveReply
  <2> DEFINE given == born + Cardinality(finished) + 1
             x == New(given, "ai", shown)
  <2>1. shown \in SUBSET Call
    BY <1>11 DEF SaveReply, Quiet
  <2>2. x \in Message /\ <<x>> \in Seq(Message) /\ x.kind = "ai"
    BY <2>1, NextNewMessage
  <2>3. Settle(<<x>>, SettledEvent) /\ NoTools /\ Checkpoint /\ pc' = "idle"
    BY <1>11 DEF SaveReply, Update
  <2> HIDE DEF x
  <2>4. \A k \in 1 .. Len(<<x>>) : <<x>>[k].kind # "tool"
    BY <2>2, OneIs
  <2>5. ResultsCalled(msgs') /\ Answers(msgs')
    BY <2>2, <2>3, <2>4, CalledSettled
  <2> QED
    BY <1>2, <2>3, <2>5, NothingReturned
<1>12. CASE SaveNotice
  <2> DEFINE given == born + Cardinality(finished) + 1
             x == New(given, "human", {})
  <2>2. x \in Message /\ <<x>> \in Seq(Message) /\ x.kind = "human"
    BY NextNewMessage
  <2>3. Settle(<<x>>, SettledEvent) /\ NoTools /\ Checkpoint /\ pc' = "idle"
    BY <1>12 DEF SaveNotice, Update
  <2> HIDE DEF x
  <2>4. \A k \in 1 .. Len(<<x>>) : <<x>>[k].kind # "tool"
    BY <2>2, OneIs
  <2>5. ResultsCalled(msgs') /\ Answers(msgs')
    BY <2>2, <2>3, <2>4, CalledSettled
  <2> QED
    BY <1>2, <2>3, <2>5, NothingReturned
<1> QED
  BY <1>3, <1>4, <1>5, <1>6, <1>7, <1>8, <1>9, <1>10, <1>11, <1>12, NextIs

-----------------------------------------------------------------------------
(* Summaries and the messages they replace *)

\* Each event ends at a message that is no result, and covers those before it;
\* the plan of the client does in the state it will be applied to.
FitInv ==
  ~shifted =>
    /\ Fits(msgs, event) /\ Fits(msgs, pending) /\ Fits(msgs, compacted)
    /\ Fits(Settled, plan)
    /\ Fits(disk.msgs, disk.event) /\ Fits(disk.msgs, plan)

LEMMA NoneFits == \A ms : Fits(ms, None)
BY DEF Fits

LEMMA ProlongsJoined ==
  ASSUME NEW ms \in Seq(Message), NEW rs \in Seq(Message), NEW ns, Joins(ns, ms, rs)
  PROVE  Prolongs(ms, ns)
BY JoinsGrows, GrowsProlongs

\* Results keep their place and their ids when more of them have returned.
LEMMA ResultsProlong ==
  ASSUME NEW ms \in Seq(Message), NEW cs \in SUBSET Call, NEW ds \in SUBSET Call, cs \subseteq ds,
         NEW st, NEW tt, NEW n \in Nat
  PROVE  Prolongs(ms \o Results(cs, st, n), ms \o Results(ds, tt, n))
<1> DEFINE rs == Results(cs, st, n)
           qs == Results(ds, tt, n)
<1>1. AreResults(rs, cs, st, n) /\ rs \in Seq(Message) /\ Joins(ms \o rs, ms, rs)
  BY WithResults
<1>2. AreResults(qs, ds, tt, n) /\ qs \in Seq(Message) /\ Joins(ms \o qs, ms, qs)
  BY WithResults
<1>3. Cardinality(cs) <= Cardinality(ds)
  BY CallsFinite, FS_Subset
<1> HIDE DEF rs, qs
<1> DEFINE xs == ms \o rs
           ys == ms \o qs
<1>4. Len(ms) \in Nat /\ Len(rs) \in Nat /\ Len(qs) \in Nat /\ Len(rs) <= Len(qs)
      /\ Len(xs) = Len(ms) + Len(rs) /\ Len(ys) = Len(ms) + Len(qs)
  BY <1>1, <1>2, <1>3, Messages DEF AreResults, Joins
<1>5. ASSUME NEW i \in 1 .. Len(xs)
      PROVE  ys[i].id = xs[i].id /\ ys[i].kind = xs[i].kind
  <2>1. CASE i <= Len(ms)
    <3>1. i \in 1 .. Len(ms)
      BY <1>4, <2>1
    <3> QED
      BY <1>1, <1>2, <3>1 DEF Joins
  <2>2. CASE ~(i <= Len(ms))
    <3>1. PICK k \in 1 .. Len(rs) : i = Len(ms) + k
      <4>1. i - Len(ms) \in 1 .. Len(rs) /\ i = Len(ms) + (i - Len(ms))
        BY <1>4, <2>2
      <4> QED
        BY <4>1
    <3>2. k \in 1 .. Len(qs)
      BY <1>4
    <3>3. xs[i] = rs[k] /\ ys[i] = qs[k]
      BY <1>1, <1>2, <3>1, <3>2 DEF Joins
    <3>4. rs[k].id = n + k /\ rs[k].kind = "tool" /\ qs[k].id = n + k /\ qs[k].kind = "tool"
      BY <1>1, <1>2, <3>2 DEF AreResults
    <3> QED
      BY <3>3, <3>4
  <2> QED
    BY <2>1, <2>2
<1>6. Len(xs) <= Len(ys)
  BY <1>4
<1>7. Prolongs(xs, ys)
  BY <1>5, <1>6 DEF Prolongs
<1> QED
  BY <1>7 DEF rs, qs

LEMMA SettledProlongs ==
  ASSUME NEW ms \in Seq(Message), NEW cs \in SUBSET Call, NEW st, NEW n \in Nat
  PROVE  Prolongs(ms, ms \o Results(cs, st, n))
BY WithResults, ProlongsJoined

\* It is enough that a step keeps the events of the messages, and the plan.
LEMMA FitWritten ==
  ASSUME TypeOK, TypeOK', Fits(disk.msgs, disk.event), Fits(disk.msgs, plan'),
         Fits(msgs', event'), Fits(msgs', pending'), Fits(msgs', compacted'),
         Fits(Settled', plan'), UNCHANGED disk \/ Checkpoint
  PROVE  FitInv'
<1>1. /\ msgs' \in Seq(Message) /\ born' \in Nat /\ finished' \in SUBSET Call
      /\ event' \in Maybe(Event) /\ compacted' \in Maybe(Event)
  BY DEF TypeOK
<1>2. Settled' \in Seq(Message) /\ Prolongs(msgs', Settled')
  BY <1>1, WithResults, SettledProlongs DEF Settled
<1>3. Fits(Settled', SettledEvent')
  <2>1. Fits(msgs', SettledEvent') /\ SettledEvent' \in Maybe(Event)
    BY <1>1 DEF SettledEvent
  <2> QED
    BY <1>1, <1>2, <2>1, FitsProlonged
<1>4. Fits(disk'.msgs, disk'.event) /\ Fits(disk'.msgs, plan')
  BY <1>3, Written
<1> QED
  BY <1>4 DEF FitInv

\* What a step commits comes after the messages; then nothing waits to be committed.
LEMMA FitSettled ==
  ASSUME TypeOK, TypeOK', NEW ms \in Seq(Message), NEW e, Settle(ms, e), NoTools
  PROVE  /\ Settled' = msgs' /\ msgs' \in Seq(Message)
         /\ \A f \in Maybe(Event) : Fits(msgs, f) => Fits(msgs', f)
         /\ \A f \in Maybe(Event) : Fits(Settled, f) => Fits(msgs', f)
<1>1. /\ born \in Nat /\ finished \in SUBSET Call /\ msgs \in Seq(Message)
      /\ born' \in Nat
  BY DEF TypeOK
<1>2. Joins(msgs', Settled, ms) /\ Settled \in Seq(Message) /\ msgs' \in Seq(Message)
  BY SettleTyped
<1>3. Settled' = msgs'
  BY <1>1, <1>2, NothingReturned, NoResults DEF Settled
<1>4. Prolongs(Settled, msgs')
  BY <1>2, ProlongsJoined
<1>5. Prolongs(msgs, Settled)
  BY <1>1, SettledProlongs DEF Settled
<1>6. \A f \in Maybe(Event) : Fits(Settled, f) => Fits(msgs', f)
  BY <1>2, <1>4, FitsProlonged
<1>7. \A f \in Maybe(Event) : Fits(msgs, f) => Fits(Settled, f)
  BY <1>1, <1>2, <1>5, FitsProlonged
<1> QED
  BY <1>2, <1>3, <1>6, <1>7

\* No message is taken for another again once it was.
LEMMA ShiftedStays ==
  ASSUME TypeOK, [Next]_vars
  PROVE  /\ shifted => shifted'
         /\ (BeforeAgent \/ StartOffload \/ UNCHANGED shifted)
<1> USE DEF ghostVars
<1>1. CASE CallModel \/ Summarize \/ Overflow \/ RequestFails
  BY <1>1 DEF CallModel, Summarize, Overflow, RequestFails
<1>2. CASE TurnEnds \/ Cancel \/ Conflict \/ UpdateFails \/ UNCHANGED vars
  BY <1>2 DEF TurnEnds, Cancel, Conflict, UpdateFails, vars
<1>3. CASE BeforeAgent \/ StartOffload
  BY <1>3 DEF BeforeAgent, StartOffload
<1>4. CASE Returns
  <2>1. PICK c \in Call : ToolReturns(c) \/ Compact(c)
    BY <1>4 DEF Returns
  <2> QED
    BY <2>1 DEF ToolReturns, Compact
<1>5. CASE Decides
  BY <1>5 DEF Decides, Decide
<1>6. CASE Input \/ Respond \/ Crash \/ ToolsReturn
  BY <1>6 DEF Input, Respond, Crash, ToolsReturn
<1>7. CASE SaveReply \/ SaveNotice \/ EndOffload
  BY <1>7 DEF SaveReply, SaveNotice, EndOffload
<1> QED
  BY <1>1, <1>2, <1>3, <1>4, <1>5, <1>6, <1>7, NextIs DEF Elsewhere

LEMMA FitStep ==
  ASSUME TypeOK, TypeOK', Quiet, Quiet', CalledInv, FitInv, [Next]_vars
  PROVE  FitInv'
<1>1. SUFFICES ASSUME ~shifted'
               PROVE  FitInv'
  BY DEF FitInv
<1>2. /\ ~shifted
      /\ Fits(msgs, event) /\ Fits(msgs, pending) /\ Fits(msgs, compacted)
      /\ Fits(Settled, plan)
      /\ Fits(disk.msgs, disk.event) /\ Fits(disk.msgs, plan)
  BY <1>1, ShiftedStays DEF FitInv
<1>3. /\ born \in Nat /\ finished \in SUBSET Call /\ msgs \in Seq(Message)
      /\ event \in Maybe(Event) /\ pending \in Maybe(Event) /\ compacted \in Maybe(Event)
      /\ plan \in Maybe(Event) /\ reply \in SUBSET Call
      /\ disk.msgs \in Seq(Message) /\ disk.event \in Maybe(Event)
      /\ born' \in Nat /\ msgs' \in Seq(Message) /\ finished' \in SUBSET Call
  BY DEF TypeOK
<1>4. /\ ResultsCalled(msgs) /\ Answers(msgs)
      /\ ResultsCalled(disk.msgs) /\ Answers(disk.msgs)
  BY DEF CalledInv
<1>5. Settled \in Seq(Message) /\ SettledEvent \in Maybe(Event) /\ Fits(msgs, SettledEvent)
  BY <1>2, SettledTyped DEF SettledEvent
<1>6. finished = {} => Settled = msgs
  BY <1>3, NoResults DEF Settled
<1>7. finished' = {} => Settled' = msgs'
  BY <1>3, NoResults DEF Settled
<1>8. ASSUME Fits(disk.msgs, plan'), Fits(msgs', event'), Fits(msgs', pending'),
             Fits(msgs', compacted'), Fits(Settled', plan'), UNCHANGED disk \/ Checkpoint
      PROVE  FitInv'
  BY <1>2, <1>8, FitWritten
<1>9. CASE Elsewhere
  <2>1. /\ UNCHANGED <<msgs, event, born, finished, evicted, compacted>>
        /\ UNCHANGED disk \/ Checkpoint
    BY <1>9, Untouched DEF stateVars, toolVars
  <2>2. Settled' = Settled
    BY <2>1 DEF Settled
  <2>3. Fits(msgs, pending')
    <3>1. CASE CallModel \/ RequestFails \/ Conflict
      BY <1>2, <3>1, NoneFits DEF CallModel, RequestFails, Conflict, NoCall
    <3>2. CASE Summarize \/ Overflow
      <4> DEFINE eff == Effective(msgs, event)
      <4>1. PICK n \in Cutoffs(eff) : \E tail : SummarizeAt(n, tail)
        BY <3>2 DEF Summarize, Overflow
      <4>2. PICK ok \in BOOLEAN : pending' = NewEvent(eff, event, n, ok)
        BY <4>1 DEF SummarizeAt
      <4> QED
        BY <1>2, <1>3, <1>4, <4>2, NewEventFits
    <3>3. CASE TurnEnds \/ Cancel \/ UpdateFails \/ StartOffload \/ UNCHANGED vars
      BY <1>2, <3>3 DEF TurnEnds, Cancel, UpdateFails, StartOffload, vars, callVars
    <3> QED
      BY <1>9, <3>1, <3>2, <3>3 DEF Elsewhere
  <2>4. Fits(disk.msgs, plan') /\ Fits(Settled, plan')
    <3>1. CASE StartOffload
      <4> DEFINE eff == Effective(disk.msgs, disk.event)
      <4>1. PICK n \in Cutoffs(eff), ok \in BOOLEAN :
              plan' = NewEvent(eff, disk.event, n, ok /\ Ids(SubSeq(eff, 1, n)) # {})
        BY <3>1 DEF StartOffload
      <4> DEFINE ok2 == ok /\ Ids(SubSeq(eff, 1, n)) # {}
      <4>2. ok2 \in BOOLEAN
        OBVIOUS
      <4> HIDE DEF ok2
      <4>3. /\ Fits(disk.msgs, NewEvent(eff, disk.event, n, ok2))
            /\ NewEvent(eff, disk.event, n, ok2) \in Event
        BY <1>2, <1>3, <1>4, <4>2, NewEventFits, NewEventTyped
      <4>4. Fits(disk.msgs, plan') /\ plan' \in Event
        BY <4>1, <4>3 DEF ok2
      <4>5. plan' \in Maybe(Event)
        BY <4>4, EventIsMaybe
      <4>6. Agrees(Settled, plan'.cutoff + 1)
        BY <1>1, <3>1 DEF StartOffload
      <4>7. DOMAIN disk.msgs = 1 .. Len(disk.msgs) /\ Len(disk.msgs) \in Nat
        BY <1>3, Messages
      <4>8. ASSUME plan' # None, NEW i \in 1 .. plan'.cutoff + 1
            PROVE  /\ i <= Len(Settled) /\ Settled[i].id = disk.msgs[i].id
                   /\ Settled[i].kind = disk.msgs[i].kind
        <5>1. plan'.cutoff \in Nat /\ plan'.cutoff < Len(disk.msgs)
          BY <4>4, <4>5, <4>8, SomeEvent DEF Fits
        <5>2. i \in DOMAIN disk.msgs /\ i <= plan'.cutoff + 1
          BY <4>7, <5>1
        <5> QED
          BY <4>6, <5>2 DEF Agrees
      <4> QED
        BY <1>3, <1>5, <4>4, <4>5, <4>8, FitsSameHead
    <3>2. CASE ~StartOffload
      <4>1. plan' = plan \/ plan' = None
        <5>1. CASE CallModel \/ Summarize \/ Overflow
          BY <5>1 DEF CallModel, Summarize, Overflow, clientVars
        <5>2. CASE RequestFails \/ TurnEnds \/ Cancel \/ Conflict \/ UpdateFails \/ UNCHANGED vars
          BY <5>2 DEF RequestFails, TurnEnds, Cancel, Conflict, UpdateFails, vars, clientVars
        <5> QED
          BY <1>9, <3>2, <5>1, <5>2 DEF Elsewhere
      <4> QED
        BY <1>2, <4>1, NoneFits
    <3> QED
      BY <3>1, <3>2
  <2> QED
    BY <1>2, <1>8, <2>1, <2>2, <2>3, <2>4
<1>10. CASE Returns
  <2>1. PICK c \in Call : ToolReturns(c) \/ Compact(c)
    BY <1>10 DEF Returns
  <2>2. /\ UNCHANGED <<msgs, event, born, disk, pending, plan>>
        /\ finished' = finished \cup {c}
    BY <2>1 DEF ToolReturns, Compact, stateVars, callVars, clientVars
  <2>3. Prolongs(Settled, Settled') /\ Settled' \in Seq(Message)
    BY <1>3, <2>2, ResultsProlong, WithResults DEF Settled
  <2>4. Fits(Settled', plan)
    BY <1>2, <1>3, <1>5, <2>3, FitsProlonged
  <2>5. Fits(msgs, compacted')
    <3>1. CASE ToolReturns(c)
      BY <1>2, <3>1 DEF ToolReturns
    <3>2. CASE Compact(c)
      <4> DEFINE eff == Effective(msgs, event)
      <4>1. PICK n \in Cutoffs(eff), ok \in BOOLEAN : compacted' = NewEvent(eff, event, n, ok)
        BY <3>2 DEF Compact
      <4> QED
        BY <1>2, <1>3, <1>4, <4>1, NewEventFits
    <3> QED
      BY <2>1, <3>1, <3>2
  <2> QED
    BY <1>2, <1>8, <2>2, <2>4, <2>5
<1>11. CASE Decides
  <2>1. PICK approved \in SUBSET reply : Decide(approved)
    BY <1>11 DEF Decides
  <2> DEFINE cs == reply \ approved
  <2>2. /\ msgs' = msgs \o Results(cs, {}, born) /\ pc = "asking"
        /\ UNCHANGED <<event, disk, pending, plan, finished, compacted>>
    BY <2>1 DEF Decide, fileVars, toolVars, clientVars
  <2>3. cs \in SUBSET Call /\ finished = {}
    BY <1>3, <2>2 DEF Quiet
  <2> HIDE DEF cs
  <2>4. Prolongs(msgs, msgs')
    BY <1>3, <2>2, <2>3, SettledProlongs
  <2>5. \A f \in Maybe(Event) : Fits(msgs, f) => Fits(msgs', f)
    BY <1>3, <2>4, FitsProlonged
  <2> QED
    BY <1>2, <1>3, <1>6, <1>7, <1>8, <2>2, <2>3, <2>5
<1>12. CASE Input
  <2> DEFINE given == born + Cardinality(finished) + 1
             x == New(given, "human", {})
  <2>1. x \in Message /\ <<x>> \in Seq(Message)
    BY NextNewMessage
  <2>2. /\ NoTools /\ UNCHANGED <<disk, pending, plan>> /\ pc # "model"
        /\ ui = "ready"
        /\ \/ Settle(<<x>>, SettledEvent)
           \/ msgs' = Append(msgs, x) /\ UNCHANGED event
    BY <1>12 DEF Input, fileVars, Busy
  <2> HIDE DEF x
  <2>3. plan' = None /\ pending' = None /\ compacted' = None
    BY <2>2 DEF Quiet, NoTools
  <2>4. Fits(msgs', event')
    <3>1. CASE Settle(<<x>>, SettledEvent)
      <4>1. event' = SettledEvent
        BY <3>1 DEF Settle
      <4> QED
        BY <1>5, <2>1, <2>2, <3>1, <4>1, FitSettled
    <3>2. CASE msgs' = Append(msgs, x) /\ UNCHANGED event
      <4>1. Prolongs(msgs, msgs')
        BY <1>3, <2>1, <3>2, Appended, ProlongsJoined
      <4> QED
        BY <1>2, <1>3, <3>2, <4>1, FitsProlonged
    <3> QED
      BY <2>2, <3>1, <3>2
  <2> QED
    BY <1>8, <2>2, <2>3, <2>4, NoneFits
<1>13. CASE BeforeAgent
  <2>1. /\ msgs' = Patch(msgs) /\ UNCHANGED <<event, disk, pending, plan, finished, compacted>>
        /\ pc = "before"
        /\ shifted' = (shifted \/ \E e \in {event, plan} \ {None}, d \in Dangling(msgs) :
                                    d[1] <= e.cutoff)
    BY <1>13 DEF BeforeAgent, fileVars, toolVars, callVars, clientVars
  <2>2. \A e \in {event, plan} : e # None => \A d \in Dangling(msgs) : ~(d[1] <= e.cutoff)
    BY <1>1, <2>1
  <2>3. finished = {} /\ pending = None /\ compacted = None
    BY <2>1 DEF Quiet
  <2>4. Fits(msgs, plan)
    BY <1>2, <1>6, <2>3
  <2>5. Fits(msgs', event) /\ Fits(msgs', plan)
    <3>1. event # None => \A d \in Dangling(msgs) : ~(d[1] <= event.cutoff)
      BY <2>2
    <3>2. plan # None => \A d \in Dangling(msgs) : ~(d[1] <= plan.cutoff)
      BY <2>2
    <3>3. Fits(Patch(msgs), event)
      BY <1>2, <1>3, <3>1, PatchFits
    <3>4. Fits(Patch(msgs), plan)
      BY <1>3, <2>4, <3>2, PatchFits
    <3> QED
      BY <2>1, <3>3, <3>4
  <2> QED
    BY <1>2, <1>7, <1>8, <2>1, <2>3, <2>5, NoneFits
<1>14. CASE Respond
  <2> DEFINE ns == [i \in DOMAIN msgs |-> [msgs[i] EXCEPT !.stub = @ \/ msgs[i].id \in clips]]
             x == New(born + 1, "ai", reply)
  <2>1. ns \in Seq(Message) /\ Alike(msgs, ns)
    BY <1>3, ClippedIs
  <2>2. x \in Message
    <3> DEFINE m == born + 1
    <3>1. m \in Nat
      BY <1>3
    <3> HIDE DEF m
    <3>2. New(m, "ai", reply) \in Message
      BY <1>3, <3>1 DEF New, Message
    <3> QED
      BY <3>2 DEF m
  <2>3. /\ msgs' = Append(ns, x) /\ Checkpoint /\ UNCHANGED <<finished, compacted, plan>>
        /\ pc = "model" /\ event' = (IF pending = None THEN event ELSE pending)
        /\ pending' = None
    BY <1>14 DEF Respond, toolVars, clientVars, NoCall
  <2> HIDE DEF ns, x
  <2>4. Prolongs(ns, msgs')
    BY <2>1, <2>2, <2>3, Appended, OneIs, ProlongsJoined
  <2>5. Prolongs(msgs, msgs')
    <3>1. Len(msgs) \in Nat /\ Len(ns) \in Nat /\ Len(msgs') \in Nat
      BY <1>3, <2>1, Messages
    <3> QED
      BY <2>1, <2>4, <3>1 DEF Alike, Prolongs
  <2>6. \A f \in Maybe(Event) : Fits(msgs, f) => Fits(msgs', f)
    BY <1>3, <2>5, FitsProlonged
  <2>7. finished = {} /\ compacted = None
    BY <2>3 DEF Quiet
  <2> QED
    BY <1>2, <1>3, <1>6, <1>7, <1>8, <2>3, <2>6, <2>7, NoneFits
<1>15. CASE Crash
  <2>1. /\ msgs' = disk.msgs /\ event' = disk.event /\ UNCHANGED <<disk, plan>>
        /\ finished' = {} /\ compacted' = None /\ pending' = None
    BY <1>15 DEF Crash, fileVars, clientVars, NoTools, NoCall
  <2> QED
    BY <1>2, <1>7, <1>8, <2>1, NoneFits
<1>16. ASSUME NEW ms \in Seq(Message), Settle(ms, SettledEvent), NoTools,
              plan' = plan, pending' = pending, pc # "model", UNCHANGED disk \/ Checkpoint
       PROVE  FitInv'
  <2>1. event' = SettledEvent /\ compacted' = None /\ pending' = None
    BY <1>16 DEF Settle, NoTools, Quiet
  <2>2. Fits(msgs', event') /\ Fits(Settled', plan)
    BY <1>2, <1>3, <1>5, <1>16, <2>1, FitSettled
  <2> QED
    BY <1>2, <1>8, <1>16, <2>1, <2>2, NoneFits
<1>17. CASE ToolsReturn
  <2>1. /\ Settle(<<>>, SettledEvent) /\ NoTools /\ plan' = plan /\ pending' = pending
        /\ pc # "model" /\ UNCHANGED disk
    BY <1>17 DEF ToolsReturn, clientVars, callVars, fileVars
  <2> QED
    BY <1>16, <2>1, EmptySeq
<1>18. CASE SaveReply
  <2> DEFINE given == born + Cardinality(finished) + 1
             x == New(given, "ai", shown)
  <2>1. shown \in SUBSET Call
    BY <1>18 DEF SaveReply, Quiet
  <2>2. <<x>> \in Seq(Message)
    BY <2>1, NextNewMessage
  <2>3. /\ Settle(<<x>>, SettledEvent) /\ NoTools /\ plan' = plan /\ pending' = pending
        /\ pc # "model" /\ Checkpoint
    BY <1>18 DEF SaveReply, Update, callVars, Busy
  <2> QED
    BY <1>16, <2>2, <2>3
<1>19. CASE SaveNotice
  <2> DEFINE given == born + Cardinality(finished) + 1
             x == New(given, "human", {})
  <2>2. <<x>> \in Seq(Message)
    BY NextNewMessage
  <2>3. /\ Settle(<<x>>, SettledEvent) /\ NoTools /\ pending' = pending
        /\ pc # "model" /\ Checkpoint /\ ui = "noticing" /\ ui' = "ready"
    BY <1>19 DEF SaveNotice, Update, callVars, Busy
  <2>4. plan' = plan
    BY <2>3 DEF Quiet
  <2> QED
    BY <1>16, <2>2, <2>3, <2>4
<1>20. CASE EndOffload
  <2>1. /\ Settle(<<>>, plan) /\ NoTools /\ plan' = None /\ pending' = pending
        /\ pc # "model" /\ Checkpoint
    BY <1>20 DEF EndOffload, Update, callVars, Busy
  <2>2. event' = plan /\ compacted' = None /\ pending' = None
    BY <2>1 DEF Settle, NoTools, Quiet
  <2>3. Fits(msgs', event')
    BY <1>2, <1>3, <2>1, <2>2, EmptySeq, FitSettled
  <2> QED
    BY <1>8, <2>1, <2>2, <2>3, NoneFits
<1> QED
  BY <1>9, <1>10, <1>11, <1>12, <1>13, <1>14, <1>15, <1>17, <1>18, <1>19, <1>20, NextIs

-----------------------------------------------------------------------------
(* Every call is answered *)

LEMMA AnsweredIs ==
  ASSUME NEW ms, NEW c
  PROVE  c \in Answered(ms) <=> \E j \in DOMAIN ms : ms[j].kind = "tool" /\ c \in ms[j].calls
BY DEF Answered

LEMMA MadeIs ==
  ASSUME NEW ms, NEW c
  PROVE  c \in Made(ms) <=> \E j \in DOMAIN ms : ms[j].kind = "ai" /\ c \in ms[j].calls
BY DEF Made

\* Of the calls of the last message cs are open, and no other call is.
OpenAt(ms, cs, L) ==
  /\ LastMakes(ms, cs, L)
  /\ ms[L].calls \ cs \subseteq After(ms, L)
  /\ cs \cap Answered(ms) = {}
  /\ \A i \in DOMAIN ms \ {L} : ms[i].kind = "ai" =>
       ms[i].calls \subseteq After(ms, i) /\ ms[i].calls \cap cs = {}
Open(ms, cs) == \E L \in DOMAIN ms : OpenAt(ms, cs, L)

LEMMA AfterKept ==
  ASSUME NEW ms \in Seq(Message), NEW rs \in Seq(Message), NEW ns, Joins(ns, ms, rs),
         NEW i \in 1 .. Len(ms)
  PROVE  After(ms, i) \subseteq After(ns, i)
<1> SUFFICES ASSUME NEW c \in After(ms, i)
             PROVE  c \in After(ns, i)
  OBVIOUS
<1>1. /\ Len(ms) \in Nat /\ Len(rs) \in Nat /\ Len(ns) = Len(ms) + Len(rs)
      /\ \A j \in 1 .. Len(ms) : ns[j] = ms[j]
  BY Messages DEF Joins
<1>2. PICK j \in i + 1 .. Len(ms) : c \in ms[j].calls /\ \A l \in i + 1 .. j : ms[l].kind = "tool"
  BY AfterIs
<1>3. j \in i + 1 .. Len(ns) /\ j \in 1 .. Len(ms) /\ \A l \in i + 1 .. j : l \in 1 .. Len(ms)
  BY <1>1
<1>4. c \in ns[j].calls /\ \A l \in i + 1 .. j : ns[l].kind = "tool"
  BY <1>1, <1>2, <1>3
<1> QED
  BY <1>3, <1>4, AfterIs

LEMMA AnsweredJoined ==
  ASSUME NEW ms \in Seq(Message), NEW rs \in Seq(Message), NEW ns, Joins(ns, ms, rs)
  PROVE  Answered(ns) \subseteq Answered(ms) \cup Answered(rs)
<1>1. \A i \in DOMAIN ns : \/ i \in DOMAIN ms /\ ns[i] = ms[i]
                           \/ \E k \in DOMAIN rs : ns[i] = rs[k]
  BY JoinedPlace
<1> SUFFICES ASSUME NEW c \in Answered(ns)
             PROVE  c \in Answered(ms) \/ c \in Answered(rs)
  OBVIOUS
<1>2. PICK i \in DOMAIN ns : ns[i].kind = "tool" /\ c \in ns[i].calls
  BY AnsweredIs
<1>3. CASE i \in DOMAIN ms /\ ns[i] = ms[i]
  BY <1>2, <1>3, AnsweredIs
<1>4. CASE \E k \in DOMAIN rs : ns[i] = rs[k]
  BY <1>2, <1>4, AnsweredIs
<1> QED
  BY <1>1, <1>3, <1>4

LEMMA AnsweredMade ==
  ASSUME NEW ms \in Seq(Message), ResultsCalled(ms)
  PROVE  Answered(ms) \subseteq Made(ms)
<1> SUFFICES ASSUME NEW c \in Answered(ms)
             PROVE  c \in Made(ms)
  OBVIOUS
<1>1. Len(ms) \in Nat /\ DOMAIN ms = 1 .. Len(ms)
  BY Messages
<1>2. PICK i \in DOMAIN ms : ms[i].kind = "tool" /\ c \in ms[i].calls
  BY AnsweredIs
<1>3. PICK j \in 1 .. i - 1 : ms[j].kind = "ai" /\ ms[i].calls \subseteq ms[j].calls
  BY <1>2 DEF ResultsCalled
<1>4. j \in DOMAIN ms
  BY <1>1
<1> QED
  BY <1>2, <1>3, <1>4, MadeIs

LEMMA OpenPatchable ==
  ASSUME NEW ms, NEW cs, Open(ms, cs)
  PROVE  Patchable(ms) /\ (cs = {} => CallsAnswered(ms))
<1>1. PICK L \in DOMAIN ms : OpenAt(ms, cs, L)
  BY DEF Open
<1>2. ASSUME NEW i \in DOMAIN ms, ms[i].kind = "ai", NEW c \in ms[i].calls
      PROVE  c \in After(ms, i) \/ (c \notin Answered(ms) /\ c \in cs)
  <2>1. CASE i = L
    BY <1>1, <2>1 DEF OpenAt
  <2>2. CASE i # L
    <3>1. ms[i].calls \subseteq After(ms, i)
      BY <1>1, <1>2, <2>2 DEF OpenAt
    <3> QED
      BY <3>1
  <2> QED
    BY <2>1, <2>2
<1> QED
  BY <1>2 DEF Patchable, CallsAnswered

LEMMA AnsweredPatchable ==
  ASSUME NEW ms, CallsAnswered(ms)
  PROVE  Patchable(ms)
BY DEF Patchable, CallsAnswered

\* Results close calls.
LEMMA OpenResults ==
  ASSUME NEW ms \in Seq(Message), NEW cs, NEW fs \in SUBSET Call, fs \subseteq cs, Open(ms, cs),
         NEW st, NEW n \in Nat
  PROVE  Open(ms \o Results(fs, st, n), cs \ fs)
<1> DEFINE rs == Results(fs, st, n)
           ns == ms \o rs
<1>1. AreResults(rs, fs, st, n) /\ rs \in Seq(Message) /\ Joins(ns, ms, rs)
  BY WithResults
<1>2. PICK L \in DOMAIN ms : OpenAt(ms, cs, L)
  BY DEF Open
<1> HIDE DEF rs, ns
<1>3. /\ DOMAIN ns = 1 .. Len(ns) /\ DOMAIN ms = 1 .. Len(ms) /\ DOMAIN rs = 1 .. Len(rs)
      /\ Len(ms) \in Nat /\ Len(rs) \in Nat /\ Len(ns) = Len(ms) + Len(rs)
      /\ \A i \in DOMAIN ns : \/ i \in DOMAIN ms /\ ns[i] = ms[i]
                              \/ \E k \in DOMAIN rs : i = Len(ms) + k /\ ns[i] = rs[k]
  BY <1>1, JoinedPlace
<1>4. /\ \A i \in 1 .. Len(ms) : ns[i] = ms[i]
      /\ \A k \in 1 .. Len(rs) : ns[Len(ms) + k] = rs[k]
  BY <1>1 DEF Joins
<1>5. \A k \in 1 .. Len(rs) : rs[k].kind = "tool" /\ rs[k].calls \subseteq fs
  BY <1>1 DEF AreResults
<1>6. L \in DOMAIN ns /\ ns[L] = ms[L] /\ L \in 1 .. Len(ms)
  BY <1>3, <1>4
<1>7. ns[L].kind = "ai" /\ cs \ fs \subseteq ns[L].calls
  BY <1>2, <1>6 DEF OpenAt, LastMakes
<1>8. \A l \in L + 1 .. Len(ns) : ns[l].kind = "tool"
  <2> TAKE l \in L + 1 .. Len(ns)
  <2>1. l \in DOMAIN ns
    BY <1>3
  <2>2. CASE l \in DOMAIN ms /\ ns[l] = ms[l]
    <3>1. l \in L + 1 .. Len(ms)
      BY <1>3, <2>2
    <3> QED
      BY <1>2, <2>2, <3>1 DEF OpenAt, LastMakes
  <2>3. CASE \E k \in DOMAIN rs : ns[l] = rs[k]
    BY <1>3, <1>5, <2>3
  <2> QED
    BY <1>3, <2>1, <2>2, <2>3
<1>9. \A i \in 1 .. Len(ms) : After(ms, i) \subseteq After(ns, i)
  BY <1>1, AfterKept
<1>10. fs \subseteq After(ns, L)
  <2> SUFFICES ASSUME NEW c \in fs
               PROVE  c \in After(ns, L)
    OBVIOUS
  <2>1. PICK k \in 1 .. Len(rs) : rs[k].calls = {c}
    BY <1>1 DEF AreResults
  <2>2. Len(ms) + k \in L + 1 .. Len(ns) /\ ns[Len(ms) + k] = rs[k]
    BY <1>3, <1>4, <1>6
  <2>3. \A l \in L + 1 .. Len(ms) + k : ns[l].kind = "tool"
    <3>1. \A l \in L + 1 .. Len(ms) + k : l \in L + 1 .. Len(ns)
      BY <1>3
    <3> QED
      BY <1>8, <3>1
  <2>4. c \in ns[Len(ms) + k].calls
    BY <2>1, <2>2
  <2> QED
    BY <2>2, <2>3, <2>4, AfterIs
<1>11. ns[L].calls \ (cs \ fs) \subseteq After(ns, L)
  <2>1. ms[L].calls \ cs \subseteq After(ns, L)
    BY <1>2, <1>6, <1>9 DEF OpenAt
  <2> QED
    BY <1>6, <1>10, <2>1
<1>12. (cs \ fs) \cap Answered(ns) = {}
  <2>1. Answered(rs) \subseteq fs
    BY <1>3, <1>5, AnsweredIs
  <2>2. Answered(ns) \subseteq Answered(ms) \cup Answered(rs)
    BY <1>1, AnsweredJoined
  <2>3. cs \cap Answered(ms) = {}
    BY <1>2 DEF OpenAt
  <2> QED
    BY <2>1, <2>2, <2>3
<1>13. ASSUME NEW i \in DOMAIN ns \ {L}, ns[i].kind = "ai"
       PROVE  ns[i].calls \subseteq After(ns, i) /\ ns[i].calls \cap (cs \ fs) = {}
  <2>1. i \in 1 .. Len(ms) /\ ns[i] = ms[i]
    BY <1>3, <1>5, <1>13
  <2>2. ms[i].calls \subseteq After(ms, i) /\ ms[i].calls \cap cs = {}
    BY <1>2, <1>3, <1>13, <2>1 DEF OpenAt
  <2>3. After(ms, i) \subseteq After(ns, i)
    BY <1>9, <2>1
  <2> QED
    BY <2>1, <2>2, <2>3
<1>14. OpenAt(ns, cs \ fs, L)
  BY <1>7, <1>8, <1>11, <1>12, <1>13 DEF OpenAt, LastMakes
<1>15. Open(ns, cs \ fs)
  BY <1>6, <1>14 DEF Open
<1> QED
  BY <1>15 DEF ns, rs

\* A message of the model opens its calls, which are new.
LEMMA LastOpens ==
  ASSUME NEW ms \in Seq(Message), NEW x \in Message, NEW ns, Joins(ns, ms, <<x>>),
         x.kind = "ai", CallsAnswered(ms), ResultsCalled(ms), x.calls \cap Made(ms) = {}
  PROVE  Open(ns, x.calls)
<1> DEFINE L == Len(ms) + 1
<1>1. <<x>> \in Seq(Message) /\ Len(<<x>>) = 1 /\ <<x>>[1] = x /\ Len(ms) \in Nat
      /\ DOMAIN ms = 1 .. Len(ms)
  BY Messages
<1>2. ns \in Seq(Message) /\ Len(ns) = L /\ ns[L] = x /\ \A i \in 1 .. Len(ms) : ns[i] = ms[i]
  BY <1>1 DEF Joins
<1>3. DOMAIN ns = 1 .. L /\ L \in DOMAIN ns /\ L + 1 .. Len(ns) = {} /\ L \in Nat
  BY <1>1, <1>2, Messages
<1>4. \A i \in DOMAIN ns \ {L} : i \in 1 .. Len(ms)
  BY <1>1, <1>3
<1> HIDE DEF L
<1>5. x.calls \cap Answered(ns) = {}
  <2>1. \A i \in DOMAIN <<x>> : <<x>>[i].kind # "tool"
    BY <1>1, OneIs, Messages
  <2>2. Answered(<<x>>) = {}
    BY <2>1, AnsweredIs
  <2>3. Answered(ns) \subseteq Answered(ms) \cup Answered(<<x>>)
    BY <1>1, AnsweredJoined
  <2> QED
    BY <2>2, <2>3, AnsweredMade
<1>6. ASSUME NEW i \in DOMAIN ns \ {L}, ns[i].kind = "ai"
      PROVE  ns[i].calls \subseteq After(ns, i) /\ ns[i].calls \cap x.calls = {}
  <2>1. i \in 1 .. Len(ms) /\ ns[i] = ms[i]
    BY <1>2, <1>4
  <2>2. ms[i].calls \subseteq After(ms, i)
    BY <1>1, <1>6, <2>1 DEF CallsAnswered
  <2>3. After(ms, i) \subseteq After(ns, i)
    BY <1>1, <2>1, AfterKept
  <2>4. ms[i].calls \subseteq Made(ms)
    BY <1>1, <1>6, <2>1, MadeIs
  <2> QED
    BY <2>1, <2>2, <2>3, <2>4
<1>7. OpenAt(ns, x.calls, L)
  BY <1>2, <1>3, <1>5, <1>6 DEF OpenAt, LastMakes
<1> QED
  BY <1>3, <1>7 DEF Open

\* What a user or an interrupted turn adds can be patched.
LEMMA PatchableJoined ==
  ASSUME NEW ms \in Seq(Message), NEW rs \in Seq(Message), NEW ns, Joins(ns, ms, rs),
         Patchable(ms),
         \A k \in 1 .. Len(rs) : rs[k].kind # "tool" /\ rs[k].calls \cap Answered(ms) = {}
  PROVE  Patchable(ns)
<1>1. /\ DOMAIN ns = 1 .. Len(ns) /\ DOMAIN ms = 1 .. Len(ms) /\ DOMAIN rs = 1 .. Len(rs)
      /\ Len(ms) \in Nat /\ Len(rs) \in Nat /\ Len(ns) = Len(ms) + Len(rs)
      /\ \A i \in DOMAIN ns : \/ i \in DOMAIN ms /\ ns[i] = ms[i]
                              \/ \E k \in DOMAIN rs : i = Len(ms) + k /\ ns[i] = rs[k]
  BY JoinedPlace
<1>2. Answered(ns) \subseteq Answered(ms)
  <2>1. Answered(rs) = {}
    BY <1>1, AnsweredIs
  <2> QED
    BY <2>1, AnsweredJoined
<1>3. ASSUME NEW i \in DOMAIN ns, ns[i].kind = "ai", NEW c \in ns[i].calls
      PROVE  c \in After(ns, i) \/ c \notin Answered(ns)
  <2>1. CASE i \in DOMAIN ms /\ ns[i] = ms[i]
    <3>1. c \in After(ms, i) \/ c \notin Answered(ms)
      BY <1>3, <2>1 DEF Patchable
    <3>2. After(ms, i) \subseteq After(ns, i)
      BY <1>1, <2>1, AfterKept
    <3> QED
      BY <1>2, <3>1, <3>2
  <2>2. CASE \E k \in DOMAIN rs : ns[i] = rs[k]
    BY <1>1, <1>2, <1>3, <2>2
  <2> QED
    BY <1>1, <2>1, <2>2
<1> QED
  BY <1>3 DEF Patchable

LEMMA SettledPatchable ==
  ASSUME NEW ms \in Seq(Message), NEW fs \in SUBSET Call, NEW st, NEW n \in Nat, NEW cs,
         Patchable(ms), fs # {} => Open(ms, cs) /\ fs \subseteq cs
  PROVE  Patchable(ms \o Results(fs, st, n))
<1>1. CASE fs = {}
  BY <1>1, NoResults
<1>2. CASE fs # {}
  BY <1>2, OpenResults, OpenPatchable
<1> QED
  BY <1>1, <1>2

\* As long as no interrupted message repeats an answered call: a call is answered
\* right after the message that makes it, or nowhere; when the model is called every
\* call is answered, and while calls await their results no other is open.
AnsweredInv ==
  ~reissued =>
    /\ Patchable(msgs) /\ Patchable(disk.msgs)
    /\ pc \in {"ready", "model"} => CallsAnswered(msgs)
    /\ pc = "model" => reply \cap Made(msgs) = {}
    /\ pc \in {"asking", "tools"} \/ finished # {} => Open(msgs, reply)

LEMMA AnsweredWritten ==
  ASSUME TypeOK', CalledInv', Patchable(disk.msgs), Patchable(msgs'),
         pc' \in {"ready", "model"} => CallsAnswered(msgs'),
         pc' = "model" => reply' \cap Made(msgs') = {},
         pc' \in {"asking", "tools"} \/ finished' # {} => Open(msgs', reply'),
         UNCHANGED disk \/ Checkpoint
  PROVE  AnsweredInv'
<1>1. msgs' \in Seq(Message) /\ born' \in Nat /\ finished' \in SUBSET Call
  BY DEF TypeOK
<1>2. finished' # {} => finished' \subseteq reply'
  BY DEF CalledInv
<1>3. Patchable(Settled')
  BY <1>1, <1>2, SettledPatchable DEF Settled
<1>4. Patchable(disk'.msgs)
  BY <1>3, Written
<1> QED
  BY <1>4 DEF AnsweredInv

LEMMA ReissuedStays ==
  ASSUME TypeOK, [Next]_vars
  PROVE  SaveReply \/ UNCHANGED reissued
<1> USE DEF ghostVars
<1>1. CASE CallModel \/ Summarize \/ Overflow \/ RequestFails
  BY <1>1 DEF CallModel, Summarize, Overflow, RequestFails
<1>2. CASE TurnEnds \/ Cancel \/ Conflict \/ UpdateFails \/ UNCHANGED vars
  BY <1>2 DEF TurnEnds, Cancel, Conflict, UpdateFails, vars
<1>3. CASE BeforeAgent \/ StartOffload
  BY <1>3 DEF BeforeAgent, StartOffload
<1>4. CASE Returns
  <2>1. PICK c \in Call : ToolReturns(c) \/ Compact(c)
    BY <1>4 DEF Returns
  <2> QED
    BY <2>1 DEF ToolReturns, Compact
<1>5. CASE Decides
  BY <1>5 DEF Decides, Decide
<1>6. CASE Input \/ Respond \/ Crash \/ ToolsReturn
  BY <1>6 DEF Input, Respond, Crash, ToolsReturn
<1>7. CASE SaveNotice \/ EndOffload
  BY <1>7 DEF SaveNotice, EndOffload
<1> QED
  BY <1>1, <1>2, <1>3, <1>4, <1>5, <1>6, <1>7, NextIs DEF Elsewhere

LEMMA AnsweredStep ==
  ASSUME TypeOK, TypeOK', Quiet, Quiet', CalledInv, CalledInv', AnsweredInv, [Next]_vars
  PROVE  AnsweredInv'
<1>1. SUFFICES ASSUME ~reissued'
               PROVE  AnsweredInv'
  BY DEF AnsweredInv
<1>2. ~reissued
  BY <1>1, ReissuedStays DEF SaveReply
<1>3. /\ Patchable(msgs) /\ Patchable(disk.msgs)
      /\ pc \in {"ready", "model"} => CallsAnswered(msgs)
      /\ pc = "model" => reply \cap Made(msgs) = {}
      /\ pc \in {"asking", "tools"} \/ finished # {} => Open(msgs, reply)
      /\ finished # {} => finished \subseteq reply
      /\ ResultsCalled(msgs)
  BY <1>2 DEF AnsweredInv, CalledInv
<1>4. /\ born \in Nat /\ finished \in SUBSET Call /\ msgs \in Seq(Message) /\ reply \in SUBSET Call
  BY DEF TypeOK
<1>5. Settled \in Seq(Message) /\ Patchable(Settled)
  BY <1>3, <1>4, SettledTyped, SettledPatchable DEF Settled
<1>6. ASSUME Patchable(msgs'),
             pc' \in {"ready", "model"} => CallsAnswered(msgs'),
             pc' = "model" => reply' \cap Made(msgs') = {},
             pc' \in {"asking", "tools"} \/ finished' # {} => Open(msgs', reply'),
             UNCHANGED disk \/ Checkpoint
      PROVE  AnsweredInv'
  BY <1>3, <1>6, AnsweredWritten
<1>7. CASE Elsewhere
  <2>1. UNCHANGED <<msgs, finished>> /\ (UNCHANGED disk \/ Checkpoint)
    BY <1>7, Untouched DEF stateVars, toolVars
  <2>2. \/ UNCHANGED <<pc, reply>>
        \/ pc' = "idle" /\ reply' = reply
        \/ pc \in {"ready", "model"} /\ pc' = "model" /\ finished' = {} /\ reply' \in Replies
    <3>1. CASE CallModel \/ Summarize \/ Overflow
      <4>1. pc \in {"ready", "model"} /\ pc' = "model" /\ reply' \in Replies
        BY <3>1 DEF CallModel, Summarize, Overflow
      <4> QED
        BY <4>1 DEF Quiet
    <3>2. CASE RequestFails
      BY <3>2 DEF RequestFails
    <3>3. CASE TurnEnds \/ Cancel \/ Conflict \/ UpdateFails \/ StartOffload \/ UNCHANGED vars
      BY <3>3 DEF TurnEnds, Cancel, Conflict, UpdateFails, StartOffload, vars, callVars
    <3> QED
      BY <1>7, <3>1, <3>2, <3>3 DEF Elsewhere
  <2>3. \A cs \in Replies : cs \cap Made(msgs) = {}
    BY DEF Replies, Fresh
  <2> QED
    BY <1>3, <1>6, <2>1, <2>2, <2>3
<1>8. CASE Returns
  <2>1. PICK c \in Call : ToolReturns(c) \/ Compact(c)
    BY <1>8 DEF Returns
  <2>2. UNCHANGED <<msgs, disk, reply, pc>> /\ pc = "tools"
    BY <2>1 DEF ToolReturns, Compact, stateVars, callVars
  <2> QED
    BY <1>3, <1>6, <2>2
<1>9. CASE Decides
  <2>1. PICK approved \in SUBSET reply : Decide(approved)
    BY <1>9 DEF Decides
  <2> DEFINE cs == reply \ approved
  <2>2. /\ msgs' = msgs \o Results(cs, {}, born) /\ pc = "asking" /\ reply' = approved
        /\ UNCHANGED <<disk, finished>> /\ pc' = (IF approved = {} THEN "ready" ELSE "tools")
    BY <2>1 DEF Decide, fileVars, toolVars
  <2>3. cs \in SUBSET Call /\ cs \subseteq reply /\ reply \ cs = approved /\ finished = {}
    BY <1>4, <2>2 DEF Quiet
  <2> HIDE DEF cs
  <2>4. Open(msgs', approved)
    BY <1>3, <1>4, <2>2, <2>3, OpenResults
  <2>5. Patchable(msgs') /\ (approved = {} => CallsAnswered(msgs'))
    BY <2>4, OpenPatchable
  <2> QED
    BY <1>6, <2>2, <2>3, <2>4, <2>5
<1>10. CASE Input
  <2> DEFINE given == born + Cardinality(finished) + 1
             x == New(given, "human", {})
  <2>1. x \in Message /\ <<x>> \in Seq(Message) /\ x.kind = "human" /\ x.calls = {}
    BY NextNewMessage
  <2>2. /\ finished' = {} /\ UNCHANGED disk /\ pc' = "before"
        /\ Settle(<<x>>, SettledEvent) \/ msgs' = Append(msgs, x)
    BY <1>10 DEF Input, fileVars, NoTools
  <2> HIDE DEF x
  <2>4. Patchable(msgs')
    <3>1. CASE Settle(<<x>>, SettledEvent)
      <4>1. \A k \in 1 .. Len(<<x>>) :
              <<x>>[k].kind # "tool" /\ <<x>>[k].calls \cap Answered(Settled) = {}
        BY <2>1, OneIs
      <4> QED
        BY <1>5, <2>1, <3>1, <4>1, SettleTyped, PatchableJoined
    <3>2. CASE msgs' = Append(msgs, x)
      <4>1. \A k \in 1 .. Len(<<x>>) :
              <<x>>[k].kind # "tool" /\ <<x>>[k].calls \cap Answered(msgs) = {}
        BY <2>1, OneIs
      <4> QED
        BY <1>3, <1>4, <2>1, <3>2, <4>1, Appended, PatchableJoined
    <3> QED
      BY <2>2, <3>1, <3>2
  <2> QED
    BY <1>6, <2>2, <2>4
<1>11. CASE BeforeAgent
  <2>1. msgs' = Patch(msgs) /\ UNCHANGED <<disk, finished>> /\ pc' = "ready" /\ pc = "before"
    BY <1>11 DEF BeforeAgent, fileVars, toolVars
  <2>2. CallsAnswered(msgs') /\ Patchable(msgs') /\ finished' = {}
    BY <1>3, <1>4, <2>1, PatchAnswered, AnsweredPatchable DEF Quiet
  <2> QED
    BY <1>6, <2>1, <2>2
<1>12. CASE Respond
  <2> DEFINE ns == [i \in DOMAIN msgs |-> [msgs[i] EXCEPT !.stub = @ \/ msgs[i].id \in clips]]
             x == New(born + 1, "ai", reply)
  <2>1. ns \in Seq(Message) /\ Alike(msgs, ns)
    BY <1>4, ClippedIs
  <2>2. x \in Message /\ x.kind = "ai" /\ x.calls = reply
    <3> DEFINE m == born + 1
    <3>1. m \in Nat
      BY <1>4
    <3> HIDE DEF m
    <3>2. New(m, "ai", reply) \in Message /\ New(m, "ai", reply).kind = "ai"
          /\ New(m, "ai", reply).calls = reply
      BY <1>4, <3>1 DEF New, Message
    <3> QED
      BY <3>2 DEF m
  <2>3. /\ msgs' = Append(ns, x) /\ Checkpoint /\ UNCHANGED <<finished, reply>> /\ pc = "model"
        /\ pc' \in {"idle", "asking", "tools"}
    BY <1>12 DEF Respond, toolVars
  <2> HIDE DEF ns, x
  <2>4. CallsAnswered(ns) /\ ResultsCalled(ns)
    BY <1>3, <1>4, <2>1, <2>3, AlikeKept
  <2>5. Made(ns) = Made(msgs)
    <3>1. DOMAIN ns = DOMAIN msgs
          /\ \A i \in DOMAIN msgs : ns[i].kind = msgs[i].kind /\ ns[i].calls = msgs[i].calls
      BY <1>4, <2>1, Messages DEF Alike
    <3>2. \A c : c \in Made(ns) <=> c \in Made(msgs)
      BY <3>1, MadeIs
    <3> QED
      BY <3>2
  <2>6. Joins(msgs', ns, <<x>>)
    BY <2>1, <2>2, <2>3, Appended
  <2>7. Open(msgs', reply)
    BY <1>3, <2>1, <2>2, <2>3, <2>4, <2>5, <2>6, LastOpens
  <2>8. Patchable(msgs')
    BY <2>7, OpenPatchable
  <2> QED
    BY <1>6, <2>3, <2>7, <2>8
<1>13. CASE Crash
  <2>1. /\ msgs' = disk.msgs /\ UNCHANGED <<disk, reply>> /\ finished' = {}
        /\ pc' = "asking" => pc = "asking"
        /\ pc' \notin {"tools", "ready", "model"}
    BY <1>13 DEF Crash, fileVars, NoTools, Busy
  <2>2. pc' = "asking" => disk.msgs = msgs
    BY <2>1 DEF Quiet
  <2> QED
    BY <1>3, <1>6, <2>1, <2>2
<1>14. CASE ToolsReturn
  <2>1. /\ Settle(<<>>, SettledEvent) /\ finished' = {} /\ UNCHANGED disk /\ pc' = "ready"
        /\ pc = "tools" /\ finished = reply
    BY <1>14 DEF ToolsReturn, fileVars, NoTools
  <2>2. Open(Settled, {})
    <3>1. reply \ finished = {} /\ finished \subseteq reply
      BY <2>1
    <3> QED
      BY <1>3, <1>4, <2>1, <3>1, OpenResults DEF Settled
  <2>3. msgs' = Settled
    BY <1>5, <2>1, ConcatEmptySeq DEF Settle
  <2>4. Patchable(msgs') /\ CallsAnswered(msgs')
    BY <2>2, <2>3, OpenPatchable
  <2> QED
    BY <1>6, <2>1, <2>4
<1>15. CASE SaveReply
  <2> DEFINE given == born + Cardinality(finished) + 1
             x == New(given, "ai", shown)
  <2>1. shown \in SUBSET Call
    BY <1>15 DEF SaveReply, Quiet
  <2>2. x \in Message /\ <<x>> \in Seq(Message) /\ x.kind = "ai" /\ x.calls = shown
    BY <2>1, NextNewMessage
  <2>3. /\ Settle(<<x>>, SettledEvent) /\ finished' = {} /\ Checkpoint /\ pc' = "idle"
        /\ shown \cap Answered(Settled) = {}
    BY <1>1, <1>15 DEF SaveReply, Update, NoTools
  <2> HIDE DEF x
  <2>4. \A k \in 1 .. Len(<<x>>) :
          <<x>>[k].kind # "tool" /\ <<x>>[k].calls \cap Answered(Settled) = {}
    BY <2>2, <2>3, OneIs
  <2>5. Patchable(msgs')
    BY <1>5, <2>2, <2>3, <2>4, SettleTyped, PatchableJoined
  <2> QED
    BY <1>6, <2>3, <2>5
<1>16. CASE SaveNotice
  <2> DEFINE given == born + Cardinality(finished) + 1
             x == New(given, "human", {})
  <2>2. x \in Message /\ <<x>> \in Seq(Message) /\ x.kind = "human" /\ x.calls = {}
    BY NextNewMessage
  <2>3. Settle(<<x>>, SettledEvent) /\ finished' = {} /\ Checkpoint /\ pc' = "idle"
    BY <1>16 DEF SaveNotice, Update, NoTools
  <2> HIDE DEF x
  <2>4. \A k \in 1 .. Len(<<x>>) :
          <<x>>[k].kind # "tool" /\ <<x>>[k].calls \cap Answered(Settled) = {}
    BY <2>2, OneIs
  <2>5. Patchable(msgs')
    BY <1>5, <2>2, <2>3, <2>4, SettleTyped, PatchableJoined
  <2> QED
    BY <1>6, <2>3, <2>5
<1>17. CASE EndOffload
  <2>1. Settle(<<>>, plan) /\ finished' = {} /\ Checkpoint /\ pc' = "idle"
    BY <1>17 DEF EndOffload, Update, NoTools
  <2>2. msgs' = Settled
    BY <1>5, <2>1, ConcatEmptySeq DEF Settle
  <2> QED
    BY <1>5, <1>6, <2>1, <2>2
<1> QED
  BY <1>7, <1>8, <1>9, <1>10, <1>11, <1>12, <1>13, <1>14, <1>15, <1>16, <1>17, NextIs

-----------------------------------------------------------------------------
(* The request that is out *)

\* A cut of a well-formed list, and the summary before it, is well formed.
LEMMA CutWellFormed ==
  ASSUME NEW ms \in Seq(Message), NEW n \in Cutoffs(ms), NEW ks \in Seq(Message),
         Alike(SubSeq(ms, n + 1, Len(ms)), ks), ResultsCalled(ms), Answers(ms)
  PROVE  /\ ResultsCalled(<<Summary>> \o ks)
         /\ CallsAnswered(ms) => CallsAnswered(<<Summary>> \o ks)
<1>1. n \in 1 .. Len(ms) /\ n < Len(ms) /\ ms[n + 1].kind # "tool" /\ Len(ms) \in Nat
  BY CutIs, Messages
<1>2. n \in Nat
  BY <1>1
<1> DEFINE tail == SubSeq(ms, n + 1, Len(ms))
<1>3. Len(tail) = Len(ms) - n /\ \A k \in 1 .. Len(ms) - n : tail[k] = ms[n + k]
  BY <1>1, <1>2, TailTyped
<1> HIDE DEF tail
<1>4. Alike(tail, ks)
  BY DEF tail
<1>5. /\ Len(ks) = Len(ms) - n
      /\ \A k \in 1 .. Len(ms) - n :
           ks[k].id = ms[n + k].id /\ ks[k].kind = ms[n + k].kind /\ ks[k].calls = ms[n + k].calls
  BY <1>3, <1>4 DEF Alike
<1>6. Follows(<<Summary>> \o ks, ms, n)
  BY <1>1, <1>2, <1>5, SummaryFollows
<1> QED
  BY <1>1, <1>2, <1>6, FollowsCalled, FollowsAnswered

LEMMA AlikeSelf ==
  ASSUME NEW ms \in Seq(Message)
  PROVE  Alike(ms, ms)
BY DEF Alike

LEMMA RequestStep ==
  ASSUME TypeOK, TypeOK', CalledInv, FitInv, AnsweredInv, RequestWellFormed, [Next]_vars
  PROVE  RequestWellFormed'
<1>1. SUFFICES ASSUME pc' = "model", ~shifted', ~reissued'
               PROVE  CallsAnswered(view') /\ ResultsCalled(view')
  BY DEF RequestWellFormed
<1>2. ~shifted /\ ~reissued
  BY <1>1, ShiftedStays, ReissuedStays DEF SaveReply, Update
<1> DEFINE eff == Effective(msgs, event)
<1>3. /\ msgs \in Seq(Message) /\ event \in Maybe(Event)
      /\ Fits(msgs, event) /\ ResultsCalled(msgs) /\ Answers(msgs)
      /\ pc \in {"ready", "model"} => CallsAnswered(msgs)
  BY <1>2 DEF TypeOK, FitInv, CalledInv, AnsweredInv
<1>4. /\ eff \in Seq(Message) /\ ResultsCalled(eff) /\ Answers(eff)
      /\ pc \in {"ready", "model"} => CallsAnswered(eff)
  BY <1>3, EffectiveTyped, EffectiveCalled, EffectiveAnswered
<1>5. CASE CallModel
  <2>1. view' = eff /\ pc = "ready"
    BY <1>5 DEF CallModel
  <2> QED
    BY <1>4, <2>1
<1>6. CASE Summarize
  <2>1. pc = "ready" /\ \E n \in Cutoffs(eff) : SummarizeAt(n, SubSeq(eff, n + 1, Len(eff)))
    BY <1>6 DEF Summarize
  <2> HIDE DEF eff
  <2>2. PICK n \in Cutoffs(eff) : SummarizeAt(n, SubSeq(eff, n + 1, Len(eff)))
    BY <2>1
  <2> DEFINE tail == SubSeq(eff, n + 1, Len(eff))
  <2>3. tail \in Seq(Message)
    <3>1. n \in Nat
      BY <1>4, CutIs, Messages
    <3> QED
      BY <1>4, <3>1, TailTyped
  <2>4. view' = <<Summary>> \o tail
    BY <2>2 DEF SummarizeAt
  <2> QED
    BY <1>4, <2>1, <2>3, <2>4, AlikeSelf, CutWellFormed
<1>7. CASE Overflow
  <2>1. pc = "model"
        /\ \E n \in Cutoffs(eff) : \E cut :
             LET kept == SubSeq(eff, n + 1, Len(eff)) IN
             SummarizeAt(n, [i \in DOMAIN kept |-> [kept[i] EXCEPT !.stub = @ \/ i \in cut]])
    BY <1>7 DEF Overflow
  <2> HIDE DEF eff
  <2>0. PICK n \in Cutoffs(eff) : \E cut :
          LET kept == SubSeq(eff, n + 1, Len(eff)) IN
          SummarizeAt(n, [i \in DOMAIN kept |-> [kept[i] EXCEPT !.stub = @ \/ i \in cut]])
    BY <2>1
  <2> DEFINE tail == SubSeq(eff, n + 1, Len(eff))
  <2>2. PICK cut :
          SummarizeAt(n, [i \in DOMAIN tail |-> [tail[i] EXCEPT !.stub = @ \/ i \in cut]])
    BY <2>0
  <2> DEFINE ks == [i \in DOMAIN tail |-> [tail[i] EXCEPT !.stub = @ \/ i \in cut]]
  <2>3. tail \in Seq(Message)
    <3>1. n \in Nat
      BY <1>4, CutIs, Messages
    <3> QED
      BY <1>4, <3>1, TailTyped
  <2>4. ks \in Seq(Message) /\ Alike(tail, ks)
    <3> HIDE DEF tail
    <3> QED
      BY <2>3, CutStubbedIs
  <2>5. view' = <<Summary>> \o ks
    BY <2>2 DEF SummarizeAt
  <2> HIDE DEF ks
  <2> QED
    BY <1>4, <2>1, <2>4, <2>5, CutWellFormed
<1>8. CASE ~(CallModel \/ Summarize \/ Overflow)
  <2>1. view' = view /\ pc = "model"
    <3>1. CASE RequestFails \/ Respond \/ Crash \/ Input \/ BeforeAgent \/ ToolsReturn
      BY <1>1, <3>1 DEF RequestFails, Respond, Crash, Input, BeforeAgent, ToolsReturn, Busy
    <3>2. CASE TurnEnds \/ Cancel \/ UpdateFails \/ StartOffload \/ UNCHANGED vars
      BY <1>1, <3>2 DEF TurnEnds, Cancel, UpdateFails, StartOffload, vars, callVars
    <3>3. CASE Conflict
      BY <1>1, <3>3 DEF Conflict
    <3>4. CASE Returns
      <4>1. PICK c \in Call : ToolReturns(c) \/ Compact(c)
        BY <3>4 DEF Returns
      <4> QED
        BY <1>1, <4>1 DEF ToolReturns, Compact
    <3>5. CASE Decides
      BY <1>1, <3>5 DEF Decides, Decide
    <3>6. CASE SaveReply \/ SaveNotice \/ EndOffload
      BY <1>1, <3>6 DEF SaveReply, SaveNotice, EndOffload, Update
    <3> QED
      BY <1>8, <3>1, <3>2, <3>3, <3>4, <3>5, <3>6, NextIs DEF Elsewhere
  <2> QED
    BY <1>2, <2>1 DEF RequestWellFormed
<1> QED
  BY <1>5, <1>6, <1>7, <1>8
-----------------------------------------------------------------------------
(* The inductive invariant, and what it says *)

HistoryInv ==
  /\ TypeOK /\ Quiet /\ IdInv /\ StubInv /\ FiledInv /\ CalledInv /\ FitInv /\ AnsweredInv
  /\ RequestWellFormed

LEMMA HistoryInit == Init => HistoryInv
<1> SUFFICES ASSUME Init
             PROVE  HistoryInv
  OBVIOUS
<1>1. TypeOK
  <2>1. left \in [Op -> Nat]
    BY BudgetsAssumption DEF Init
  <2> QED
    BY <2>1, EmptySeq DEF Init, TypeOK, Maybe
<1>2. Quiet
  BY DEF Init, Quiet
<1>3. msgs = <<>> /\ disk.msgs = <<>> /\ disk.event = None /\ event = None /\ pending = None
      /\ compacted = None /\ plan = None /\ finished = {} /\ pc = "idle" /\ evicted = {}
  BY DEF Init
<1>4. DOMAIN msgs = {} /\ DOMAIN disk.msgs = {}
  BY <1>3
<1>5. IdInv /\ StubInv
  BY <1>3, <1>4 DEF IdInv, Known, StubInv, Readable
<1>6. FiledInv
  BY <1>3 DEF FiledInv, Filed
<1>7. CalledInv
  BY <1>3, <1>4 DEF CalledInv, ResultsCalled, Answers
<1>8. FitInv
  BY <1>3, NoneFits DEF FitInv
<1>9. AnsweredInv
  BY <1>3, <1>4 DEF AnsweredInv, Patchable
<1>10. RequestWellFormed
  BY <1>3 DEF RequestWellFormed
<1> QED
  BY <1>1, <1>2, <1>5, <1>6, <1>7, <1>8, <1>9, <1>10 DEF HistoryInv

LEMMA HistoryStep == HistoryInv /\ [Next]_vars => HistoryInv'
<1> SUFFICES ASSUME HistoryInv, [Next]_vars
             PROVE  HistoryInv'
  OBVIOUS
<1> USE DEF HistoryInv
<1>1. TypeOK'
  BY TypeStep
<1>2. Quiet'
  BY QuietStep
<1>3. IdInv'
  BY <1>1, IdStep
<1>4. StubInv'
  BY <1>1, StubStep
<1>5. FiledInv'
  BY FiledStep
<1>6. CalledInv'
  BY <1>1, <1>2, CalledStep
<1>7. FitInv'
  BY <1>1, <1>2, FitStep
<1>8. AnsweredInv'
  BY <1>1, <1>2, <1>6, AnsweredStep
<1>9. RequestWellFormed'
  BY <1>1, RequestStep
<1> QED
  BY <1>1, <1>2, <1>3, <1>4, <1>5, <1>6, <1>7, <1>8, <1>9

LEMMA HistoryHolds == Spec => []HistoryInv
BY HistoryInit, HistoryStep, PTL DEF Spec

\* The history is made of messages, events and sets of calls, whatever fails.
THEOREM TypeCorrect == Spec => []TypeOK
<1>1. HistoryInv => TypeOK
  BY DEF HistoryInv
<1> QED
  BY <1>1, HistoryHolds, PTL

\* However many messages, calls and summaries, and whatever was cancelled, rejected,
\* patched or cut: each request has a result for each call and a call for each result.
THEOREM RequestsAreWellFormed == Spec => []RequestWellFormed
<1>1. HistoryInv => RequestWellFormed
  BY DEF HistoryInv
<1> QED
  BY <1>1, HistoryHolds, PTL

\* The summary and the messages after the cutoff make up the conversation.
THEOREM SummaryAndTail == Spec => []SummaryMeetsTail
<1>1. HistoryInv => SummaryMeetsTail
  <2> SUFFICES ASSUME HistoryInv, event # None, ~shifted
               PROVE  event.cutoff <= Len(msgs)
                      /\ Ids(SubSeq(msgs, 1, event.cutoff)) = event.covers
    BY DEF SummaryMeetsTail
  <2>1. Fits(msgs, event) /\ msgs \in Seq(Message) /\ event \in Maybe(Event)
    BY DEF HistoryInv, FitInv, TypeOK
  <2>2. event.cutoff \in Nat /\ Len(msgs) \in Nat
    BY <2>1, SomeEvent, Messages
  <2> QED
    BY <2>1, <2>2 DEF Fits
<1> QED
  BY <1>1, HistoryHolds, PTL

\* What a summary covers is in the history file, unless a write failed.
THEOREM NothingSummarizedIsLost == Spec => []SummarizedIsFiled
<1>1. HistoryInv => SummarizedIsFiled
  BY DEF HistoryInv, FiledInv, Filed, SummarizedIsFiled
<1> QED
  BY <1>1, HistoryHolds, PTL

\* A pointer to /large_tool_results has its file, in the state and after a restart, though
\* writes and requests fail; the only pointers elsewhere are in what read_file returned, to
\* the file it read (_clip_overflow_tail).
THEOREM StubsPointToFiles == Spec => []StubsReadable
<1>1. HistoryInv => StubsReadable
  BY DEF HistoryInv, StubInv, Readable, StubsReadable
<1> QED
  BY <1>1, HistoryHolds, PTL

=============================================================================
