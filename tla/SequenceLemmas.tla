--------------------------- MODULE SequenceLemmas ---------------------------
(* Facts about recursion and sequences of sequences that several components'
   proofs need.  Inductions go by the least natural number that refutes what
   is to be shown. *)
EXTENDS Integers, SequencesExt, SequenceTheorems, WellFoundedInduction, TLAPS

LEMMA LeastNumber ==
    ASSUME NEW T \in SUBSET Nat, T # {}
    PROVE  \E m \in T : \A k \in T : m <= k
<1> DEFINE R == OpToRel(<, Nat)
<1>1. IsWellFoundedOn(R, Nat)
  BY NatLessThanWellFounded
<1>2. \A k \in Nat, m \in Nat : k < m => <<k, m>> \in R
  BY DEF OpToRel
<1> HIDE DEF R
<1>3. PICK m \in T : \A k \in T : ~(<<k, m>> \in R)
  BY <1>1, WFMin
<1>4. \A k \in T : ~(k < m)
  BY <1>2, <1>3
<1> QED BY <1>4

\* What holds at 0 and passes on to the next number holds up to n.
LEMMA UpTo ==
    ASSUME NEW n \in Nat, NEW Good \in SUBSET (0 .. n),
           0 \in Good, \A i \in 1 .. n : i - 1 \in Good => i \in Good
    PROVE  Good = 0 .. n
<1> DEFINE Bad == (0 .. n) \ Good
<1> SUFFICES ASSUME Bad # {} PROVE FALSE
  OBVIOUS
<1>1. PICK m \in Bad : \A k \in Bad : m <= k
  <2>1. Bad \in SUBSET Nat
    OBVIOUS
  <2> HIDE DEF Bad
  <2> QED BY <2>1, LeastNumber
<1>2. m \in 1 .. n /\ m - 1 \in 0 .. n
  BY <1>1
<1>3. m - 1 \in Good
  BY <1>1, <1>2
<1> QED BY <1>1, <1>2, <1>3

\* f[i] is what the first i steps make of s0.
Steps(f, s0, step, n) ==
    f[0] = s0 /\ \A i \in 1 .. n : f[i] = step[i][f[i - 1]]

LEMMA Recursion ==
    ASSUME NEW n \in Nat, NEW S, NEW s0 \in S, NEW step \in [1 .. n -> [S -> S]]
    PROVE  \E f \in [0 .. n -> S] : Steps(f, s0, step, n)
<1> DEFINE Start(f, m) == Steps(f, s0, step, m)
           Good == {m \in 0 .. n : \E f \in [0 .. m -> S] : Start(f, m)}
<1>1. 0 \in Good
  <2> DEFINE f == [i \in 0 .. 0 |-> s0]
  <2>1. f \in [0 .. 0 -> S] /\ f[0] = s0 /\ 1 .. 0 = {}
    OBVIOUS
  <2> HIDE DEF f
  <2> QED BY <2>1 DEF Steps
<1>2. ASSUME NEW m \in 1 .. n, m - 1 \in Good PROVE m \in Good
  <2>1. PICK f \in [0 .. m - 1 -> S] : Start(f, m - 1)
    BY <1>2
  <2>a. m \in Nat \ {0} /\ m <= n /\ m - 1 \in 0 .. m - 1
    OBVIOUS
  <2> DEFINE v == step[m][f[m - 1]]
             g == [i \in 0 .. m |-> IF i = m THEN v ELSE f[i]]
  <2>2. v \in S
    BY <2>1, <2>a DEF Steps
  <2> HIDE DEF v
  <2>3. g \in [0 .. m -> S]
    BY <2>1, <2>2, <2>a
  <2>4. g[0] = s0
    BY <2>1, <2>a DEF Steps
  <2>5. ASSUME NEW i \in 1 .. m PROVE g[i] = step[i][g[i - 1]]
    <3>1. CASE i = m
      <4>1. g[i] = v /\ g[i - 1] = f[m - 1]
        BY <3>1, <2>a
      <4> QED BY <4>1, <3>1 DEF v
    <3>2. CASE i # m
      <4>1. i \in 1 .. m - 1 /\ g[i] = f[i] /\ g[i - 1] = f[i - 1]
        BY <3>2
      <4> QED BY <4>1, <2>1 DEF Steps
    <3> QED BY <3>1, <3>2
  <2> HIDE DEF g
  <2>6. Start(g, m)
    BY <2>4, <2>5 DEF Steps
  <2> HIDE DEF Start
  <2> QED BY <2>3, <2>6
<1>3. Good = 0 .. n
  <2> HIDE DEF Good
  <2>1. Good \subseteq 0 .. n
    BY DEF Good
  <2> QED BY <1>1, <1>2, <2>1, UpTo
<1> QED BY <1>3

-----------------------------------------------------------------------------
(* Sequences of sequences, one after the other.                            *)

Lists(S) == Seq(Seq(S))

\* f[i] is what the first i sequences of s are together.
Flattens(f, s) ==
    /\ f[0] = <<>>
    /\ \A i \in 1 .. Len(s) : f[i] = f[i - 1] \o s[i]

LEMMA FlattensExists ==
    ASSUME NEW S, NEW s \in Lists(S)
    PROVE  \E f \in [0 .. Len(s) -> Seq(S)] : Flattens(f, s)
<1> DEFINE n == Len(s)
           step == [i \in 1 .. n |-> [t \in Seq(S) |-> t \o s[i]]]
<1>1. n \in Nat /\ <<>> \in Seq(S) /\ \A i \in 1 .. n : s[i] \in Seq(S)
  BY DEF Lists
<1>2. step \in [1 .. n -> [Seq(S) -> Seq(S)]]
  <2>1. \A i \in 1 .. n : \A t \in Seq(S) : t \o s[i] \in Seq(S)
    BY <1>1
  <2> QED BY <2>1
<1>3. \A i \in 1 .. n, t \in Seq(S) : step[i][t] = t \o s[i]
  OBVIOUS
<1> HIDE DEF step
<1>4. PICK f \in [0 .. n -> Seq(S)] : Steps(f, <<>>, step, n)
  <2> DEFINE B == Seq(S)
             none == <<>>
  <2>1. n \in Nat /\ none \in B /\ step \in [1 .. n -> [B -> B]]
    BY <1>1, <1>2
  <2> HIDE DEF n, B, none
  <2>2. \E f \in [0 .. n -> B] : Steps(f, none, step, n)
    BY <2>1, Recursion
  <2> QED BY <2>2 DEF B, none
<1>5. \A i \in 1 .. n : f[i - 1] \in Seq(S)
  <2>1. \A i \in 1 .. n : i - 1 \in 0 .. n
    BY <1>1
  <2> QED BY <2>1, <1>4
<1> QED BY ZenonT(30), <1>3, <1>4, <1>5 DEF Flattens, Steps

LEMMA FlattensUnique ==
    ASSUME NEW S, NEW s \in Lists(S), NEW f, NEW g,
           Flattens(f, s), g[1] = s[1],
           \A i \in 2 .. Len(s) : g[i] = g[i - 1] \o s[i],
           Len(s) > 0
    PROVE  g[Len(s)] = f[Len(s)]
<1> DEFINE Good == {i \in 0 .. Len(s) : i > 0 => g[i] = f[i]}
<1>1. 0 \in Good
  BY DEF Lists
<1>2. ASSUME NEW i \in 1 .. Len(s), i - 1 \in Good PROVE i \in Good
  <2>1. CASE i = 1
    <3>0. 1 \in 1 .. Len(s) /\ 1 - 1 = 0
      BY DEF Lists
    <3>1. s[1] \in Seq(S)
      BY <3>0 DEF Lists
    <3>2. <<>> \o s[1] = s[1]
      BY <3>1
    <3>3. f[1] = s[1]
      BY <3>0, <3>2 DEF Flattens
    <3> QED BY <3>3, <2>1
  <2>2. CASE i # 1
    <3>1. i \in 2 .. Len(s) /\ g[i - 1] = f[i - 1]
      BY <1>2, <2>2
    <3>2. f[i] = f[i - 1] \o s[i] /\ g[i] = g[i - 1] \o s[i]
      BY <3>1 DEF Flattens
    <3>3. g[i] = f[i]
      BY <3>1, <3>2
    <3> QED BY <3>3
  <2> QED BY <2>1, <2>2
<1>3. Len(s) \in Nat
  BY DEF Lists
<1>4. Good = 0 .. Len(s)
  <2>1. Good \subseteq 0 .. Len(s)
    OBVIOUS
  <2> HIDE DEF Good
  <2> QED BY <1>1, <1>2, <1>3, <2>1, UpTo
<1> QED BY <1>3, <1>4

LEMMA FlattenIs ==
    ASSUME NEW S, NEW s \in Lists(S),
           NEW f \in [0 .. Len(s) -> Seq(S)], Flattens(f, s)
    PROVE  FlattenSeq(s) = f[Len(s)] /\ FlattenSeq(s) \in Seq(S)
<1> DEFINE n == Len(s)
           Eq(g) == g = [i \in 1 .. n |-> IF i = 1 THEN s[i] ELSE g[i - 1] \o s[i]]
           flatten == CHOOSE g : Eq(g)
<1>0. n \in Nat /\ \A i \in 1 .. n : s[i] \in Seq(S)
  BY DEF Lists
<1>1. CASE n = 0
  BY <1>1, <1>0 DEF FlattenSeq, Flattens
<1>2. CASE n # 0
  <2>1. FlattenSeq(s) = flatten[n]
    BY <1>2 DEF FlattenSeq
  <2>2. \E g : Eq(g)
    <3> DEFINE g == [i \in 1 .. n |-> f[i]]
    <3>1. ASSUME NEW i \in 1 .. n
          PROVE  g[i] = IF i = 1 THEN s[i] ELSE g[i - 1] \o s[i]
      <4>1. CASE i = 1
        <5>1. <<>> \o s[1] = s[1] /\ 1 - 1 = 0
          BY <1>0, <4>1
        <5>2. f[1] = s[1]
          BY <5>1, <4>1 DEF Flattens
        <5> QED BY <5>2, <4>1
      <4>2. CASE i # 1
        <5>1. i - 1 \in 1 .. n
          BY <4>2, <1>0
        <5>2. f[i] = f[i - 1] \o s[i]
          BY DEF Flattens
        <5> QED BY <5>1, <5>2, <4>2
      <4> QED BY <4>1, <4>2
    <3>2. g = [i \in 1 .. n |-> g[i]]
      OBVIOUS
    <3> HIDE DEF g
    <3>3. Eq(g)
      BY <3>1, <3>2
    <3> QED BY <3>3
  <2>3. Eq(flatten)
    BY <2>2
  <2> HIDE DEF flatten, Eq
  <2>4. flatten[1] = s[1] /\ \A i \in 2 .. n : flatten[i] = flatten[i - 1] \o s[i]
    <3> HIDE DEF n
    <3>1. \A i \in 1 .. n :
            flatten[i] = IF i = 1 THEN s[i] ELSE flatten[i - 1] \o s[i]
      BY <2>3 DEF Eq
    <3>2. 1 \in 1 .. n /\ \A i \in 2 .. n : i \in 1 .. n /\ i # 1
      BY <1>0, <1>2
    <3> QED BY <3>1, <3>2
  <2>5. flatten[n] = f[n]
    <3>1. Len(s) > 0
      BY <1>0, <1>2
    <3> QED BY <2>4, <3>1, FlattensUnique
  <2> QED BY <2>1, <2>5, <1>0
<1> QED BY <1>1, <1>2

LEMMA FlattenType ==
    ASSUME NEW S, NEW s \in Lists(S)
    PROVE  FlattenSeq(s) \in Seq(S)
  BY FlattensExists, FlattenIs

LEMMA FlattenEmpty == FlattenSeq(<<>>) = <<>>
  BY DEF FlattenSeq

LEMMA FlattenAppend ==
    ASSUME NEW S, NEW s \in Lists(S), NEW t \in Seq(S)
    PROVE  FlattenSeq(Append(s, t)) = FlattenSeq(s) \o t
<1> DEFINE n == Len(s)
           u == Append(s, t)
<1>1. PICK f \in [0 .. n -> Seq(S)] : Flattens(f, s)
  BY FlattensExists
<1>2. /\ n \in Nat /\ u \in Lists(S) /\ Len(u) = n + 1 /\ u[n + 1] = t
      /\ \A i \in 1 .. n : u[i] = s[i]
  BY DEF Lists
<1> HIDE DEF u
<1> DEFINE v == f[n] \o t
           g == [i \in 0 .. n + 1 |-> IF i = n + 1 THEN v ELSE f[i]]
<1>3. v \in Seq(S)
  <2>1. f[n] \in Seq(S)
    <3> HIDE DEF n
    <3> QED BY <1>1, <1>2
  <2> QED BY <2>1
<1>4. g \in [0 .. Len(u) -> Seq(S)]
  <2> HIDE DEF v, n
  <2> QED BY <1>1, <1>2, <1>3
<1>5. g[0] = <<>>
  BY <1>1, <1>2 DEF Flattens
<1>6. ASSUME NEW i \in 1 .. Len(u) PROVE g[i] = g[i - 1] \o u[i]
  <2>1. CASE i = n + 1
    BY <2>1, <1>2
  <2>2. CASE i # n + 1
    <3>1. i \in 1 .. n /\ i - 1 # n + 1
      BY <2>2, <1>2
    <3>2. g[i] = f[i] /\ g[i - 1] = f[i - 1]
      BY <3>1, <1>2
    <3> QED BY <3>1, <3>2, <1>1, <1>2 DEF Flattens
  <2> QED BY <2>1, <2>2
<1>7. FlattenSeq(u) = g[Len(u)]
  <2>1. Flattens(g, u)
    <3> HIDE DEF g
    <3> QED BY <1>5, <1>6 DEF Flattens
  <2> HIDE DEF g
  <2> QED BY <1>2, <1>4, <2>1, FlattenIs
<1>8. FlattenSeq(s) = f[n]
  BY <1>1, FlattenIs
<1> QED BY <1>2, <1>7, <1>8 DEF u

LEMMA FlattenCons ==
    ASSUME NEW S, NEW s \in Lists(S), Len(s) > 0
    PROVE  FlattenSeq(s) = Head(s) \o FlattenSeq(Tail(s))
<1> DEFINE n == Len(s) - 1
           u == Tail(s)
           a == s[1]
<1>1. /\ n \in Nat /\ u \in Lists(S) /\ Len(u) = n /\ a \in Seq(S) /\ a = Head(s)
      /\ \A i \in 1 .. n : u[i] = s[i + 1] /\ u[i] \in Seq(S)
      /\ Len(s) = n + 1
  BY DEF Lists
<1> HIDE DEF u, n, a
<1>2. PICK f \in [0 .. n -> Seq(S)] : Flattens(f, u)
  BY <1>1, FlattensExists
<1> DEFINE g == [i \in 0 .. n + 1 |-> IF i = 0 THEN <<>> ELSE a \o f[i - 1]]
<1>3. ASSUME NEW i \in 1 .. n + 1 PROVE i - 1 \in 0 .. n /\ f[i - 1] \in Seq(S)
  BY <1>1, <1>2
<1>4. g \in [0 .. Len(s) -> Seq(S)]
  <2>1. \A i \in 0 .. n + 1 : i = 0 \/ i \in 1 .. n + 1
    BY <1>1
  <2>2. \A i \in 1 .. n + 1 : a \o f[i - 1] \in Seq(S)
    BY <1>1, <1>3
  <2> QED BY <1>1, <2>1, <2>2
<1>5. g[0] = <<>>
  BY <1>1
<1>6. ASSUME NEW i \in 1 .. n + 1 PROVE g[i] = g[i - 1] \o s[i]
  <2>0. \A k \in 1 .. n + 1 : k \in 0 .. n + 1 /\ k # 0 /\ 0 \in 0 .. n + 1
    BY <1>1
  <2>1. CASE i = 1
    <3>1. g[1] = a \o <<>> /\ g[0] = <<>> /\ s[1] = a
      BY <1>1, <1>2, <2>1 DEF Flattens, a
    <3>2. a \o <<>> = a /\ <<>> \o a = a
      BY <1>1
    <3>3. i - 1 = 0
      BY <2>1
    <3> HIDE DEF g
    <3> QED BY <3>1, <3>2, <3>3, <2>1
  <2>2. CASE i # 1
    <3> DEFINE j == i - 1
    <3>1. j \in 1 .. n /\ j # 0 /\ i # 0 /\ j + 1 = i /\ j \in 0 .. n + 1
      BY <2>2, <1>1
    <3>2. g[i] = a \o f[j] /\ g[j] = a \o f[j - 1] /\ s[i] = u[j]
      <4> HIDE DEF j
      <4>1. g[i] = a \o f[i - 1] /\ g[j] = a \o f[j - 1]
        BY <3>1, <2>0
      <4>2. j = i - 1
        BY DEF j
      <4>3. u[j] = s[j + 1]
        BY <3>1, <1>1
      <4> QED BY <4>1, <4>2, <4>3, <3>1
    <3>3. f[j] = f[j - 1] \o u[j]
      BY <3>1, <1>1, <1>2 DEF Flattens
    <3>4. f[j - 1] \in Seq(S) /\ u[j] \in Seq(S)
      BY <3>1, <1>1, <1>2
    <3> HIDE DEF g, j
    <3>5. a \o (f[j - 1] \o u[j]) = (a \o f[j - 1]) \o u[j]
      <4> DEFINE x == f[j - 1]
                 y == u[j]
      <4>1. a \in Seq(S) /\ x \in Seq(S) /\ y \in Seq(S)
        BY <3>4, <1>1
      <4> HIDE DEF x, y
      <4>2. a \o (x \o y) = (a \o x) \o y
        BY SMTT(30), <4>1, ConcatAssociative
      <4> QED BY <4>2 DEF x, y
    <3> QED BY <3>2, <3>3, <3>5 DEF j
  <2> QED BY <2>1, <2>2
<1>7. FlattenSeq(s) = g[n + 1]
  <2> HIDE DEF g
  <2>1. Flattens(g, s)
    BY <1>1, <1>5, <1>6 DEF Flattens
  <2> QED BY <1>1, <1>4, <2>1, FlattenIs
<1>8. FlattenSeq(u) = f[n]
  BY <1>1, <1>2, FlattenIs
<1>9. g[n + 1] = a \o f[n]
  BY <1>1
<1> QED BY <1>1, <1>7, <1>8, <1>9 DEF u

=============================================================================
