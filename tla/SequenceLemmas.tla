---------------------------- MODULE SequenceLemmas ----------------------------
(***************************************************************************)
(* What the community modules' operators on sequences compute, for every   *)
(* sequence.  Their definitions are recursive, so that the proofs need     *)
(* induction: the least-number principle as a fact about sets of naturals, *)
(* which the library derives for the well-founded relation < on Nat.       *)
(***************************************************************************)
EXTENDS SequencesExt, FiniteSetTheorems, SequenceTheorems, WellFoundedInduction, TLAPS

-----------------------------------------------------------------------------
(* Induction and recursion.                                                *)

LessThan == {ss \in Nat \X Nat : ss[1] < ss[2]}

\* There is no infinite descent in the naturals.
LEMMA LessThanWellFounded == IsWellFoundedOn(LessThan, Nat)
  BY NatLessThanWellFounded DEF OpToRel, LessThan

\* Every set of naturals that has an element has a least one.
LEMMA LeastNatural ==
  ASSUME NEW T, T \subseteq Nat, T # {}
  PROVE  \E x \in T : \A y \in T : x <= y
  <1>1. PICK x \in T : \A y \in T : <<y, x>> \notin LessThan
    BY LessThanWellFounded, WFMin
  <1>2. ASSUME NEW y \in T PROVE x <= y
    <2>1. x \in Nat /\ y \in Nat
      OBVIOUS
    <2>2. y < x => <<y, x>> \in LessThan
      BY <2>1 DEF LessThan
    <2>3. QED
      BY <1>1, <2>1, <2>2
  <1>3. QED
    BY <1>2

\* ... and, if it is bounded, a greatest one.
LEMMA GreatestNatural ==
  ASSUME NEW N \in Nat, NEW T, T \subseteq 0..N, T # {}
  PROVE  \E x \in T : \A y \in T : y <= x
  <1> DEFINE U == {N - x : x \in T}
  <1>1. U \subseteq Nat /\ U # {}
    <2>1. \A x \in T : N - x \in Nat
      OBVIOUS
    <2>2. PICK x : x \in T
      OBVIOUS
    <2>3. N - x \in U
      BY <2>2
    <2>4. QED
      BY <2>1, <2>3
  <1>2. PICK u \in U : \A w \in U : u <= w
    <2> HIDE DEF U
    <2> QED BY <1>1, LeastNatural
  <1>3. PICK x \in T : u = N - x
    BY <1>2
  <1>4. ASSUME NEW y \in T PROVE y <= x
    <2>1. N - x <= N - y
      BY <1>2, <1>3
    <2>2. x \in Nat /\ y \in Nat
      OBVIOUS
    <2>3. QED
      BY <2>1, <2>2
  <1>5. QED
    BY <1>3, <1>4

\* A set with 0 and with the successor of each of its elements has all naturals.
LEMMA SetInduction ==
  ASSUME NEW H, 0 \in H, \A n \in Nat : n \in H => n + 1 \in H
  PROVE  \A n \in Nat : n \in H
  <1> SUFFICES ASSUME Nat \ H # {} PROVE FALSE
    OBVIOUS
  <1>1. PICK x \in Nat \ H : \A y \in Nat \ H : x <= y
    BY LeastNatural
  <1>2. x - 1 \in Nat /\ x - 1 \in H
    BY <1>1
  <1>3. x - 1 + 1 = x
    BY <1>2
  <1>4. QED
    BY <1>1, <1>2, <1>3

\* The same up to a bound.
LEMMA BoundedInduction ==
  ASSUME NEW N \in Nat, NEW H, 0 \in H, \A n \in 1..N : n - 1 \in H => n \in H
  PROVE  \A n \in 0..N : n \in H
  <1> DEFINE G == {n \in Nat : n <= N => n \in H}
  <1>1. 0 \in G
    OBVIOUS
  <1>2. ASSUME NEW n \in Nat, n \in G PROVE n + 1 \in G
    <2>1. CASE n + 1 <= N
      <3>1. n + 1 \in 1..N /\ (n + 1) - 1 = n /\ n \in H
        BY <1>2, <2>1
      <3>2. n + 1 \in H
        BY <3>1
      <3>3. QED
        BY <3>2
    <2>2. QED
      BY <2>1
  <1>3. \A n \in Nat : n \in G
    <2>1. \A n \in Nat : n \in G => n + 1 \in G
      BY <1>2
    <2> HIDE DEF G
    <2> QED BY <1>1, <2>1, SetInduction
  <1>4. QED
    BY <1>3

Iterates(N, X, x0, g) ==
  {f \in [0..N -> X] : f[0] = x0 /\ \A i \in 1..N : f[i] = g[<<i, f[i - 1]>>]}

\* A step function can be iterated.
LEMMA Iteration ==
  ASSUME NEW N \in Nat, NEW X, NEW x0 \in X, NEW g \in [(1..N) \X X -> X]
  PROVE  Iterates(N, X, x0, g) # {}
  <1> DEFINE Goes(n, f) == f[0] = x0 /\ \A i \in 1..n : f[i] = g[<<i, f[i - 1]>>]
             H == {n \in Nat : \E f \in [0..n -> X] : Goes(n, f)}
  <1>1. 0 \in H
    <2>1. [i \in 0..0 |-> x0] \in [0..0 -> X] /\ Goes(0, [i \in 0..0 |-> x0])
      OBVIOUS
    <2>2. QED
      BY <2>1
  <1>2. ASSUME NEW n \in 1..N, n - 1 \in H PROVE n \in H
    <2>1. PICK f \in [0..(n - 1) -> X] : Goes(n - 1, f)
      BY <1>2
    <2> DEFINE x == g[<<n, f[n - 1]>>]
               h == [i \in 0..n |-> IF i = n THEN x ELSE f[i]]
    <2>2. x \in X
      OBVIOUS
    <2>3. h \in [0..n -> X]
      BY <2>2
    <2>4. h[0] = x0
      BY <2>1
    <2>5. ASSUME NEW i \in 1..n PROVE h[i] = g[<<i, h[i - 1]>>]
      <3>1. i - 1 \in 0..(n - 1) /\ h[i - 1] = f[i - 1]
        OBVIOUS
      <3>2. CASE i = n
        <4>1. h[i] = x
          BY <3>2
        <4>2. QED
          <5> HIDE DEF h
          <5> QED BY <3>1, <3>2, <4>1
      <3>3. CASE i \in 1..(n - 1)
        <4>1. h[i] = f[i]
          BY <3>3
        <4>2. f[i] = g[<<i, f[i - 1]>>]
          BY <2>1, <3>3
        <4>3. QED
          <5> HIDE DEF h
          <5> QED BY <3>1, <4>1, <4>2
      <3>4. QED
        BY <3>2, <3>3
    <2>6. Goes(n, h)
      BY <2>4, <2>5
    <2>7. QED
      <3> HIDE DEF Goes, h
      <3> QED BY <2>3, <2>6
  <1>3. \A n \in 0..N : n \in H
    <2>1. \A n \in 1..N : n - 1 \in H => n \in H
      BY <1>2
    <2> HIDE DEF H
    <2> QED BY <1>1, <2>1, BoundedInduction
  <1>4. PICK f \in [0..N -> X] : Goes(N, f)
    BY <1>3
  <1>5. f \in Iterates(N, X, x0, g)
    BY <1>4 DEF Iterates
  <1>6. QED
    BY <1>5

\* Induction from N downwards.
LEMMA DownwardInduction ==
  ASSUME NEW N \in Nat, NEW H, \A i \in 1..N : (\A j \in (i + 1)..N : j \in H) => i \in H
  PROVE  \A i \in 1..N : i \in H
  <1> DEFINE T == (1..N) \ H
  <1> SUFFICES ASSUME T # {} PROVE FALSE
    OBVIOUS
  <1>1. T \subseteq 0..N
    OBVIOUS
  <1>2. PICK x \in T : \A y \in T : y <= x
    <2> HIDE DEF T
    <2> QED BY <1>1, GreatestNatural
  <1>3. \A j \in (x + 1)..N : j \in H
    <2> SUFFICES ASSUME NEW j \in (x + 1)..N, j \notin H PROVE FALSE
      OBVIOUS
    <2>1. x \in 1..N
      OBVIOUS
    <2>2. j \in T /\ ~(j <= x)
      BY <2>1
    <2>3. QED
      BY <1>2, <2>2
  <1>4. QED
    BY <1>3

FixedPoints(N, V, b) == {f \in [1..N -> V] : \A i \in 1..N : f[i] = b[<<f, i>>]}

\* A function whose value at i is given by its values at what is above i exists.
LEMMA DownwardRecursion ==
  ASSUME NEW N \in Nat, NEW V, NEW v \in V, NEW b \in [[1..N -> V] \X (1..N) -> V],
         \A f, g \in [1..N -> V] : \A i \in 1..N :
           (\A j \in (i + 1)..N : f[j] = g[j]) => b[<<f, i>>] = b[<<g, i>>]
  PROVE  FixedPoints(N, V, b) # {}
  <1> DEFINE Good(n, f) == \A i \in (N - n + 1)..N : f[i] = b[<<f, i>>]
             H == {n \in 0..N : \E f \in [1..N -> V] : Good(n, f)}
  <1>1. 0 \in H
    <2>1. [i \in 1..N |-> v] \in [1..N -> V] /\ Good(0, [i \in 1..N |-> v])
      OBVIOUS
    <2> HIDE DEF Good
    <2>2. QED
      BY <2>1
  <1>2. ASSUME NEW n \in 1..N, n - 1 \in H PROVE n \in H
    <2>1. PICK f \in [1..N -> V] : Good(n - 1, f)
      BY <1>2
    <2> DEFINE k == N - n + 1
               x == b[<<f, k>>]
               h == [f EXCEPT ![k] = x]
    <2>2. k \in 1..N /\ x \in V
      <3>1. k \in 1..N
        OBVIOUS
      <3>2. <<f, k>> \in [1..N -> V] \X (1..N)
        <4> HIDE DEF k
        <4> QED BY <3>1
      <3>3. x \in V
        <4> HIDE DEF k
        <4> QED BY <3>2
      <3>4. QED
        BY <3>1, <3>3
    <2>3. h \in [1..N -> V] /\ h[k] = x /\ \A j \in (k + 1)..N : j \in 1..N /\ h[j] = f[j]
      BY <2>2
    <2>4. \A i \in k..N : b[<<f, i>>] = b[<<h, i>>]
      <3> SUFFICES ASSUME NEW i \in k..N PROVE b[<<f, i>>] = b[<<h, i>>]
        OBVIOUS
      <3>1. \A j \in (i + 1)..N : f[j] = h[j]
        <4> HIDE DEF h
        <4> QED BY <2>2, <2>3
      <3>2. i \in 1..N
        BY <2>2
      <3>3. QED
        <4> HIDE DEF h
        <4> QED BY <2>3, <3>1, <3>2
    <2>5. \A i \in (k + 1)..N : f[i] = b[<<f, i>>]
      <3>1. k + 1 = N - (n - 1) + 1
        OBVIOUS
      <3>2. \A i \in (N - (n - 1) + 1)..N : f[i] = b[<<f, i>>]
        BY <2>1
      <3> HIDE DEF k
      <3> QED BY <3>1, <3>2
    <2>6. Good(n, h)
      <3> HIDE DEF h
      <3>1. ASSUME NEW i \in k..N PROVE h[i] = b[<<h, i>>]
        <4>1. CASE i = k
          BY <2>3, <2>4, <4>1
        <4>2. CASE i # k
          <5>1. i \in (k + 1)..N
            BY <2>2, <4>2
          <5>2. QED
            BY <2>3, <2>4, <2>5, <5>1
        <4>3. QED
          BY <4>1, <4>2
      <3>2. QED
        BY <3>1
    <2>7. QED
      <3> HIDE DEF Good, h
      <3> QED BY <2>3, <2>6
  <1>3. \A n \in 0..N : n \in H
    <2>1. \A n \in 1..N : n - 1 \in H => n \in H
      BY <1>2
    <2> HIDE DEF H
    <2> QED BY <1>1, <2>1, BoundedInduction
  <1>4. PICK f \in [1..N -> V] : Good(N, f)
    <2>1. N \in H
      <3> HIDE DEF H
      <3>1. N \in 0..N
        OBVIOUS
      <3> QED BY <1>3, <3>1
    <2> HIDE DEF Good
    <2> QED BY <2>1
  <1>5. f \in FixedPoints(N, V, b)
    <2>1. N - N + 1 = 1
      OBVIOUS
    <2>2. \A i \in (N - N + 1)..N : f[i] = b[<<f, i>>]
      BY <1>4
    <2>3. \A i \in 1..N : f[i] = b[<<f, i>>]
      BY <2>1, <2>2
    <2>4. QED
      BY <2>3 DEF FixedPoints
  <1>6. QED
    BY <1>5

-----------------------------------------------------------------------------
(* FlattenSeq.                                                             *)

\* f is the flattening of ss, prefix by prefix.
FlattensBy(ss, f) ==
  /\ f[0] = <<>>
  /\ \A i \in 1..Len(ss) : f[i] = f[i - 1] \o ss[i]

\* FlattenSeq is what its recursion reaches, prefix by prefix.
LEMMA FlattenPrefixes ==
  ASSUME NEW S, NEW ss \in Seq(Seq(S))
  PROVE  \E f \in [0..Len(ss) -> Seq(S)] : FlattensBy(ss, f) /\ f[Len(ss)] = FlattenSeq(ss)
  <1> DEFINE N == Len(ss)
             X == Seq(S)
             Flat(g) == g = [i \in 1..N |-> IF i = 1 THEN ss[i] ELSE g[i - 1] \o ss[i]]
             Step == [p \in (1..N) \X X |-> p[2] \o ss[p[1]]]
  <1>1. N \in Nat /\ <<>> \in X /\ \A i \in 1..N : ss[i] \in X
    OBVIOUS
  <1>2. Step \in [(1..N) \X X -> X]
    <2>1. ASSUME NEW p \in (1..N) \X X PROVE p[2] \o ss[p[1]] \in X
      <3>1. p[1] \in 1..N /\ p[2] \in Seq(S)
        OBVIOUS
      <3>2. ss[p[1]] \in Seq(S)
        BY <1>1, <3>1
      <3>3. QED
        BY <3>1, <3>2
    <2>2. QED
      BY <2>1
  <1>3. PICK f \in [0..N -> X] : f[0] = <<>> /\ \A i \in 1..N : f[i] = Step[<<i, f[i - 1]>>]
    <2>1. Iterates(N, X, <<>>, Step) # {}
      <3> HIDE DEF N, X, Step
      <3> QED BY <1>1, <1>2, Iteration
    <2> HIDE DEF N, X, Step
    <2> QED BY <2>1 DEF Iterates
  <1>4. ASSUME NEW i \in 1..N PROVE f[i] = f[i - 1] \o ss[i]
    <2>1. i - 1 \in 0..N
      OBVIOUS
    <2>2. <<i, f[i - 1]>> \in (1..N) \X X
      BY <2>1
    <2>3. QED
      BY <1>3, <2>2
  <1>5. FlattensBy(ss, f)
    BY <1>3, <1>4 DEF FlattensBy
  <1>6. CASE N = 0
    <2>1. FlattenSeq(ss) = ss /\ ss = <<>>
      BY <1>6 DEF FlattenSeq
    <2>2. f[N] = <<>>
      BY <1>3, <1>6
    <2>3. QED
      BY <1>5, <2>1, <2>2
  <1>7. CASE N # 0
    <2> DEFINE h == [i \in 1..N |-> f[i]]
    <2>1. f[0] \o ss[1] = ss[1] /\ f[1] = ss[1]
      <3>1. ss[1] \in Seq(S) /\ f[0] = <<>> /\ 1 \in 1..N
        BY <1>1, <1>3, <1>7
      <3>2. f[0] \o ss[1] = ss[1]
        BY <3>1
      <3>3. f[1] = f[1 - 1] \o ss[1]
        BY <1>4, <3>1
      <3>4. 1 - 1 = 0
        OBVIOUS
      <3>5. QED
        BY <3>2, <3>3, <3>4
    <2>2. ASSUME NEW i \in 1..N PROVE h[i] = IF i = 1 THEN ss[i] ELSE h[i - 1] \o ss[i]
      <3>1. CASE i = 1
        BY <2>1, <3>1
      <3>2. CASE i # 1
        <4>1. i - 1 \in 1..N /\ h[i - 1] = f[i - 1] /\ h[i] = f[i]
          BY <3>2
        <4>2. QED
          <5> HIDE DEF h
          <5> QED BY <1>4, <3>2, <4>1
      <3>3. QED
        BY <3>1, <3>2
    <2>3. Flat(h)
      BY <2>2
    <2>4. ASSUME NEW g, Flat(g) PROVE g[N] = f[N]
      <3> DEFINE H == {n \in 0..N : n = 0 \/ g[n] = f[n]}
      <3>1. 0 \in H
        BY <1>1
      <3>2. ASSUME NEW n \in 1..N, n - 1 \in H PROVE n \in H
        <4>1. g[n] = IF n = 1 THEN ss[n] ELSE g[n - 1] \o ss[n]
          BY <2>4
        <4>2. f[n] = f[n - 1] \o ss[n]
          BY <1>4
        <4>3. CASE n = 1
          BY <2>1, <4>1, <4>3
        <4>4. CASE n # 1
          <5>1. g[n - 1] = f[n - 1]
            BY <3>2, <4>4
          <5>2. g[n] = f[n]
            BY <4>1, <4>2, <4>4, <5>1, Zenon
          <5>3. QED
            BY <5>2
        <4>5. QED
          BY <4>3, <4>4
      <3>3. \A n \in 0..N : n \in H
        <4>1. \A n \in 1..N : n - 1 \in H => n \in H
          BY <3>2
        <4> HIDE DEF H, N
        <4> QED BY <1>1, <3>1, <4>1, BoundedInduction
      <3>4. N \in H
        BY <1>1, <3>3
      <3>5. QED
        BY <1>7, <3>4
    <2>5. FlattenSeq(ss) = (CHOOSE g : Flat(g))[N]
      BY <1>7 DEF FlattenSeq
    <2>6. Flat(CHOOSE g : Flat(g))
      <3> HIDE DEF Flat
      <3> QED BY <2>3
    <2>7. FlattenSeq(ss) = f[N]
      <3> HIDE DEF Flat
      <3> QED BY <2>4, <2>5, <2>6
    <2>8. QED
      BY <1>5, <2>7
  <1>8. QED
    BY <1>6, <1>7

\* One more sequence is appended at each prefix.
LEMMA FlattenStep ==
  ASSUME NEW S, NEW ss \in Seq(Seq(S)), NEW f \in [0..Len(ss) -> Seq(S)], FlattensBy(ss, f),
         NEW i \in 1..Len(ss)
  PROVE  f[i] = f[i - 1] \o ss[i] /\ f[i - 1] \in Seq(S) /\ ss[i] \in Seq(S)
  <1>1. f[i] = f[i - 1] \o ss[i]
    BY DEF FlattensBy
  <1>2. i - 1 \in 0..Len(ss)
    OBVIOUS
  <1>3. f[i - 1] \in Seq(S)
    BY <1>2
  <1>4. ss[i] \in Seq(S)
    OBVIOUS
  <1>5. QED
    BY <1>1, <1>3, <1>4

\* The elements of a flattening are elements of its parts.
LEMMA FlattenType ==
  ASSUME NEW S, NEW ss \in Seq(Seq(S))
  PROVE  FlattenSeq(ss) \in Seq(S)
  <1>1. Len(ss) \in Nat
    OBVIOUS
  <1>2. QED
    BY <1>1, FlattenPrefixes

\* Nothing flattens to nothing.
LEMMA FlattenEmpty == FlattenSeq(<<>>) = <<>>
  BY DEF FlattenSeq

\* The flattening of a concatenation is that of its two parts.
LEMMA FlattenConcat ==
  ASSUME NEW S, NEW aa \in Seq(Seq(S)), NEW bb \in Seq(Seq(S))
  PROVE  FlattenSeq(aa \o bb) = FlattenSeq(aa) \o FlattenSeq(bb)
  <1> DEFINE A == Len(aa)
             B == Len(bb)
             cc == aa \o bb
  <1>1. /\ A \in Nat /\ B \in Nat /\ cc \in Seq(Seq(S)) /\ Len(cc) = A + B
        /\ \A i \in 1..A : cc[i] = aa[i]
        /\ \A i \in 1..B : cc[A + i] = bb[i]
    OBVIOUS
  <1>2. PICK f \in [0..A -> Seq(S)] : FlattensBy(aa, f) /\ f[A] = FlattenSeq(aa)
    BY FlattenPrefixes
  <1>3. PICK g \in [0..B -> Seq(S)] : FlattensBy(bb, g) /\ g[B] = FlattenSeq(bb)
    BY FlattenPrefixes
  <1> HIDE DEF cc
  <1>c. \E h \in [0..Len(cc) -> Seq(S)] : FlattensBy(cc, h) /\ h[Len(cc)] = FlattenSeq(cc)
    BY <1>1, FlattenPrefixes
  <1> HIDE DEF A, B
  <1>4. PICK h \in [0..(A + B) -> Seq(S)] : FlattensBy(cc, h) /\ h[A + B] = FlattenSeq(cc)
    BY <1>1, <1>c
  <1>5. h[A] = f[A]
    <2> DEFINE H == {n \in 0..A : h[n] = f[n]}
    <2>1. 0 \in H
      BY <1>1, <1>2, <1>4 DEF FlattensBy
    <2>2. ASSUME NEW n \in 1..A, n - 1 \in H PROVE n \in H
      <3>1. f[n] = f[n - 1] \o aa[n]
        BY <1>2 DEF FlattensBy, A
      <3>2. n \in 1..(A + B)
        BY <1>1
      <3>3. h[n] = h[n - 1] \o cc[n]
        BY <1>1, <1>4, <3>2 DEF FlattensBy
      <3>4. cc[n] = aa[n] /\ h[n - 1] = f[n - 1] /\ n \in 0..A
        BY <1>1, <2>2
      <3>5. h[n] = f[n]
        BY <3>1, <3>3, <3>4, Zenon
      <3>6. QED
        BY <3>4, <3>5
    <2>3. \A n \in 0..A : n \in H
      <3>1. \A n \in 1..A : n - 1 \in H => n \in H
        BY <2>2
      <3> HIDE DEF H
      <3> QED BY <1>1, <2>1, <3>1, BoundedInduction
    <2>4. QED
      BY <1>1, <2>3
  <1>6. h[A + B] = f[A] \o g[B]
    <2> DEFINE H == {n \in 0..B : h[A + n] = f[A] \o g[n]}
    <2>1. 0 \in H
      <3>1. f[A] \o g[0] = f[A]
        <4>1. f[A] \in Seq(S)
          BY <1>1
        <4>2. QED
          BY <1>3, <4>1 DEF FlattensBy
      <3>2. A + 0 = A
        BY <1>1
      <3>3. h[A + 0] = f[A] \o g[0]
        BY <1>5, <3>1, <3>2, Zenon
      <3>4. 0 \in 0..B
        BY <1>1
      <3>5. QED
        BY <3>3, <3>4, Zenon
    <2>2. ASSUME NEW n \in 1..B, n - 1 \in H PROVE n \in H
      <3>1. g[n] = g[n - 1] \o bb[n] /\ g[n - 1] \in Seq(S) /\ bb[n] \in Seq(S)
        BY <1>3, FlattenStep DEF B
      <3>2. A + n \in 1..(A + B) /\ (A + n) - 1 = A + (n - 1) /\ n - 1 \in 0..B
        BY <1>1
      <3>3. h[A + n] = h[A + (n - 1)] \o cc[A + n]
        <4>1. h[A + n] = h[(A + n) - 1] \o cc[A + n]
          BY <1>1, <1>4, <3>2 DEF FlattensBy
        <4>2. QED
          BY <3>2, <4>1
      <3>4. h[A + (n - 1)] = f[A] \o g[n - 1]
        BY <2>2
      <3>5. cc[A + n] = bb[n]
        BY <1>1
      <3>6. f[A] \in Seq(S)
        BY <1>1
      <3>7. (f[A] \o g[n - 1]) \o bb[n] = f[A] \o (g[n - 1] \o bb[n])
        <4>1. \A x, y, z \in Seq(S) : (x \o y) \o z = x \o (y \o z)
          BY ConcatAssociative, SMTT(60)
        <4>2. QED
          BY <3>1, <3>6, <4>1, Zenon
      <3>8. h[A + n] = f[A] \o g[n]
        BY <3>1, <3>3, <3>4, <3>5, <3>7, Zenon
      <3>9. n \in 0..B
        BY <1>1
      <3>10. QED
        BY <3>8, <3>9, Zenon
    <2>3. \A n \in 0..B : n \in H
      <3>1. \A n \in 1..B : n - 1 \in H => n \in H
        BY <2>2
      <3> HIDE DEF H
      <3> QED BY <1>1, <2>1, <3>1, BoundedInduction
    <2>4. B \in 0..B
      BY <1>1
    <2> HIDE DEF H
    <2>5. B \in H
      BY <2>3, <2>4
    <2>6. QED
      BY <2>5 DEF H
  <1>7. QED
    BY <1>2, <1>3, <1>4, <1>6 DEF cc

\* A sequence of one part, and one of parts with one element each.
LEMMA FlattenOne ==
  ASSUME NEW S, NEW s \in Seq(S)
  PROVE  FlattenSeq(<<s>>) = s
  <1>1. <<s>> \in Seq(Seq(S)) /\ Len(<<s>>) = 1 /\ <<s>>[1] = s
    OBVIOUS
  <1>2. PICK f \in [0..1 -> Seq(S)] : FlattensBy(<<s>>, f) /\ f[1] = FlattenSeq(<<s>>)
    BY <1>1, FlattenPrefixes
  <1>3. f[0] = <<>> /\ f[1] = f[1 - 1] \o s
    <2>1. 1 \in 1..Len(<<s>>)
      BY <1>1
    <2>2. f[1] = f[1 - 1] \o <<s>>[1]
      BY <1>2, <2>1, Zenon DEF FlattensBy
    <2>3. QED
      BY <1>1, <1>2, <2>2, Zenon DEF FlattensBy
  <1>4. f[1] = <<>> \o s
    <2>1. 1 - 1 = 0
      OBVIOUS
    <2>2. QED
      BY <1>3, <2>1
  <1>5. QED
    BY <1>2, <1>4

\* A sequence is the flattening of its own elements, each by itself.
LEMMA FlattenSingletons ==
  ASSUME NEW S, NEW s \in Seq(S)
  PROVE  FlattenSeq([i \in 1..Len(s) |-> <<s[i]>>]) = s
  <1> DEFINE N == Len(s)
             ss == [i \in 1..N |-> <<s[i]>>]
  <1>1. N \in Nat /\ ss \in Seq(Seq(S)) /\ Len(ss) = N /\ \A i \in 1..N : ss[i] = <<s[i]>>
    <2>1. \A i \in 1..N : <<s[i]>> \in Seq(S)
      OBVIOUS
    <2>2. QED
      BY <2>1
  <1> HIDE DEF ss
  <1>2. PICK f \in [0..N -> Seq(S)] : FlattensBy(ss, f) /\ f[N] = FlattenSeq(ss)
    BY <1>1, FlattenPrefixes
  <1> DEFINE H == {n \in 0..N : f[n] = SubSeq(s, 1, n)}
  <1>3. 0 \in H
    BY <1>1, <1>2 DEF FlattensBy
  <1>4. ASSUME NEW n \in 1..N, n - 1 \in H PROVE n \in H
    <2>1. f[n] = f[n - 1] \o <<s[n]>>
      BY <1>1, <1>2 DEF FlattensBy
    <2>2. SubSeq(s, 1, n - 1) \o <<s[n]>> = SubSeq(s, 1, n)
      <3>1. s[n] \in S /\ SubSeq(s, 1, n - 1) \in Seq(S) /\ SubSeq(s, 1, n) \in Seq(S)
        <4>1. \A i \in 1..N : s[i] \in S
          OBVIOUS
        <4>2. n \in Int /\ n - 1 \in Int /\ 1 \in Int /\ 1..n \subseteq 1..N /\ 1..(n - 1) \subseteq 1..N
          BY <1>1
        <4>3. QED
          BY <4>1, <4>2, SubSeqProperties
      <3>2. Len(SubSeq(s, 1, n - 1)) = n - 1 /\ Len(SubSeq(s, 1, n)) = n
        BY <1>1
      <3>3. \A i \in 1..n : SubSeq(s, 1, n)[i] = s[i]
        BY <1>1
      <3>4. \A i \in 1..n : (SubSeq(s, 1, n - 1) \o <<s[n]>>)[i] = s[i]
        BY <1>1, <3>1, <3>2
      <3>5. Len(SubSeq(s, 1, n - 1) \o <<s[n]>>) = n
        BY <3>1, <3>2
      <3>6. SubSeq(s, 1, n - 1) \o <<s[n]>> \in Seq(S)
        BY <3>1
      <3>7. QED
        BY <3>1, <3>2, <3>3, <3>4, <3>5, <3>6, SeqEqual
    <2>3. f[n - 1] = SubSeq(s, 1, n - 1)
      BY <1>4
    <2>4. QED
      BY <2>1, <2>2, <2>3
  <1>5. N \in H
    <2>1. \A n \in 1..N : n - 1 \in H => n \in H
      BY <1>4
    <2>2. N \in 0..N
      BY <1>1
    <2> HIDE DEF N, H
    <2>3. \A n \in 0..N : n \in H
      BY <1>1, <1>3, <2>1, BoundedInduction
    <2>4. QED
      BY <2>2, <2>3
  <1>6. SubSeq(s, 1, N) = s
    OBVIOUS
  <1>7. QED
    BY <1>2, <1>5, <1>6 DEF ss

\* A flattened sequence has the elements of its parts and no others.
LEMMA FlattenRange ==
  ASSUME NEW S, NEW ss \in Seq(Seq(S))
  PROVE  Range(FlattenSeq(ss)) = UNION {Range(ss[i]) : i \in 1..Len(ss)}
  <1> DEFINE N == Len(ss)
  <1>1. N \in Nat /\ \A i \in 1..N : ss[i] \in Seq(S)
    OBVIOUS
  <1>2. PICK f \in [0..N -> Seq(S)] : FlattensBy(ss, f) /\ f[N] = FlattenSeq(ss)
    BY FlattenPrefixes
  <1> DEFINE H == {n \in 0..N : Range(f[n]) = UNION {Range(ss[i]) : i \in 1..n}}
  <1>3. 0 \in H
    BY <1>1, <1>2 DEF FlattensBy, Range
  <1>4. ASSUME NEW n \in 1..N, n - 1 \in H PROVE n \in H
    <2>1. f[n] = f[n - 1] \o ss[n] /\ f[n - 1] \in Seq(S) /\ ss[n] \in Seq(S)
      BY <1>2, FlattenStep
    <2>2. Range(f[n]) = Range(f[n - 1]) \cup Range(ss[n])
      BY <2>1, RangeConcatenation
    <2>3. 1..n = (1..(n - 1)) \cup {n}
      OBVIOUS
    <2>4. Range(f[n - 1]) = UNION {Range(ss[i]) : i \in 1..(n - 1)}
      BY <1>4
    <2>5. Range(f[n]) = UNION {Range(ss[i]) : i \in 1..n}
      BY <2>2, <2>3, <2>4, Zenon
    <2>6. QED
      BY <2>5
  <1>5. N \in H
    <2>1. \A n \in 1..N : n - 1 \in H => n \in H
      BY <1>4
    <2>2. N \in 0..N
      BY <1>1
    <2> HIDE DEF N, H
    <2>3. \A n \in 0..N : n \in H
      BY <1>1, <1>3, <2>1, BoundedInduction
    <2>4. QED
      BY <2>2, <2>3
  <1>6. QED
    BY <1>2, <1>5

\* At most one place of s holds an element of Q.
AtMostOne(s, Q) == \A a, b \in DOMAIN s : s[a] \in Q /\ s[b] \in Q => a = b

\* Two sequences of which only one can hold an element of Q hold at most one together.
LEMMA ConcatAtMostOne ==
  ASSUME NEW S, NEW s \in Seq(S), NEW t \in Seq(S), NEW Q,
         AtMostOne(s, Q), AtMostOne(t, Q), Range(s) \cap Q = {} \/ Range(t) \cap Q = {}
  PROVE  AtMostOne(s \o t, Q)
  <1> SUFFICES ASSUME NEW a \in DOMAIN (s \o t), NEW b \in DOMAIN (s \o t),
                      (s \o t)[a] \in Q, (s \o t)[b] \in Q
               PROVE  a = b
    BY DEF AtMostOne
  <1>1. /\ DOMAIN s = 1..Len(s) /\ DOMAIN t = 1..Len(t) /\ Len(s) \in Nat /\ Len(t) \in Nat
        /\ DOMAIN (s \o t) = 1..(Len(s) + Len(t))
    OBVIOUS
  <1>2. ASSUME NEW c \in DOMAIN (s \o t), (s \o t)[c] \in Q
        PROVE  \/ c \in DOMAIN s /\ s[c] \in Q
               \/ c - Len(s) \in DOMAIN t /\ t[c - Len(s)] \in Q
    BY <1>1, <1>2
  <1>3. CASE Range(s) \cap Q = {}
    <2>1. a - Len(s) \in DOMAIN t /\ t[a - Len(s)] \in Q
      BY <1>2, <1>3 DEF Range
    <2>2. b - Len(s) \in DOMAIN t /\ t[b - Len(s)] \in Q
      BY <1>2, <1>3 DEF Range
    <2>3. a - Len(s) = b - Len(s)
      BY <2>1, <2>2 DEF AtMostOne
    <2>4. QED
      BY <1>1, <2>3
  <1>4. CASE Range(t) \cap Q = {}
    <2>1. a \in DOMAIN s /\ s[a] \in Q
      BY <1>2, <1>4 DEF Range
    <2>2. b \in DOMAIN s /\ s[b] \in Q
      BY <1>2, <1>4 DEF Range
    <2>3. QED
      BY <2>1, <2>2 DEF AtMostOne
  <1>5. QED
    BY <1>3, <1>4

\* Parts that each hold at most one element of Q, and only one of them any at all.
LEMMA FlattenAtMostOne ==
  ASSUME NEW S, NEW ss \in Seq(Seq(S)), NEW Q,
         \A i \in 1..Len(ss) : AtMostOne(ss[i], Q),
         \A i, j \in 1..Len(ss) : Range(ss[i]) \cap Q # {} /\ Range(ss[j]) \cap Q # {} => i = j
  PROVE  AtMostOne(FlattenSeq(ss), Q)
  <1> DEFINE N == Len(ss)
  <1>1. N \in Nat /\ \A i \in 1..N : ss[i] \in Seq(S)
    OBVIOUS
  <1>2. PICK f \in [0..N -> Seq(S)] : FlattensBy(ss, f) /\ f[N] = FlattenSeq(ss)
    BY FlattenPrefixes
  <1> DEFINE Some(n) == \E i \in 1..n : Range(ss[i]) \cap Q # {}
             H == {n \in 0..N : AtMostOne(f[n], Q) /\ (Range(f[n]) \cap Q # {} => Some(n))}
  <1>3. 0 \in H
    BY <1>1, <1>2 DEF FlattensBy, Range, AtMostOne
  <1>4. ASSUME NEW n \in 1..N, n - 1 \in H PROVE n \in H
    <2>1. f[n] = f[n - 1] \o ss[n] /\ f[n - 1] \in Seq(S) /\ ss[n] \in Seq(S)
      BY <1>2, FlattenStep
    <2>2. Range(f[n]) = Range(f[n - 1]) \cup Range(ss[n])
      BY <2>1, RangeConcatenation
    <2>3. AtMostOne(f[n - 1], Q) /\ (Range(f[n - 1]) \cap Q # {} => Some(n - 1))
      BY <1>4
    <2>4. Range(f[n - 1]) \cap Q = {} \/ Range(ss[n]) \cap Q = {}
      <3> SUFFICES ASSUME Range(ss[n]) \cap Q # {}, Some(n - 1) PROVE FALSE
        BY <2>3
      <3>1. PICK i \in 1..(n - 1) : Range(ss[i]) \cap Q # {}
        OBVIOUS
      <3>2. i \in 1..N /\ i # n
        BY <1>1
      <3>3. QED
        BY <3>1, <3>2
    <2>5. AtMostOne(f[n], Q)
      BY <2>1, <2>3, <2>4, ConcatAtMostOne
    <2>6. Some(n - 1) => Some(n)
      OBVIOUS
    <2>7. Range(ss[n]) \cap Q # {} => Some(n)
      OBVIOUS
    <2>8. Range(f[n]) \cap Q # {} => Some(n)
      <3> HIDE DEF Some
      <3> QED BY <2>2, <2>3, <2>6, <2>7
    <2>9. QED
      <3> HIDE DEF Some
      <3> QED BY <2>5, <2>8
  <1>5. N \in H
    <2>1. \A n \in 1..N : n - 1 \in H => n \in H
      BY <1>4
    <2>2. N \in 0..N
      BY <1>1
    <2> HIDE DEF N, H
    <2>3. \A n \in 0..N : n \in H
      BY <1>1, <1>3, <2>1, BoundedInduction
    <2>4. QED
      BY <2>2, <2>3
  <1>6. QED
    BY <1>2, <1>5

-----------------------------------------------------------------------------
(* SetToSeq, and sequences without repetition.                             *)

\* SetToSeq lists a finite set, every element once.
LEMMA SetToSeqLists ==
  ASSUME NEW S, IsFiniteSet(S)
  PROVE  /\ SetToSeq(S) \in Seq(S) /\ Len(SetToSeq(S)) = Cardinality(S)
         /\ Range(SetToSeq(S)) = S
         /\ \A i, j \in 1..Cardinality(S) : SetToSeq(S)[i] = SetToSeq(S)[j] => i = j
  <1> DEFINE N == Cardinality(S)
             L == SetToSeq(S)
  <1>1. N \in Nat /\ ExistsBijection(1..N, S)
    BY FS_CardinalityType
  <1>2. PICK g : g \in Bijection(1..N, S)
    BY <1>1 DEF ExistsBijection
  <1>3. g \in [1..N -> S] /\ IsInjective(g)
    BY <1>2 DEF Bijection, Injection
  <1>4. L \in [1..N -> S] /\ IsInjective(L)
    BY <1>3, Zenon DEF SetToSeq
  <1>5. L \in Injection(1..N, S)
    BY <1>4 DEF Injection
  <1>6. Cardinality(1..N) = N
    BY <1>1, FS_Interval
  <1>7. L \in Surjection(1..N, S)
    BY <1>5, <1>6, FS_Injection
  <1>8. Range(L) = S
    BY <1>4, <1>7 DEF Surjection, Range
  <1>9. L \in Seq(S) /\ Len(L) = N
    BY <1>1, <1>4
  <1>10. QED
    BY <1>4, <1>8, <1>9 DEF IsInjective

\* A sequence without repetition is no longer than the set its elements come from.
LEMMA DistinctBound ==
  ASSUME NEW S, IsFiniteSet(S), NEW s \in Seq(S), \A i, j \in DOMAIN s : s[i] = s[j] => i = j
  PROVE  Len(s) <= Cardinality(S)
  <1>1. Len(s) \in Nat /\ s \in [1..Len(s) -> S]
    OBVIOUS
  <1>2. s \in Injection(1..Len(s), S)
    BY <1>1 DEF Injection, IsInjective
  <1>3. Cardinality(1..Len(s)) <= Cardinality(S)
    BY <1>2, FS_Injection
  <1>4. Cardinality(1..Len(s)) = Len(s)
    BY <1>1, FS_Interval
  <1>5. QED
    BY <1>3, <1>4

\* What is left of a sequence without the first occurrence of an element.
LEMMA RemoveFirstType ==
  ASSUME NEW S, NEW s \in Seq(S), NEW e
  PROVE  RemoveFirst(s, e) \in Seq(S)
  <1> DEFINE I == {i \in 1..Len(s) : s[i] = e}
  <1>1. CASE I = {}
    BY <1>1 DEF RemoveFirst
  <1>2. CASE I # {}
    <2>1. I \subseteq Nat /\ Len(s) \in Nat
      OBVIOUS
    <2>2. \E m \in I : \A j \in I : m <= j
      <3> HIDE DEF I
      <3> QED BY <1>2, <2>1, LeastNatural
    <2>3. Min(I) \in I
      <3> HIDE DEF I
      <3> QED BY <2>2 DEF Min
    <2>4. SelectInSeq(s, LAMBDA v : v = e) = Min(I)
      BY <1>2 DEF SelectInSeq
    <2>5. RemoveFirst(s, e) = RemoveAt(s, Min(I))
      BY <1>2, <2>4 DEF RemoveFirst
    <2>6. PICK m \in 1..Len(s) : m = Min(I)
      BY <2>3
    <2>7. SubSeq(s, 1, m - 1) \in Seq(S) /\ SubSeq(s, m + 1, Len(s)) \in Seq(S)
      <3>1. m - 1 \in Int /\ m + 1 \in Int /\ Len(s) \in Int
        BY <2>1
      <3>2. \A i \in 1..Len(s) : s[i] \in S
        OBVIOUS
      <3>3. 1..(m - 1) \subseteq 1..Len(s) /\ (m + 1)..Len(s) \subseteq 1..Len(s)
        BY <2>1
      <3>4. QED
        BY <3>1, <3>2, <3>3, SubSeqProperties
    <2>8. RemoveAt(s, m) \in Seq(S)
      BY <2>7 DEF RemoveAt
    <2>9. QED
      BY <2>5, <2>6, <2>8
  <1>3. QED
    BY <1>1, <1>2
=============================================================================
