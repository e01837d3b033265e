---------------------------- MODULE CatalogueProofs ----------------------------
(***************************************************************************)
(* Proofs about Catalogue, for every catalogue and every value of the      *)
(* parameters: that accepted templates are rendered, which relates two     *)
(* ways of reading a template, and that values stay in their places, which *)
(* relates putting them in one after the other to putting them in at once. *)
(***************************************************************************)
EXTENDS Catalogue, SequenceLemmas

-----------------------------------------------------------------------------
(* Putting parameters into a path.                                         *)

\* What stands where piece was once the names in D have their values.
Filled(piece, D, values) == IF piece \in D THEN Quote(values[piece]) ELSE <<piece>>
FilledAll(path, D, values) == [i \in 1..Len(path) |-> Filled(path[i], D, values)]

\* A quoted value holds nothing special (quote(), resources.py:72).
LEMMA QuoteType ==
  ASSUME NEW v \in Value
  PROVE  /\ Quote(v) \in Seq(Piece)
         /\ \A i \in 1..Len(Quote(v)) : Quote(v)[i] \notin Special
  <1>1. v \in Seq(Piece) /\ Len(v) \in Nat /\ DOMAIN v = 1..Len(v)
    BY PieceAssumption
  <1>2. ASSUME NEW i \in 1..Len(v)
        PROVE  LET q == IF v[i] \in Special THEN <<"%">> \o v[i] ELSE v[i]
               IN  q \in Piece /\ q \notin Special
    <2>1. v[i] \in Piece
      BY <1>1
    <2>2. QED
      BY <2>1, PieceAssumption
  <1>3. Quote(v) = [i \in 1..Len(v) |-> IF v[i] \in Special THEN <<"%">> \o v[i] ELSE v[i]]
    BY <1>1 DEF Quote
  <1>4. Quote(v) \in [1..Len(v) -> Piece]
    BY <1>2, <1>3
  <1>5. Quote(v) \in Seq(Piece) /\ Len(Quote(v)) = Len(v)
    BY <1>1, <1>4
  <1>6. QED
    BY <1>2, <1>3, <1>5

\* What stands in place of a piece is a path.
LEMMA FilledType ==
  ASSUME NEW piece \in Piece, NEW D \in SUBSET Placeholder,
         NEW values, \A x \in D : values[x] \in Value
  PROVE  Filled(piece, D, values) \in Seq(Piece)
  BY QuoteType DEF Filled

\* The parts that Replace puts together.
Parts(path, name, value) == [i \in 1..Len(path) |-> IF path[i] = name THEN value ELSE <<path[i]>>]

\* Replace flattens a path that has a part for each piece.
LEMMA PartsType ==
  ASSUME NEW path \in Seq(Piece), NEW name, NEW value \in Seq(Piece)
  PROVE  /\ Parts(path, name, value) \in Seq(Seq(Piece))
         /\ Len(Parts(path, name, value)) = Len(path)
         /\ Replace(path, name, value) = FlattenSeq(Parts(path, name, value))
  <1>1. Len(path) \in Nat /\ DOMAIN path = 1..Len(path) /\ \A i \in 1..Len(path) : path[i] \in Piece
    OBVIOUS
  <1>2. \A i \in 1..Len(path) : <<path[i]>> \in Seq(Piece)
    BY <1>1
  <1>3. QED
    BY <1>1, <1>2 DEF Parts, Replace

\* A path stays a path when a name is replaced.
LEMMA ReplaceType ==
  ASSUME NEW path \in Seq(Piece), NEW name, NEW value \in Seq(Piece)
  PROVE  Replace(path, name, value) \in Seq(Piece)
  BY PartsType, FlattenType

\* str.replace on a concatenation replaces in both parts.
LEMMA ReplaceConcat ==
  ASSUME NEW p \in Seq(Piece), NEW q \in Seq(Piece), NEW name, NEW value \in Seq(Piece)
  PROVE  Replace(p \o q, name, value) = Replace(p, name, value) \o Replace(q, name, value)
  <1> DEFINE P == Parts(p, name, value)
             Q == Parts(q, name, value)
  <1>1. p \o q \in Seq(Piece)
    OBVIOUS
  <1>2. P \in Seq(Seq(Piece)) /\ Q \in Seq(Seq(Piece)) /\ Parts(p \o q, name, value) \in Seq(Seq(Piece))
    BY <1>1, PartsType
  <1>3. Parts(p \o q, name, value) = P \o Q
    <2>1. /\ Len(p) \in Nat /\ Len(q) \in Nat /\ Len(P) = Len(p) /\ Len(Q) = Len(q)
          /\ Len(p \o q) = Len(p) + Len(q) /\ Len(Parts(p \o q, name, value)) = Len(p) + Len(q)
      <3>1. Len(p) \in Nat /\ Len(q) \in Nat /\ Len(p \o q) = Len(p) + Len(q)
        OBVIOUS
      <3>2. Len(P) = Len(p) /\ Len(Q) = Len(q)
        BY PartsType
      <3>3. Len(Parts(p \o q, name, value)) = Len(p \o q)
        BY <1>1, PartsType
      <3>4. QED
        BY <3>1, <3>2, <3>3
    <2>2. P \o Q \in Seq(Seq(Piece)) /\ Len(P \o Q) = Len(p) + Len(q)
      <3> HIDE DEF P, Q
      <3>1. P \o Q \in Seq(Seq(Piece)) /\ Len(P \o Q) = Len(P) + Len(Q)
        BY <1>2
      <3>2. QED
        BY <2>1, <3>1
    <2>3. ASSUME NEW i \in 1..(Len(p) + Len(q)) PROVE Parts(p \o q, name, value)[i] = (P \o Q)[i]
      <3>1. CASE i <= Len(p)
        <4>1. (p \o q)[i] = p[i] /\ (P \o Q)[i] = P[i] /\ i \in 1..Len(p)
          <5> HIDE DEF P, Q
          <5> QED BY <1>2, <2>1, <3>1
        <4>2. QED
          BY <2>1, <4>1 DEF Parts
      <3>2. CASE i > Len(p)
        <4>1. (p \o q)[i] = q[i - Len(p)] /\ (P \o Q)[i] = Q[i - Len(p)] /\ i - Len(p) \in 1..Len(q)
          <5> HIDE DEF P, Q
          <5>1. i - Len(p) \in 1..Len(q)
            BY <2>1, <3>2
          <5>2. (p \o q)[i] = q[i - Len(p)]
            BY <2>1, <3>2, ConcatProperties
          <5>3. (P \o Q)[i] = Q[i - Len(P)]
            <6>1. i \in 1..(Len(P) + Len(Q)) /\ ~(i <= Len(P))
              BY <2>1, <3>2
            <6>2. QED
              BY <1>2, <6>1, ConcatProperties
          <5>4. QED
            BY <2>1, <5>1, <5>2, <5>3
        <4>2. QED
          BY <2>1, <4>1 DEF Parts
      <3>3. QED
        BY <2>1, <3>1, <3>2
    <2>4. QED
      <3> HIDE DEF P, Q
      <3> QED BY <1>2, <2>1, <2>2, <2>3, SeqEqual
  <1>4. FlattenSeq(P \o Q) = FlattenSeq(P) \o FlattenSeq(Q)
    <2> HIDE DEF P, Q
    <2> QED BY <1>2, FlattenConcat
  <1>5. QED
    BY <1>1, <1>3, <1>4, PartsType

\* ReplaceConcat, quantified.
LEMMA ReplaceConcatAll ==
  ASSUME NEW name, NEW value \in Seq(Piece)
  PROVE  \A p, q \in Seq(Piece) :
            Replace(p \o q, name, value) = Replace(p, name, value) \o Replace(q, name, value)
  BY ReplaceConcat

\* str.replace on a single piece.
LEMMA ReplaceOne ==
  ASSUME NEW piece \in Piece, NEW name, NEW value \in Seq(Piece)
  PROVE  Replace(<<piece>>, name, value) = IF piece = name THEN value ELSE <<piece>>
  <1> DEFINE x == IF piece = name THEN value ELSE <<piece>>
  <1>1. <<piece>> \in Seq(Piece) /\ Len(<<piece>>) = 1 /\ DOMAIN <<piece>> = 1..1 /\ <<piece>>[1] = piece
    OBVIOUS
  <1>2. Parts(<<piece>>, name, value) = <<x>>
    BY <1>1 DEF Parts
  <1>3. x \in Seq(Piece)
    BY <1>1
  <1>4. FlattenSeq(<<x>>) = x
    <2> HIDE DEF x
    <2> QED BY <1>3, FlattenOne
  <1>5. Replace(<<piece>>, name, value) = FlattenSeq(Parts(<<piece>>, name, value))
    BY <1>1, PartsType
  <1>6. QED
    BY <1>2, <1>4, <1>5

\* A path without the name stays as it is.
LEMMA ReplaceNothing ==
  ASSUME NEW path \in Seq(Piece), NEW name, NEW value \in Seq(Piece),
         \A i \in 1..Len(path) : path[i] # name
  PROVE  Replace(path, name, value) = path
  <1>1. Parts(path, name, value) = [i \in 1..Len(path) |-> <<path[i]>>]
    BY DEF Parts
  <1>2. QED
    BY <1>1, PartsType, FlattenSingletons

\* The path with its values, piece by piece.
LEMMA FilledAllType ==
  ASSUME NEW path \in Seq(Piece), NEW D \in SUBSET Placeholder,
         NEW values, \A x \in D : values[x] \in Value
  PROVE  /\ Len(path) \in Nat
         /\ FilledAll(path, D, values) \in Seq(Seq(Piece))
         /\ Len(FilledAll(path, D, values)) = Len(path)
         /\ \A i \in 1..Len(path) :
              /\ FilledAll(path, D, values)[i] = Filled(path[i], D, values)
              /\ path[i] \in Piece /\ Filled(path[i], D, values) \in Seq(Piece)
  <1>1. Len(path) \in Nat /\ \A i \in 1..Len(path) : path[i] \in Piece
    OBVIOUS
  <1>2. \A i \in 1..Len(path) : Filled(path[i], D, values) \in Seq(Piece)
    BY <1>1, FilledType
  <1>3. QED
    BY <1>1, <1>2 DEF FilledAll

\* Replacing a name leaves the values that are there, because a quoted value holds no name.
LEMMA ReplaceFilled ==
  ASSUME NEW piece \in Piece, NEW D \in SUBSET Placeholder, NEW x \in Placeholder,
         NEW values, \A y \in D \cup {x} : values[y] \in Value
  PROVE  Replace(Filled(piece, D, values), x, Quote(values[x])) = Filled(piece, D \cup {x}, values)
  <1>1. values[x] \in Value /\ Quote(values[x]) \in Seq(Piece)
    BY QuoteType
  <1>2. CASE piece \in D
    <2>1. values[piece] \in Value
      BY <1>2
    <2>2. /\ Quote(values[piece]) \in Seq(Piece)
          /\ \A i \in 1..Len(Quote(values[piece])) : Quote(values[piece])[i] # x
      BY <2>1, QuoteType, PieceAssumption
    <2>3. Replace(Quote(values[piece]), x, Quote(values[x])) = Quote(values[piece])
      BY <1>1, <2>2, ReplaceNothing
    <2>4. QED
      BY <1>2, <2>3 DEF Filled
  <1>3. CASE piece \notin D
    <2>1. Replace(<<piece>>, x, Quote(values[x])) = IF piece = x THEN Quote(values[x]) ELSE <<piece>>
      BY <1>1, ReplaceOne
    <2>2. QED
      BY <1>3, <2>1 DEF Filled
  <1>4. QED
    BY <1>2, <1>3

\* Replacing one more name in a path that is filled for some fills it for all of them.
LEMMA FillOneMore ==
  ASSUME NEW path \in Seq(Piece), NEW D \in SUBSET Placeholder, NEW x \in Placeholder,
         NEW values, \A y \in D \cup {x} : values[y] \in Value
  PROVE  Replace(FlattenSeq(FilledAll(path, D, values)), x, Quote(values[x]))
           = FlattenSeq(FilledAll(path, D \cup {x}, values))
  <1> DEFINE N == Len(path)
             ss == FilledAll(path, D, values)
             tt == FilledAll(path, D \cup {x}, values)
             w == Quote(values[x])
  <1>1. N \in Nat /\ ss \in Seq(Seq(Piece)) /\ Len(ss) = N
    BY FilledAllType
  <1>2. D \cup {x} \in SUBSET Placeholder /\ w \in Seq(Piece)
    BY QuoteType
  <1>3. tt \in Seq(Seq(Piece)) /\ Len(tt) = N
    BY <1>2, FilledAllType
  <1>4. ASSUME NEW i \in 1..N
        PROVE  ss[i] \in Seq(Piece) /\ tt[i] \in Seq(Piece) /\ Replace(ss[i], x, w) = tt[i]
    <2>1. /\ ss[i] = Filled(path[i], D, values) /\ path[i] \in Piece
          /\ Filled(path[i], D, values) \in Seq(Piece)
      BY FilledAllType
    <2>2. tt[i] = Filled(path[i], D \cup {x}, values) /\ tt[i] \in Seq(Piece)
      BY <1>2, FilledAllType
    <2>3. Replace(Filled(path[i], D, values), x, w) = Filled(path[i], D \cup {x}, values)
      BY <2>1, ReplaceFilled
    <2>4. QED
      BY <2>1, <2>2, <2>3
  <1> HIDE DEF ss, tt, w
  <1>5. PICK f \in [0..N -> Seq(Piece)] : FlattensBy(ss, f) /\ f[N] = FlattenSeq(ss)
    BY <1>1, FlattenPrefixes
  <1>6. PICK g \in [0..N -> Seq(Piece)] : FlattensBy(tt, g) /\ g[N] = FlattenSeq(tt)
    BY <1>3, FlattenPrefixes
  <1> HIDE DEF N
  <1> DEFINE H == {n \in 0..N : Replace(f[n], x, w) = g[n]}
  <1>7. 0 \in H
    <2>1. Replace(<<>>, x, w) = <<>>
      <3>1. <<>> \in Seq(Piece) /\ \A i \in 1..Len(<<>>) : <<>>[i] # x
        OBVIOUS
      <3>2. QED
        BY <1>2, <3>1, ReplaceNothing
    <2>2. f[0] = <<>> /\ g[0] = <<>> /\ 0 \in 0..N
      BY <1>1, <1>5, <1>6 DEF FlattensBy
    <2>3. QED
      BY <2>1, <2>2
  <1>8. ASSUME NEW n \in 1..N, n - 1 \in H PROVE n \in H
    <2>1. f[n] = f[n - 1] \o ss[n] /\ f[n - 1] \in Seq(Piece) /\ ss[n] \in Seq(Piece)
      <3>1. f \in [0..Len(ss) -> Seq(Piece)] /\ n \in 1..Len(ss)
        BY <1>1, <1>5
      <3>2. QED
        BY <1>1, <1>5, <3>1, FlattenStep
    <2>2. g[n] = g[n - 1] \o tt[n] /\ g[n - 1] \in Seq(Piece) /\ tt[n] \in Seq(Piece)
      <3>1. g \in [0..Len(tt) -> Seq(Piece)] /\ n \in 1..Len(tt)
        BY <1>3, <1>6
      <3>2. QED
        BY <1>3, <1>6, <3>1, FlattenStep
    <2>3. Replace(f[n - 1] \o ss[n], x, w) = Replace(f[n - 1], x, w) \o Replace(ss[n], x, w)
      <3>1. \A p, q \in Seq(Piece) : Replace(p \o q, x, w) = Replace(p, x, w) \o Replace(q, x, w)
        BY <1>2, ReplaceConcatAll, Zenon
      <3>2. QED
        BY <1>4, <2>1, <3>1, Zenon
    <2>4. Replace(f[n - 1], x, w) = g[n - 1]
      BY <1>8
    <2>5. Replace(f[n], x, w) = g[n]
      BY <1>4, <2>1, <2>2, <2>3, <2>4, Zenon
    <2>6. n \in 0..N
      BY <1>1
    <2>7. QED
      BY <2>5, <2>6
  <1>9. N \in H
    <2>1. \A n \in 1..N : n - 1 \in H => n \in H
      BY <1>8
    <2>2. \A n \in 0..N : n \in H
      <3> HIDE DEF H
      <3> QED BY <1>1, <1>7, <2>1, BoundedInduction
    <2>3. QED
      BY <1>1, <2>2
  <1>10. QED
    BY <1>5, <1>6, <1>9 DEF ss, tt, w

\* Nothing filled in yet.
LEMMA FilledNothing ==
  ASSUME NEW path \in Seq(Piece), NEW values
  PROVE  FlattenSeq(FilledAll(path, {}, values)) = path
  <1>1. FilledAll(path, {}, values) = [i \in 1..Len(path) |-> <<path[i]>>]
    BY DEF FilledAll, Filled
  <1>2. QED
    BY <1>1, FlattenSingletons

\* An order of the elements of a finite set has all of them.
LEMMA OrderIsComplete ==
  ASSUME NEW P, IsFiniteSet(P), NEW order \in SetToSeqs(P)
  PROVE  /\ Cardinality(P) \in Nat /\ order \in Seq(P) /\ Len(order) = Cardinality(P)
         /\ {order[i] : i \in 1..Len(order)} = P
  <1> DEFINE n == Cardinality(P)
  <1>1. n \in Nat
    BY FS_CardinalityType
  <1>2. order \in [1..n -> P] /\ \A i, j \in 1..n : i # j => order[i] # order[j]
    BY DEF SetToSeqs
  <1>3. order \in Injection(1..n, P)
    BY <1>2 DEF Injection, IsInjective
  <1>4. Cardinality(1..n) = n
    BY <1>1, FS_Interval
  <1>5. order \in Surjection(1..n, P)
    BY <1>3, <1>4, FS_Injection
  <1>6. order \in Seq(P) /\ Len(order) = n
    BY <1>1, <1>2
  <1>7. {order[i] : i \in 1..n} = P
    BY <1>2, <1>5 DEF Surjection
  <1>8. QED
    BY <1>1, <1>6, <1>7

\* The parameters put in one after the other, in any order, are as if put in at once.
LEMMA InterpolatedAtOnce ==
  ASSUME NEW path \in Seq(Piece), NEW P \in SUBSET Placeholder, IsFiniteSet(P),
         NEW values \in [P -> Value], NEW order \in SetToSeqs(P)
  PROVE  Interpolated(path, order, values) = FlattenSeq(FilledAll(path, P, values))
  <1> DEFINE N == Len(order)
             Step(p, n) == Replace(p, order[n], Quote(values[order[n]]))
             After(g) == g = [n \in 0..N |-> IF n = 0 THEN path ELSE Step(g[n - 1], n)]
             D(n) == {order[i] : i \in 1..n}
             f == [n \in 0..N |-> FlattenSeq(FilledAll(path, D(n), values))]
  <1>1. N \in Nat /\ (\A i \in 1..N : order[i] \in P) /\ D(N) = P
    <2>1. order \in Seq(P) /\ Len(order) \in Nat /\ {order[i] : i \in 1..Len(order)} = P
      BY OrderIsComplete
    <2>2. QED
      BY <2>1
  <1>2. f[0] = path
    <2>1. D(0) = {} /\ 0 \in 0..N
      BY <1>1
    <2>2. QED
      BY <2>1, FilledNothing
  <1>3. ASSUME NEW n \in 1..N PROVE f[n] = Step(f[n - 1], n)
    <2>1. order[n] \in Placeholder /\ D(n - 1) \in SUBSET Placeholder
      BY <1>1
    <2>2. \A y \in D(n - 1) \cup {order[n]} : values[y] \in Value
      BY <1>1
    <2>3. D(n - 1) \cup {order[n]} = D(n)
      <3>1. 1..n = (1..(n - 1)) \cup {n}
        BY <1>1
      <3>2. QED
        BY <3>1
    <2>4. n - 1 \in 0..N /\ n \in 0..N
      BY <1>1
    <2> HIDE DEF D
    <2> DEFINE E == D(n - 1)
               x == order[n]
    <2>5. x \in Placeholder /\ E \in SUBSET Placeholder /\ \A y \in E \cup {x} : values[y] \in Value
      BY <2>1, <2>2
    <2> HIDE DEF E, x, f
    <2>6. Replace(FlattenSeq(FilledAll(path, E, values)), x, Quote(values[x]))
            = FlattenSeq(FilledAll(path, E \cup {x}, values))
      BY <2>5, FillOneMore
    <2>7. QED
      BY <2>3, <2>4, <2>6 DEF E, x, f
  <1>4. After(f)
    <2> DEFINE h == [n \in 0..N |-> IF n = 0 THEN path ELSE Step(f[n - 1], n)]
    <2>1. \A n \in 0..N : f[n] = h[n]
      <3> HIDE DEF f, Step
      <3>1. ASSUME NEW n \in 0..N PROVE f[n] = h[n]
        <4>1. CASE n = 0
          BY <1>2, <4>1
        <4>2. CASE n # 0
          <5>1. n \in 1..N
            BY <4>2
          <5>2. QED
            BY <1>3, <4>2, <5>1
        <4>3. QED
          BY <4>1, <4>2
      <3>2. QED
        BY <3>1
    <2>2. f = [n \in 0..N |-> f[n]]
      OBVIOUS
    <2> HIDE DEF f, Step
    <2>3. QED
      BY <2>1, <2>2
  <1>5. ASSUME NEW g, After(g) PROVE g[N] = f[N]
    <2> HIDE DEF f, Step
    <2> DEFINE H == {n \in 0..N : g[n] = f[n]}
    <2>1. 0 \in H
      BY <1>1, <1>2, <1>5
    <2>2. ASSUME NEW n \in 1..N, n - 1 \in H PROVE n \in H
      <3>1. g[n] = Step(g[n - 1], n)
        <4>1. g[n] = IF n = 0 THEN path ELSE Step(g[n - 1], n)
          BY <1>1, <1>5
        <4>2. QED
          BY <4>1
      <3>2. g[n] = f[n]
        BY <1>3, <2>2, <3>1
      <3>3. QED
        BY <1>1, <3>2
    <2>3. \A n \in 0..N : n \in H
      <3>1. \A n \in 1..N : n - 1 \in H => n \in H
        BY <2>2
      <3> HIDE DEF H, N, After
      <3> QED BY <1>1, <2>1, <3>1, BoundedInduction
    <2>4. QED
      BY <1>1, <2>3
  <1>6. Interpolated(path, order, values) = (CHOOSE g : After(g))[N]
    BY DEF Interpolated
  <1>7. After(CHOOSE g : After(g))
    <2> HIDE DEF After
    <2> QED BY <1>4
  <1>8. Interpolated(path, order, values) = f[N]
    <2> HIDE DEF After, f
    <2> QED BY <1>5, <1>6, <1>7
  <1>9. f[N] = FlattenSeq(FilledAll(path, P, values))
    <2>1. N \in 0..N
      BY <1>1
    <2> HIDE DEF D
    <2>2. QED
      BY <1>1, <2>1
  <1>10. QED
    BY <1>8, <1>9

-----------------------------------------------------------------------------
(* Segments of a path.                                                     *)

SeparatorCount(path) == Cardinality(Separators(path))

\* A path has finitely many segments.
LEMMA SeparatorsFinite ==
  ASSUME NEW path \in Seq(Piece)
  PROVE  IsFiniteSet(Separators(path)) /\ SeparatorCount(path) \in Nat
  <1>1. Len(path) \in Nat /\ Separators(path) \in SUBSET (1..Len(path))
    BY DEF Separators
  <1>2. IsFiniteSet(1..Len(path))
    BY <1>1, FS_Interval
  <1>3. IsFiniteSet(Separators(path))
    BY <1>1, <1>2, FS_Subset
  <1>4. QED
    BY <1>3, FS_CardinalityType DEF SeparatorCount

\* The separators of a concatenation are those of its two parts.
LEMMA SeparatorsConcat ==
  ASSUME NEW p \in Seq(Piece), NEW q \in Seq(Piece)
  PROVE  SeparatorCount(p \o q) = SeparatorCount(p) + SeparatorCount(q)
  <1> DEFINE L == Len(p)
             A == Separators(p)
             B == Separators(q)
             C == {L + i : i \in B}
  <1>1. /\ L \in Nat /\ Len(q) \in Nat /\ A \subseteq 1..L /\ B \subseteq 1..Len(q)
        /\ DOMAIN p = 1..L /\ DOMAIN q = 1..Len(q) /\ DOMAIN (p \o q) = 1..(L + Len(q))
    BY DEF Separators
  <1>2. IsFiniteSet(A) /\ IsFiniteSet(B) /\ Cardinality(A) \in Nat /\ Cardinality(B) \in Nat
    BY SeparatorsFinite DEF SeparatorCount
  <1>3. Separators(p \o q) = A \cup C
    <2>1. ASSUME NEW i \in 1..(L + Len(q)) PROVE i \in Separators(p \o q) <=> i \in A \cup C
      <3>1. CASE i <= L
        <4>1. (p \o q)[i] = p[i]
          BY <1>1, <3>1
        <4>2. i \notin C
          <5> HIDE DEF A, B
          <5> QED BY <1>1, <3>1
        <4>3. i \in Separators(p \o q) <=> i \in A
          BY <1>1, <3>1, <4>1 DEF Separators
        <4>4. QED
          BY <4>2, <4>3
      <3>2. CASE i > L
        <4>1. i - L \in 1..Len(q) /\ (p \o q)[i] = q[i - L]
          BY <1>1, <3>2
        <4>2. i \in C <=> i - L \in B
          <5> HIDE DEF A, B
          <5> QED BY <1>1, <3>2
        <4>3. i \notin A
          BY <1>1, <3>2
        <4>4. i \in Separators(p \o q) <=> i - L \in B
          BY <1>1, <4>1 DEF Separators
        <4>5. QED
          BY <4>2, <4>3, <4>4
      <3>3. QED
        BY <1>1, <3>1, <3>2
    <2>2. Separators(p \o q) \subseteq 1..(L + Len(q))
      BY <1>1 DEF Separators
    <2>3. A \cup C \subseteq 1..(L + Len(q))
      <3> HIDE DEF A, B
      <3>1. \A i \in B : L + i \in 1..(L + Len(q))
        BY <1>1
      <3>2. \A i \in A : i \in 1..(L + Len(q))
        BY <1>1
      <3>3. QED
        BY <3>1, <3>2
    <2>4. QED
      BY <2>1, <2>2, <2>3
  <1>4. IsFiniteSet(C) /\ Cardinality(C) = Cardinality(B)
    <2> HIDE DEF A, B
    <2> DEFINE f == [i \in B |-> L + i]
    <2>1. f \in Bijection(B, C)
      BY <1>1 DEF Bijection, Injection, Surjection, IsInjective
    <2>2. ExistsBijection(B, C)
      BY <2>1 DEF ExistsBijection
    <2>3. QED
      BY <1>2, <2>2, FS_Bijection
  <1>5. A \cap C = {}
    <2> HIDE DEF A, B
    <2> QED BY <1>1
  <1>6. Cardinality(A \cup C) = Cardinality(A) + Cardinality(C)
    <2> HIDE DEF A, C
    <2>1. Cardinality(A \cup C) = Cardinality(A) + Cardinality(C) - Cardinality(A \cap C)
      BY <1>2, <1>4, FS_Union
    <2>2. Cardinality(A \cap C) = 0
      BY <1>5, FS_EmptySet
    <2>3. QED
      BY <1>2, <1>4, <2>1, <2>2
  <1>7. QED
    BY <1>3, <1>4, <1>6 DEF SeparatorCount

\* Filling in adds no separator and takes none away.
LEMMA FilledSeparators ==
  ASSUME NEW piece \in Piece, NEW D \in SUBSET Placeholder,
         NEW values, \A x \in D : values[x] \in Value
  PROVE  SeparatorCount(Filled(piece, D, values)) = SeparatorCount(<<piece>>)
  <1>1. CASE piece \in D
    <2>1. Separators(Quote(values[piece])) = {}
      <3>1. /\ DOMAIN Quote(values[piece]) = 1..Len(Quote(values[piece]))
            /\ \A i \in 1..Len(Quote(values[piece])) : Quote(values[piece])[i] \notin Special
        BY <1>1, QuoteType
      <3>2. QED
        BY <3>1, PieceAssumption DEF Separators
    <2>2. Separators(<<piece>>) = {}
      <3>1. piece # <<"/">>
        BY <1>1, PieceAssumption
      <3>2. DOMAIN <<piece>> = {1} /\ <<piece>>[1] = piece
        OBVIOUS
      <3>3. QED
        BY <3>1, <3>2 DEF Separators
    <2>3. QED
      BY <1>1, <2>1, <2>2 DEF Filled, SeparatorCount
  <1>2. CASE piece \notin D
    BY <1>2 DEF Filled
  <1>3. QED
    BY <1>1, <1>2

\* A path has as many separators with its values as without.
LEMMA FilledAllSeparators ==
  ASSUME NEW path \in Seq(Piece), NEW D \in SUBSET Placeholder,
         NEW values, \A x \in D : values[x] \in Value
  PROVE  SeparatorCount(FlattenSeq(FilledAll(path, D, values))) = SeparatorCount(path)
  <1> DEFINE N == Len(path)
             ss == FilledAll(path, D, values)
             tt == [i \in 1..N |-> <<path[i]>>]
  <1>1. N \in Nat /\ ss \in Seq(Seq(Piece)) /\ Len(ss) = N
    BY FilledAllType
  <1>2. tt \in Seq(Seq(Piece)) /\ Len(tt) = N /\ FlattenSeq(tt) = path
    <2>1. N \in Nat /\ \A i \in 1..N : <<path[i]>> \in Seq(Piece)
      OBVIOUS
    <2>2. FlattenSeq(tt) = path
      BY FlattenSingletons
    <2>3. QED
      BY <2>1, <2>2
  <1>3. ASSUME NEW i \in 1..N
        PROVE  SeparatorCount(ss[i]) = SeparatorCount(tt[i])
    <2>1. ss[i] = Filled(path[i], D, values) /\ path[i] \in Piece
      BY FilledAllType
    <2>2. QED
      BY <2>1, FilledSeparators
  <1> HIDE DEF ss, tt
  <1>4. PICK f \in [0..N -> Seq(Piece)] : FlattensBy(ss, f) /\ f[N] = FlattenSeq(ss)
    BY <1>1, FlattenPrefixes
  <1>5. PICK g \in [0..N -> Seq(Piece)] : FlattensBy(tt, g) /\ g[N] = FlattenSeq(tt)
    BY <1>2, FlattenPrefixes
  <1> HIDE DEF N
  <1> DEFINE H == {n \in 0..N : SeparatorCount(f[n]) = SeparatorCount(g[n])}
  <1>6. 0 \in H
    BY <1>1, <1>4, <1>5 DEF FlattensBy
  <1>7. ASSUME NEW n \in 1..N, n - 1 \in H PROVE n \in H
    <2>1. f[n] = f[n - 1] \o ss[n] /\ f[n - 1] \in Seq(Piece) /\ ss[n] \in Seq(Piece)
      <3>1. f \in [0..Len(ss) -> Seq(Piece)] /\ n \in 1..Len(ss)
        BY <1>1, <1>4
      <3>2. QED
        BY <1>1, <1>4, <3>1, FlattenStep
    <2>2. g[n] = g[n - 1] \o tt[n] /\ g[n - 1] \in Seq(Piece) /\ tt[n] \in Seq(Piece)
      <3>1. g \in [0..Len(tt) -> Seq(Piece)] /\ n \in 1..Len(tt)
        BY <1>2, <1>5
      <3>2. QED
        BY <1>2, <1>5, <3>1, FlattenStep
    <2>3. SeparatorCount(f[n - 1] \o ss[n]) = SeparatorCount(f[n - 1]) + SeparatorCount(ss[n])
      BY <2>1, SeparatorsConcat
    <2>4. SeparatorCount(g[n - 1] \o tt[n]) = SeparatorCount(g[n - 1]) + SeparatorCount(tt[n])
      BY <2>2, SeparatorsConcat
    <2>5. SeparatorCount(f[n]) = SeparatorCount(g[n])
      BY <1>3, <1>7, <2>1, <2>2, <2>3, <2>4, Zenon
    <2>6. n \in 0..N
      BY <1>1
    <2>7. QED
      BY <2>5, <2>6
  <1>8. N \in H
    <2>1. \A n \in 1..N : n - 1 \in H => n \in H
      BY <1>7
    <2>2. \A n \in 0..N : n \in H
      <3> HIDE DEF H
      <3> QED BY <1>1, <1>6, <2>1, BoundedInduction
    <2>3. QED
      BY <1>1, <2>2
  <1>9. QED
    BY <1>2, <1>4, <1>5, <1>8 DEF ss

-----------------------------------------------------------------------------
(* Names in a template.                                                    *)

\* The end of the text is none of the characters that are looked for.
LEMMA NoCharIsNone == NoChar # "$" /\ NoChar # "{" /\ NoChar # "}"
  BY Zenon DEF NoChar

\* There is nothing before the first character.
LEMMA AtFront ==
  ASSUME NEW t \in Seq(Char)
  PROVE  At(t, 1 - 1) # "$"
  <1>1. 1 - 1 \notin DOMAIN t
    OBVIOUS
  <1>2. At(t, 1 - 1) = NoChar
    BY <1>1 DEF At
  <1>3. QED
    BY <1>2, NoCharIsNone

\* A character found behind i is within the text.
LEMMA AtNext ==
  ASSUME NEW t \in Seq(Char), NEW i \in 1..Len(t), At(t, i + 1) # NoChar
  PROVE  i + 1 \in 1..Len(t) /\ At(t, i + 1) = t[i + 1] /\ i + 2 \in 1..(Len(t) + 1)
  <1>1. Len(t) \in Nat /\ DOMAIN t = 1..Len(t)
    OBVIOUS
  <1>2. i + 1 \in DOMAIN t /\ At(t, i + 1) = t[i + 1]
    BY DEF At
  <1>3. QED
    BY <1>1, <1>2

\* k ends the name that begins at i.
Ends(t, i, k) ==
  /\ k \in i..(Len(t) + 1)
  /\ At(t, k) \notin Letter
  /\ \A j \in i..(k - 1) : t[j] \in Letter

\* There is only one end of a name.
LEMMA NameEndIs ==
  ASSUME NEW t \in Seq(Char), NEW i \in 1..(Len(t) + 1), NEW k, Ends(t, i, k)
  PROVE  NameEnd(t, i) = k
  <1>1. Len(t) \in Nat /\ DOMAIN t = 1..Len(t)
    OBVIOUS
  <1>2. ASSUME NEW h, Ends(t, i, h) PROVE h = k
    <2>1. h \in Int /\ k \in Int /\ h >= i /\ k >= i /\ h <= Len(t) + 1 /\ k <= Len(t) + 1
      BY <1>1, <1>2 DEF Ends
    <2>2. ~(h < k)
      <3> SUFFICES ASSUME h < k PROVE FALSE
        OBVIOUS
      <3>1. h \in i..(k - 1) /\ h \in DOMAIN t
        BY <1>1, <2>1
      <3>2. At(t, h) = t[h]
        BY <3>1 DEF At
      <3>3. QED
        BY <1>2, <3>1, <3>2 DEF Ends
    <2>3. ~(k < h)
      <3> SUFFICES ASSUME k < h PROVE FALSE
        OBVIOUS
      <3>1. k \in i..(h - 1) /\ k \in DOMAIN t
        BY <1>1, <2>1
      <3>2. At(t, k) = t[k]
        BY <3>1 DEF At
      <3>3. QED
        BY <1>2, <3>1, <3>2 DEF Ends
    <2>4. QED
      BY <2>1, <2>2, <2>3
  <1>3. NameEnd(t, i) = CHOOSE h : Ends(t, i, h)
    <2>1. \A h : Ends(t, i, h) <=> (h \in i..(Len(t) + 1) /\ At(t, h) \notin Letter
                                      /\ \A j \in i..(h - 1) : t[j] \in Letter)
      BY DEF Ends
    <2>2. NameEnd(t, i) \in i..(Len(t) + 1) /\ Ends(t, i, NameEnd(t, i))
      BY <2>1 DEF NameEnd
    <2>3. Ends(t, i, CHOOSE h : Ends(t, i, h))
      OBVIOUS
    <2>4. QED
      BY <1>2, <2>2, <2>3
  <1>4. Ends(t, i, CHOOSE h : Ends(t, i, h))
    OBVIOUS
  <1>5. QED
    BY <1>2, <1>3, <1>4

\* The end of a name is within the text or right behind it.
LEMMA NameEndEnds ==
  ASSUME NEW t \in Seq(Char), NEW i \in 1..(Len(t) + 1)
  PROVE  Ends(t, i, NameEnd(t, i))
  <1> DEFINE T == {k \in i..(Len(t) + 1) : At(t, k) \notin Letter}
  <1>1. Len(t) \in Nat /\ DOMAIN t = 1..Len(t)
    OBVIOUS
  <1>2. Len(t) + 1 \in T
    <2>1. At(t, Len(t) + 1) = NoChar /\ Len(t) + 1 \in i..(Len(t) + 1)
      BY <1>1 DEF At
    <2>2. QED
      BY <2>1, LetterAssumption
  <1>3. T \subseteq Nat /\ T # {}
    BY <1>1, <1>2
  <1>4. PICK k \in T : \A y \in T : k <= y
    <2> HIDE DEF T
    <2> QED BY <1>3, LeastNatural
  <1>5. ASSUME NEW j \in i..(k - 1) PROVE t[j] \in Letter
    <2>1. j \in i..(Len(t) + 1) /\ ~(k <= j) /\ j \in DOMAIN t
      BY <1>1
    <2>2. j \notin T
      BY <1>4, <2>1
    <2>3. At(t, j) \in Letter
      BY <2>1, <2>2
    <2>4. QED
      BY <2>1, <2>3 DEF At
  <1>6. Ends(t, i, k)
    BY <1>5 DEF Ends
  <1>7. NameEnd(t, i) = k
    BY <1>6, NameEndIs
  <1>8. QED
    BY <1>6, <1>7

-----------------------------------------------------------------------------
(* Placeholders.                                                           *)

\* A braced placeholder at i, and one without braces, whose name is text[i + 2 .. e - 1] or
\* text[i + 1 .. e - 1].
Braced(t, i, e) ==
  At(t, i + 1) = "{" /\ Ends(t, i + 2, e) /\ e # i + 2 /\ At(t, e) = "}"
Unbraced(t, i, e) ==
  At(t, i + 1) # "{" /\ Ends(t, i + 1, e) /\ e # i + 1

\* PlaceholderAt takes the braced form where it is one.
LEMMA BracedIs ==
  ASSUME NEW t \in Seq(Char), NEW i \in 1..Len(t), NEW e, Braced(t, i, e)
  PROVE  PlaceholderAt(t, i) = [name |-> SubSeq(t, i + 2, e - 1), next |-> e + 1]
  <1>1. i + 2 \in 1..(Len(t) + 1)
    BY AtNext, NoCharIsNone DEF Braced
  <1>2. NameEnd(t, i + 2) = e
    BY <1>1, NameEndIs DEF Braced
  <1>3. QED
    BY <1>2 DEF PlaceholderAt, Braced

\* PlaceholderAt takes the form without braces where it is one.
LEMMA UnbracedIs ==
  ASSUME NEW t \in Seq(Char), NEW i \in 1..Len(t), NEW e, Unbraced(t, i, e)
  PROVE  PlaceholderAt(t, i) = [name |-> SubSeq(t, i + 1, e - 1), next |-> e]
  <1>1. i + 1 \in 1..(Len(t) + 1)
    OBVIOUS
  <1>2. NameEnd(t, i + 1) = e
    BY <1>1, NameEndIs DEF Unbraced
  <1>3. QED
    BY <1>2 DEF PlaceholderAt, Unbraced

\* A placeholder has one of the two forms.
LEMMA PlaceholderCases ==
  ASSUME NEW t \in Seq(Char), NEW i \in 1..Len(t)
  PROVE  \/ PlaceholderAt(t, i) = NoPlaceholder
         \/ \E e : Braced(t, i, e)
         \/ \E e : Unbraced(t, i, e)
  <1>1. CASE At(t, i + 1) = "{"
    <2>1. i + 2 \in 1..(Len(t) + 1)
      BY <1>1, AtNext, NoCharIsNone
    <2>2. Ends(t, i + 2, NameEnd(t, i + 2))
      BY <2>1, NameEndEnds
    <2>3. PlaceholderAt(t, i) = NoPlaceholder \/ Braced(t, i, NameEnd(t, i + 2))
      BY <1>1, <2>2 DEF PlaceholderAt, Braced
    <2>4. QED
      BY <2>3
  <1>2. CASE At(t, i + 1) # "{"
    <2>1. i + 1 \in 1..(Len(t) + 1)
      OBVIOUS
    <2>2. Ends(t, i + 1, NameEnd(t, i + 1))
      BY <2>1, NameEndEnds
    <2>3. PlaceholderAt(t, i) = NoPlaceholder \/ Unbraced(t, i, NameEnd(t, i + 1))
      BY <1>2, <2>2 DEF PlaceholderAt, Unbraced
    <2>4. QED
      BY <2>3
  <1>3. QED
    BY <1>1, <1>2

\* The text of a placeholder has no "$" after its first character, and its name is not empty.
LEMMA BracedText ==
  ASSUME NEW t \in Seq(Char), NEW i \in 1..Len(t), NEW e, Braced(t, i, e)
  PROVE  /\ e \in (i + 3)..Len(t) /\ t[i + 1] = "{" /\ t[e] = "}"
         /\ \A j \in (i + 2)..(e - 1) : t[j] \in Letter
         /\ \A j \in (i + 1)..e : t[j] # "$"
  <1>1. i + 1 \in 1..Len(t) /\ t[i + 1] = "{"
    BY AtNext, NoCharIsNone DEF Braced
  <1>2. Len(t) \in Nat /\ DOMAIN t = 1..Len(t) /\ i \in Nat
    OBVIOUS
  <1>3. t[e] = "}" /\ e \in DOMAIN t
    <2>1. At(t, e) = "}"
      BY DEF Braced
    <2>2. QED
      BY <2>1, NoCharIsNone DEF At
  <1>4. \A j \in (i + 2)..(e - 1) : t[j] \in Letter
    BY DEF Braced, Ends
  <1>5. e \in (i + 3)..Len(t)
    <2>1. e \in (i + 2)..(Len(t) + 1) /\ e # i + 2
      BY DEF Braced, Ends
    <2>2. e \in 1..Len(t)
      BY <1>2, <1>3
    <2>3. QED
      BY <1>2, <2>1, <2>2
  <1>6. ASSUME NEW j \in (i + 1)..e PROVE t[j] # "$"
    <2>1. j = i + 1 \/ j = e \/ j \in (i + 2)..(e - 1)
      BY <1>5
    <2>2. QED
      BY <1>1, <1>3, <1>4, <2>1, LetterAssumption
  <1>7. QED
    BY <1>1, <1>3, <1>4, <1>5, <1>6

\* The same without braces; behind the name there is no letter.
LEMMA UnbracedText ==
  ASSUME NEW t \in Seq(Char), NEW i \in 1..Len(t), NEW e, Unbraced(t, i, e)
  PROVE  /\ e \in (i + 2)..(Len(t) + 1) /\ At(t, e) \notin Letter
         /\ \A j \in (i + 1)..(e - 1) : t[j] \in Letter
         /\ \A j \in (i + 1)..(e - 1) : t[j] # "$"
  <1>1. e \in (i + 1)..(Len(t) + 1) /\ e # i + 1 /\ At(t, e) \notin Letter
    BY DEF Unbraced, Ends
  <1>2. e \in (i + 2)..(Len(t) + 1)
    BY <1>1
  <1>3. \A j \in (i + 1)..(e - 1) : t[j] \in Letter
    BY DEF Unbraced, Ends
  <1>4. QED
    BY <1>1, <1>2, <1>3, LetterAssumption

\* The name of a placeholder depends on no more than its own text and, without braces, on
\* the name's being over.
Alike(s, t, j, i, b, n) ==
  /\ j \in Nat /\ i \in Nat /\ b \in Nat /\ n \in Nat /\ 1 <= b /\ b <= n
  /\ j + n - 1 <= Len(s) /\ i + n - 1 <= Len(t)
  /\ \A a \in b..(n - 1) : s[j + a] = t[i + a]

Slice(t, i, b, n) == SubSeq(t, i + b, (i + n) - 1)

\* Texts that are alike have the same names in the same place.
LEMMA SameText ==
  ASSUME NEW s \in Seq(Char), NEW t \in Seq(Char), NEW j, NEW i, NEW b, NEW n,
         Alike(s, t, j, i, b, n)
  PROVE  Slice(s, j, b, n) = Slice(t, i, b, n)
  <1> USE DEF Alike
  <1>1. Len(s) \in Nat /\ Len(t) \in Nat /\ \A k \in 1..Len(s) : s[k] \in Char
    OBVIOUS
  <1>2. \A k \in 1..Len(t) : t[k] \in Char
    OBVIOUS
  <1> DEFINE x == SubSeq(s, j + b, (j + n) - 1)
             y == SubSeq(t, i + b, (i + n) - 1)
  <1>3. /\ x \in Seq(Char) /\ Len(x) = n - b
        /\ \A k \in 1..(n - b) : x[k] = s[(j + b) + k - 1]
    <2>1. j + b \in Int /\ (j + n) - 1 \in Int
      OBVIOUS
    <2>2. \A k \in (j + b)..((j + n) - 1) : s[k] \in Char
      BY <1>1
    <2>3. /\ x \in Seq(Char)
          /\ Len(x) = IF j + b <= (j + n) - 1 THEN (j + n) - 1 - (j + b) + 1 ELSE 0
          /\ \A k \in 1..((j + n) - 1 - (j + b) + 1) : x[k] = s[(j + b) + k - 1]
      BY <2>1, <2>2, SubSeqProperties
    <2> HIDE DEF x
    <2>4. (j + n) - 1 - (j + b) + 1 = n - b
      OBVIOUS
    <2>5. QED
      BY <2>3, <2>4
  <1>4. /\ y \in Seq(Char) /\ Len(y) = n - b
        /\ \A k \in 1..(n - b) : y[k] = t[(i + b) + k - 1]
    <2>1. i + b \in Int /\ (i + n) - 1 \in Int
      OBVIOUS
    <2>2. \A k \in (i + b)..((i + n) - 1) : t[k] \in Char
      BY <1>1, <1>2
    <2>3. /\ y \in Seq(Char)
          /\ Len(y) = IF i + b <= (i + n) - 1 THEN (i + n) - 1 - (i + b) + 1 ELSE 0
          /\ \A k \in 1..((i + n) - 1 - (i + b) + 1) : y[k] = t[(i + b) + k - 1]
      BY <2>1, <2>2, SubSeqProperties
    <2> HIDE DEF x, y
    <2>4. (i + n) - 1 - (i + b) + 1 = n - b
      OBVIOUS
    <2>5. Len(y) = n - b
      BY <2>3, <2>4
    <2>6. \A k \in 1..(n - b) : y[k] = t[(i + b) + k - 1]
      BY <2>3, <2>4
    <2>7. QED
      BY <2>3, <2>5, <2>6
  <1>5. ASSUME NEW k \in 1..(n - b) PROVE x[k] = y[k]
    <2>1. b + k - 1 \in b..(n - 1) /\ (j + b) + k - 1 = j + (b + k - 1)
      OBVIOUS
    <2>2. (i + b) + k - 1 = i + (b + k - 1)
      OBVIOUS
    <2> HIDE DEF x, y
    <2>3. QED
      BY <1>3, <1>4, <2>1, <2>2
  <1> HIDE DEF x, y
  <1>6. x = y
    BY <1>3, <1>4, <1>5, SeqEqual
  <1>7. QED
    BY <1>6 DEF x, y, Slice

\* A name of one letter or more is not empty.
LEMMA SubSeqNotEmpty ==
  ASSUME NEW t \in Seq(Char), NEW a \in Nat, NEW b \in Nat, 1 <= a, a <= b, b <= Len(t)
  PROVE  SubSeq(t, a, b) # <<>>
  <1>1. Len(SubSeq(t, a, b)) = b - a + 1
    OBVIOUS
  <1>2. QED
    BY <1>1

\* A braced placeholder in a text that is alike as far as the brace.
LEMMA SameBraced ==
  ASSUME NEW s \in Seq(Char), NEW t \in Seq(Char), NEW j \in 1..Len(s), NEW i \in 1..Len(t),
         NEW e, Braced(t, i, e), j + (e - i) <= Len(s),
         \A a \in 1..(e - i) : s[j + a] = t[i + a]
  PROVE  PlaceholderAt(s, j).name = PlaceholderAt(t, i).name /\ PlaceholderAt(t, i).name # <<>>
  <1> DEFINE n == e - i
             d == j + n
  <1>1. /\ e \in (i + 3)..Len(t) /\ t[i + 1] = "{" /\ t[e] = "}"
        /\ \A k \in (i + 2)..(e - 1) : t[k] \in Letter
        /\ \A k \in (i + 1)..e : t[k] # "$"
    BY BracedText
  <1>e. e \in (i + 3)..Len(t)
    BY <1>1
  <1>2. /\ Len(s) \in Nat /\ Len(t) \in Nat /\ i \in Nat /\ j \in Nat /\ n \in Nat /\ n >= 3
        /\ d \in Nat /\ d <= Len(s) /\ d >= j + 3 /\ i + n = e /\ DOMAIN s = 1..Len(s)
    <2>1. Len(s) \in Nat /\ Len(t) \in Nat /\ i \in Nat /\ j \in Nat /\ DOMAIN s = 1..Len(s)
      OBVIOUS
    <2>2. e \in Int /\ e >= i + 3
      BY <1>e, <2>1
    <2>3. n \in Nat /\ n >= 3 /\ i + n = e
      BY <2>1, <2>2
    <2>4. d \in Nat /\ d <= Len(s) /\ d >= j + 3
      BY <2>1, <2>3
    <2>5. QED
      BY <2>1, <2>3, <2>4
  <1>3. s[j + 1] = "{" /\ s[d] = "}"
    <2>1. 1 \in 1..n /\ n \in 1..n
      BY <1>2
    <2>2. s[j + 1] = t[i + 1] /\ s[j + n] = t[i + n]
      <3> HIDE DEF n
      <3>1. \A a \in 1..n : s[j + a] = t[i + a]
        BY DEF n
      <3>2. QED
        BY <2>1, <3>1, Zenon
    <2>3. QED
      BY <1>1, <1>2, <2>2
  <1>4. \A k \in (j + 2)..(d - 1) : s[k] \in Letter
    <2> SUFFICES ASSUME NEW k \in (j + 2)..(d - 1) PROVE s[k] \in Letter
      OBVIOUS
    <2>1. k - j \in 1..n /\ j + (k - j) = k /\ i + (k - j) \in (i + 2)..(e - 1)
      BY <1>2
    <2>2. s[j + (k - j)] = t[i + (k - j)]
      BY <2>1
    <2>3. QED
      BY <1>1, <2>1, <2>2
  <1> HIDE DEF n, d
  <1>5. At(s, j + 1) = "{" /\ At(s, d) = "}"
    <2>1. j + 1 \in DOMAIN s /\ d \in DOMAIN s
      BY <1>2
    <2>2. QED
      BY <1>3, <2>1 DEF At
  <1>6. Braced(s, j, d)
    <2>1. d \in (j + 2)..(Len(s) + 1) /\ d # j + 2
      BY <1>2
    <2>2. QED
      BY <1>4, <1>5, <2>1, LetterAssumption DEF Braced, Ends
  <1>7. PlaceholderAt(s, j).name = SubSeq(s, j + 2, d - 1)
    BY <1>6, BracedIs
  <1>8. PlaceholderAt(t, i).name = SubSeq(t, i + 2, e - 1)
    BY BracedIs
  <1>9. SubSeq(s, j + 2, (j + n) - 1) = SubSeq(t, i + 2, (i + n) - 1)
    <2>1. 2 <= n /\ j + n - 1 <= Len(s) /\ i + n - 1 <= Len(t)
      BY <1>e, <1>2 DEF d
    <2>2. \A a \in 2..(n - 1) : s[j + a] = t[i + a]
      BY <1>2 DEF n
    <2>3. Alike(s, t, j, i, 2, n)
      BY <1>2, <2>1, <2>2 DEF Alike
    <2>4. Slice(s, j, 2, n) = Slice(t, i, 2, n)
      BY <2>3, SameText
    <2>5. QED
      BY <2>4 DEF Slice
  <1>10. SubSeq(t, i + 2, e - 1) # <<>>
    <2>1. i + 2 \in Nat /\ e - 1 \in Nat /\ 1 <= i + 2 /\ i + 2 <= e - 1 /\ e - 1 <= Len(t)
      BY <1>e, <1>2
    <2>2. QED
      BY <2>1, SubSeqNotEmpty
  <1>11. QED
    BY <1>2, <1>7, <1>8, <1>9, <1>10 DEF d

\* One without braces in a text that is alike as far as the end of the name.
LEMMA SameUnbraced ==
  ASSUME NEW s \in Seq(Char), NEW t \in Seq(Char), NEW j \in 1..Len(s), NEW i \in 1..Len(t),
         NEW e, Unbraced(t, i, e), j + (e - i) <= Len(s) + 1,
         \A a \in 1..(e - i - 1) : s[j + a] = t[i + a], At(s, j + (e - i)) \notin Letter
  PROVE  PlaceholderAt(s, j).name = PlaceholderAt(t, i).name /\ PlaceholderAt(t, i).name # <<>>
  <1> DEFINE n == e - i
             d == j + n
  <1>1. /\ e \in (i + 2)..(Len(t) + 1)
        /\ \A k \in (i + 1)..(e - 1) : t[k] \in Letter
    <2>1. /\ e \in (i + 2)..(Len(t) + 1) /\ At(t, e) \notin Letter
          /\ \A k \in (i + 1)..(e - 1) : t[k] \in Letter
          /\ \A k \in (i + 1)..(e - 1) : t[k] # "$"
      BY UnbracedText
    <2>2. QED
      BY <2>1
  <1>2. /\ Len(s) \in Nat /\ Len(t) \in Nat /\ i \in Nat /\ j \in Nat /\ n \in Nat /\ n >= 2
        /\ d \in Nat /\ d <= Len(s) + 1 /\ d >= j + 2 /\ i + n = e /\ DOMAIN s = 1..Len(s)
    BY <1>1
  <1>3. \A k \in (j + 1)..(d - 1) : s[k] \in Letter
    <2> SUFFICES ASSUME NEW k \in (j + 1)..(d - 1) PROVE s[k] \in Letter
      OBVIOUS
    <2>1. k - j \in 1..(n - 1) /\ j + (k - j) = k /\ i + (k - j) \in (i + 1)..(e - 1)
      BY <1>2
    <2>2. s[j + (k - j)] = t[i + (k - j)]
      BY <2>1
    <2>3. QED
      BY <1>1, <2>1, <2>2
  <1>4. At(s, d) \notin Letter
    OBVIOUS
  <1> HIDE DEF n, d
  <1>5. At(s, j + 1) # "{"
    <2>1. j + 1 \in DOMAIN s /\ j + 1 \in (j + 1)..(d - 1)
      BY <1>2
    <2>2. s[j + 1] \in Letter
      BY <1>3, <2>1
    <2>3. QED
      BY <2>1, <2>2, LetterAssumption DEF At
  <1>6. Unbraced(s, j, d)
    <2>1. d \in (j + 1)..(Len(s) + 1) /\ d # j + 1
      BY <1>2
    <2>2. QED
      BY <1>3, <1>4, <1>5, <2>1 DEF Unbraced, Ends
  <1>7. PlaceholderAt(s, j).name = SubSeq(s, j + 1, d - 1)
    BY <1>6, UnbracedIs
  <1>8. PlaceholderAt(t, i).name = SubSeq(t, i + 1, e - 1)
    BY UnbracedIs
  <1>9. SubSeq(s, j + 1, (j + n) - 1) = SubSeq(t, i + 1, (i + n) - 1)
    <2>1. 1 <= n /\ j + n - 1 <= Len(s) /\ i + n - 1 <= Len(t)
      BY <1>1, <1>2 DEF d
    <2>2. \A a \in 1..(n - 1) : s[j + a] = t[i + a]
      BY <1>2 DEF n
    <2>3. Alike(s, t, j, i, 1, n)
      BY <1>2, <2>1, <2>2 DEF Alike
    <2>4. Slice(s, j, 1, n) = Slice(t, i, 1, n)
      BY <2>3, SameText
    <2>5. QED
      BY <2>4 DEF Slice
  <1>10. SubSeq(t, i + 1, e - 1) # <<>>
    <2>1. i + 1 \in Nat /\ e - 1 \in Nat /\ 1 <= i + 1 /\ i + 1 <= e - 1 /\ e - 1 <= Len(t)
      BY <1>1, <1>2
    <2>2. QED
      BY <2>1, SubSeqNotEmpty
  <1>11. QED
    BY <1>2, <1>7, <1>8, <1>9, <1>10 DEF d

\* What follows s[j] is what follows t[i].
SameRest(s, j, t, i) ==
  /\ s \in Seq(Char) /\ t \in Seq(Char) /\ j \in 1..Len(s) /\ i \in 1..Len(t)
  /\ Len(s) - j = Len(t) - i
  /\ \A a \in 1..(Len(t) - i) : s[j + a] = t[i + a]

\* To have the same rest is symmetric.
LEMMA SameRestSymmetric ==
  ASSUME NEW s, NEW j, NEW t, NEW i, SameRest(s, j, t, i)
  PROVE  SameRest(t, i, s, j)
  BY DEF SameRest

\* What follows a "$" decides on its placeholder.
LEMMA SameRestPlaceholder ==
  ASSUME NEW s, NEW j, NEW t, NEW i, SameRest(s, j, t, i),
         NEW e, Braced(t, i, e) \/ Unbraced(t, i, e)
  PROVE  PlaceholderAt(s, j).name = PlaceholderAt(t, i).name /\ PlaceholderAt(t, i).name # <<>>
  <1>1. /\ s \in Seq(Char) /\ t \in Seq(Char) /\ j \in 1..Len(s) /\ i \in 1..Len(t)
        /\ Len(s) \in Nat /\ Len(t) \in Nat /\ Len(s) - j = Len(t) - i
        /\ \A a \in 1..(Len(t) - i) : s[j + a] = t[i + a]
    BY DEF SameRest
  <1>a. i \in Int /\ j \in Int /\ Len(s) \in Int /\ Len(t) \in Int /\ Len(s) = Len(t) - i + j
    BY <1>1
  <1>2. CASE Braced(t, i, e)
    <2>1. e \in (i + 3)..Len(t)
      BY <1>1, <1>2, BracedText
    <2>2. j + (e - i) <= Len(s) /\ \A a \in 1..(e - i) : s[j + a] = t[i + a]
      <3>1. e \in Int /\ e <= Len(t)
        BY <1>a, <2>1
      <3>2. j + (e - i) <= Len(s) /\ \A a \in 1..(e - i) : a \in 1..(Len(t) - i)
        BY <1>a, <3>1
      <3>3. QED
        BY <1>1, <3>2
    <2>3. QED
      BY <1>1, <1>2, <2>2, SameBraced
  <1>3. CASE Unbraced(t, i, e)
    <2>1. e \in (i + 2)..(Len(t) + 1) /\ At(t, e) \notin Letter
      BY <1>1, <1>3, UnbracedText
    <2>2. j + (e - i) <= Len(s) + 1 /\ \A a \in 1..(e - i - 1) : s[j + a] = t[i + a]
      <3>1. e \in Int /\ e <= Len(t) + 1
        BY <1>a, <2>1
      <3>2. j + (e - i) <= Len(s) + 1 /\ \A a \in 1..(e - i - 1) : a \in 1..(Len(t) - i)
        BY <1>a, <3>1
      <3>3. QED
        BY <1>1, <3>2
    <2>3. At(s, j + (e - i)) = At(t, e)
      <3>1. DOMAIN s = 1..Len(s) /\ DOMAIN t = 1..Len(t)
        BY <1>1
      <3>2. CASE e <= Len(t)
        <4>1. e - i \in 1..(Len(t) - i) /\ i + (e - i) = e
          BY <1>1, <2>1, <3>2
        <4>2. s[j + (e - i)] = t[e]
          BY <1>1, <4>1
        <4>3. j + (e - i) \in DOMAIN s /\ e \in DOMAIN t
          BY <1>1, <2>1, <3>1, <3>2
        <4>4. QED
          BY <4>2, <4>3 DEF At
      <3>3. CASE ~(e <= Len(t))
        <4>1. j + (e - i) \notin DOMAIN s /\ e \notin DOMAIN t
          BY <1>1, <2>1, <3>1, <3>3
        <4>2. QED
          BY <4>1 DEF At
      <3>4. QED
        BY <3>2, <3>3
    <2>4. QED
      BY <1>1, <1>3, <2>1, <2>2, <2>3, SameUnbraced
  <1>4. QED
    BY <1>2, <1>3

\* What follows a "$" decides on its name.
LEMMA SameRestName ==
  ASSUME NEW s, NEW j, NEW t, NEW i, SameRest(s, j, t, i)
  PROVE  PlaceholderAt(s, j).name = PlaceholderAt(t, i).name
  <1>1. s \in Seq(Char) /\ t \in Seq(Char) /\ j \in 1..Len(s) /\ i \in 1..Len(t)
    BY DEF SameRest
  <1>2. \/ PlaceholderAt(t, i) = NoPlaceholder
        \/ \E e : Braced(t, i, e) \/ Unbraced(t, i, e)
    BY <1>1, PlaceholderCases
  <1>3. \/ PlaceholderAt(s, j) = NoPlaceholder
        \/ \E e : Braced(s, j, e) \/ Unbraced(s, j, e)
    BY <1>1, PlaceholderCases
  <1>4. CASE \E e : Braced(t, i, e) \/ Unbraced(t, i, e)
    BY <1>4, SameRestPlaceholder
  <1>5. CASE \E e : Braced(s, j, e) \/ Unbraced(s, j, e)
    BY <1>5, SameRestPlaceholder, SameRestSymmetric
  <1>6. CASE PlaceholderAt(t, i) = NoPlaceholder /\ PlaceholderAt(s, j) = NoPlaceholder
    BY <1>6
  <1>7. QED
    BY <1>2, <1>3, <1>4, <1>5, <1>6

-----------------------------------------------------------------------------
(* The validator's scan.                                                   *)

Scan(s) == {PlaceholderAt(s, i).name : i \in {k \in DOMAIN s : s[k] = "$"}} \ {<<>>}

\* The scan of a text is that of its tail and the name at its head.
LEMMA ScanStep ==
  ASSUME NEW c \in Char, NEW r \in Seq(Char)
  PROVE  Scan(<<c>> \o r) =
           Scan(r) \cup IF c = "$" THEN {PlaceholderAt(<<c>> \o r, 1).name} \ {<<>>} ELSE {}
  <1>1. \E s : s = <<c>> \o r
    OBVIOUS
  <1>2. PICK s : s = <<c>> \o r
    BY <1>1
  <1>3. /\ s \in Seq(Char) /\ Len(r) \in Nat /\ Len(s) = Len(r) + 1 /\ s[1] = c
        /\ DOMAIN s = 1..(Len(r) + 1) /\ DOMAIN r = 1..Len(r)
    BY <1>2
  <1>4. \A k \in 1..Len(r) : s[k + 1] = r[k]
    BY <1>2
  <1>5. ASSUME NEW k \in 1..Len(r)
        PROVE  PlaceholderAt(s, k + 1).name = PlaceholderAt(r, k).name
    <2>1. k + 1 \in 1..Len(s) /\ Len(s) - (k + 1) = Len(r) - k
      BY <1>3
    <2>2. \A a \in 1..(Len(r) - k) : s[(k + 1) + a] = r[k + a]
      <3> SUFFICES ASSUME NEW a \in 1..(Len(r) - k) PROVE s[(k + 1) + a] = r[k + a]
        OBVIOUS
      <3>1. k + a \in 1..Len(r) /\ (k + a) + 1 = (k + 1) + a
        BY <1>3
      <3>2. s[(k + a) + 1] = r[k + a]
        BY <1>4, <3>1
      <3>3. QED
        BY <3>1, <3>2
    <2>3. SameRest(s, k + 1, r, k)
      BY <1>3, <2>1, <2>2 DEF SameRest
    <2>4. QED
      BY <2>3, SameRestName
  <1> DEFINE X == IF c = "$" THEN {PlaceholderAt(s, 1).name} \ {<<>>} ELSE {}
  <1>6. ASSUME NEW x \in Scan(s) PROVE x \in Scan(r) \cup X
    <2>1. PICK i \in 1..(Len(r) + 1) : s[i] = "$" /\ x = PlaceholderAt(s, i).name /\ x # <<>>
      BY <1>3 DEF Scan
    <2>2. CASE i = 1
      BY <1>3, <2>1, <2>2
    <2>3. CASE i # 1
      <3>1. i - 1 \in 1..Len(r) /\ (i - 1) + 1 = i
        BY <1>3, <2>3
      <3>2. r[i - 1] = "$" /\ x = PlaceholderAt(r, i - 1).name
        <4>1. s[(i - 1) + 1] = r[i - 1]
          BY <1>4, <3>1
        <4>2. PlaceholderAt(s, (i - 1) + 1).name = PlaceholderAt(r, i - 1).name
          BY <1>5, <3>1
        <4>3. QED
          BY <2>1, <3>1, <4>1, <4>2
      <3>3. QED
        BY <1>3, <2>1, <3>1, <3>2 DEF Scan
    <2>4. QED
      BY <2>2, <2>3
  <1>7. ASSUME NEW x \in Scan(r) PROVE x \in Scan(s)
    <2>1. PICK i \in 1..Len(r) : r[i] = "$" /\ x = PlaceholderAt(r, i).name /\ x # <<>>
      BY <1>3 DEF Scan
    <2>2. i + 1 \in DOMAIN s /\ s[i + 1] = "$" /\ x = PlaceholderAt(s, i + 1).name
      <3>1. i + 1 \in DOMAIN s
        BY <1>3
      <3>2. s[i + 1] = r[i]
        BY <1>4
      <3>3. PlaceholderAt(s, i + 1).name = PlaceholderAt(r, i).name
        BY <1>5
      <3>4. QED
        BY <2>1, <3>1, <3>2, <3>3
    <2>3. QED
      BY <2>1, <2>2 DEF Scan
  <1>8. ASSUME NEW x \in X PROVE x \in Scan(s)
    <2>1. c = "$" /\ x = PlaceholderAt(s, 1).name /\ x # <<>>
      OBVIOUS
    <2>2. 1 \in DOMAIN s /\ s[1] = c
      BY <1>3
    <2>3. QED
      BY <2>1, <2>2 DEF Scan
  <1>9. Scan(s) = Scan(r) \cup X
    <2> HIDE DEF X
    <2> QED BY <1>6, <1>7, <1>8
  <1>10. QED
    BY <1>2, <1>9

-----------------------------------------------------------------------------
(* The text without its escapes, and what string.Template finds: from each *)
(* place on.                                                               *)

UnescapeFrom(t, w, i) ==
  IF i > Len(t) THEN <<>>
  ELSE IF t[i] = "$" /\ At(t, i + 1) = "$" THEN w[i + 2]
  ELSE <<t[i]>> \o w[i + 1]

Unescapes(t, w) == \A i \in 1..(Len(t) + 1) : w[i] \in Seq(Char) /\ w[i] = UnescapeFrom(t, w, i)

\* What is left of a text without its escapes is a text.
LEMMA UnescapeFromType ==
  ASSUME NEW t \in Seq(Char), NEW i \in 1..(Len(t) + 1), NEW w,
         \A j \in (i + 1)..(Len(t) + 1) : w[j] \in Seq(Char)
  PROVE  UnescapeFrom(t, w, i) \in Seq(Char)
  <1>1. Len(t) \in Nat
    OBVIOUS
  <1>2. CASE i > Len(t)
    BY <1>2 DEF UnescapeFrom
  <1>3. CASE ~(i > Len(t)) /\ t[i] = "$" /\ At(t, i + 1) = "$"
    <2>1. i + 2 \in 1..(Len(t) + 1)
      <3>1. i \in 1..Len(t)
        BY <1>1, <1>3
      <3>2. QED
        BY <1>3, <3>1, AtNext, NoCharIsNone
    <2>2. w[i + 2] \in Seq(Char)
      BY <1>1, <2>1
    <2>3. QED
      BY <1>3, <2>2 DEF UnescapeFrom
  <1>4. CASE ~(i > Len(t)) /\ ~(t[i] = "$" /\ At(t, i + 1) = "$")
    <2>1. i \in 1..Len(t) /\ i + 1 \in (i + 1)..(Len(t) + 1)
      BY <1>1, <1>4
    <2>2. t[i] \in Char /\ w[i + 1] \in Seq(Char)
      BY <2>1
    <2>3. <<t[i]>> \o w[i + 1] \in Seq(Char)
      BY <2>2
    <2>4. QED
      BY <1>4, <2>3 DEF UnescapeFrom
  <1>5. QED
    BY <1>2, <1>3, <1>4

\* UnescapeFrom looks at no place before the next.
LEMMA UnescapeFromLocal ==
  ASSUME NEW t \in Seq(Char), NEW i \in 1..(Len(t) + 1), NEW w, NEW v,
         \A j \in (i + 1)..(Len(t) + 1) : w[j] = v[j]
  PROVE  UnescapeFrom(t, w, i) = UnescapeFrom(t, v, i)
  <1>1. Len(t) \in Nat
    OBVIOUS
  <1>2. CASE i > Len(t)
    BY <1>2 DEF UnescapeFrom
  <1>3. CASE ~(i > Len(t)) /\ t[i] = "$" /\ At(t, i + 1) = "$"
    <2>1. i + 2 \in 1..(Len(t) + 1)
      <3>1. i \in 1..Len(t)
        BY <1>1, <1>3
      <3>2. QED
        BY <1>3, <3>1, AtNext, NoCharIsNone
    <2>2. w[i + 2] = v[i + 2]
      BY <1>1, <2>1
    <2>3. QED
      BY <1>3, <2>2 DEF UnescapeFrom
  <1>4. CASE ~(i > Len(t)) /\ ~(t[i] = "$" /\ At(t, i + 1) = "$")
    <2>1. i \in 1..Len(t) /\ i + 1 \in (i + 1)..(Len(t) + 1)
      BY <1>1, <1>4
    <2>2. w[i + 1] = v[i + 1]
      BY <2>1
    <2>3. QED
      BY <1>4, <2>2 DEF UnescapeFrom
  <1>5. QED
    BY <1>2, <1>3, <1>4

\* WithoutEscapes is the value at the first place of a function that recurs from the end.
LEMMA UnescapeExists ==
  ASSUME NEW t \in Seq(Char)
  PROVE  \E w : Unescapes(t, w) /\ w[1] = WithoutEscapes(t)
  <1> DEFINE M == Len(t) + 1
             V == Seq(Char)
             b == [p \in [1..M -> V] \X (1..M) |-> UnescapeFrom(t, p[1], p[2])]
             Fixed(g) == g = [i \in 1..M |-> UnescapeFrom(t, g, i)]
  <1>1. M \in Nat /\ Len(t) \in Nat /\ 1 \in 1..M
    OBVIOUS
  <1>2. ASSUME NEW f \in [1..M -> V], NEW i \in 1..M PROVE UnescapeFrom(t, f, i) \in V
    <2>1. \A j \in (i + 1)..M : f[j] \in V
      BY <1>1
    <2>2. QED
      BY <2>1, UnescapeFromType
  <1>3. b \in [[1..M -> V] \X (1..M) -> V]
    <2>1. ASSUME NEW p \in [1..M -> V] \X (1..M) PROVE UnescapeFrom(t, p[1], p[2]) \in V
      <3>1. p[1] \in [1..M -> V] /\ p[2] \in 1..M
        OBVIOUS
      <3> HIDE DEF M, V
      <3>2. QED
        BY <1>2, <3>1
    <2> HIDE DEF M, V
    <2>2. QED
      BY <2>1
  <1>4. ASSUME NEW f \in [1..M -> V], NEW g \in [1..M -> V], NEW i \in 1..M,
               \A j \in (i + 1)..M : f[j] = g[j]
        PROVE  b[<<f, i>>] = b[<<g, i>>]
    <2>1. UnescapeFrom(t, f, i) = UnescapeFrom(t, g, i)
      BY <1>4, UnescapeFromLocal
    <2>2. <<f, i>> \in [1..M -> V] \X (1..M) /\ <<g, i>> \in [1..M -> V] \X (1..M)
      OBVIOUS
    <2> HIDE DEF M, V
    <2>3. b[<<f, i>>] = UnescapeFrom(t, f, i) /\ b[<<g, i>>] = UnescapeFrom(t, g, i)
      BY <2>2
    <2>4. QED
      BY <2>1, <2>3
  <1>5. \E v : v \in V
    <2>1. <<>> \in V
      OBVIOUS
    <2>2. QED
      BY <2>1
  <1>6. PICK f \in [1..M -> V] : \A i \in 1..M : f[i] = b[<<f, i>>]
    <2>1. \A f, g \in [1..M -> V] : \A i \in 1..M :
            (\A j \in (i + 1)..M : f[j] = g[j]) => b[<<f, i>>] = b[<<g, i>>]
      BY <1>4
    <2> HIDE DEF M, V, b
    <2>2. FixedPoints(M, V, b) # {}
      BY <1>1, <1>3, <1>5, <2>1, DownwardRecursion
    <2>3. QED
      BY <2>2 DEF FixedPoints
  <1>7. Fixed(f)
    <2> HIDE DEF M, V
    <2>1. ASSUME NEW i \in 1..M PROVE f[i] = UnescapeFrom(t, f, i)
      <3>1. <<f, i>> \in [1..M -> V] \X (1..M)
        OBVIOUS
      <3>2. QED
        BY <1>6, <3>1
    <2>2. f = [i \in 1..M |-> f[i]]
      OBVIOUS
    <2>3. QED
      BY <2>1, <2>2
  <1> DEFINE w == CHOOSE g : Fixed(g)
  <1>8. Fixed(w)
    <2> HIDE DEF Fixed
    <2> QED BY <1>7
  <1>9. w[1] = WithoutEscapes(t)
    BY DEF WithoutEscapes, UnescapeFrom
  <1> HIDE DEF w
  <1>10. \A i \in 1..M : w[i] = UnescapeFrom(t, w, i)
    <2> HIDE DEF M
    <2> QED BY <1>8
  <1>11. \A i \in 1..M : w[i] \in V
    <2> DEFINE H == {i \in 1..M : w[i] \in V}
    <2>1. ASSUME NEW i \in 1..M, \A j \in (i + 1)..M : j \in H PROVE i \in H
      <3>1. \A j \in (i + 1)..M : w[j] \in V
        BY <2>1
      <3>2. UnescapeFrom(t, w, i) \in V
        BY <3>1, UnescapeFromType
      <3>3. QED
        BY <1>10, <3>2
    <2>2. \A i \in 1..M : i \in H
      <3>1. \A i \in 1..M : (\A j \in (i + 1)..M : j \in H) => i \in H
        BY <2>1
      <3> HIDE DEF H, M
      <3>2. QED
        BY <1>1, <3>1, DownwardInduction
    <2>3. QED
      BY <2>2
  <1>12. Unescapes(t, w)
    BY <1>10, <1>11 DEF Unescapes
  <1>13. QED
    BY <1>9, <1>12

Findings == [names : SUBSET Seq(Char), sound : BOOLEAN]

ParseFrom(t, p, i) ==
  IF i > Len(t) THEN [names |-> {}, sound |-> TRUE]
  ELSE IF t[i] # "$" THEN p[i + 1]
  ELSE IF At(t, i + 1) = "$" THEN p[i + 2]
  ELSE LET q == PlaceholderAt(t, i)
       IN  IF q = NoPlaceholder THEN [p[i + 1] EXCEPT !.sound = FALSE]
                                ELSE [p[q.next] EXCEPT !.names = @ \cup {q.name}]

Parses(t, p) == \A i \in 1..(Len(t) + 1) : p[i] \in Findings /\ p[i] = ParseFrom(t, p, i)

\* A placeholder goes on further down and within the text.
LEMMA PlaceholderType ==
  ASSUME NEW t \in Seq(Char), NEW i \in 1..Len(t), PlaceholderAt(t, i) # NoPlaceholder
  PROVE  /\ PlaceholderAt(t, i).next \in (i + 2)..(Len(t) + 1)
         /\ PlaceholderAt(t, i).name \in Seq(Char)
  <1>1. Len(t) \in Nat /\ i \in Nat /\ \A k \in 1..Len(t) : t[k] \in Char
    OBVIOUS
  <1>2. CASE \E e : Braced(t, i, e)
    <2>1. PICK e : Braced(t, i, e)
      BY <1>2
    <2>2. e \in (i + 3)..Len(t)
      BY <2>1, BracedText
    <2>3. PlaceholderAt(t, i) = [name |-> SubSeq(t, i + 2, e - 1), next |-> e + 1]
      BY <2>1, BracedIs
    <2>4. SubSeq(t, i + 2, e - 1) \in Seq(Char)
      <3>1. i + 2 \in Int /\ e - 1 \in Int /\ (i + 2)..(e - 1) \subseteq 1..Len(t)
        BY <1>1, <2>2
      <3>2. QED
        BY <1>1, <3>1, SubSeqProperties
    <2>5. e + 1 \in (i + 2)..(Len(t) + 1)
      BY <1>1, <2>2
    <2>6. QED
      BY <2>3, <2>4, <2>5
  <1>3. CASE \E e : Unbraced(t, i, e)
    <2>1. PICK e : Unbraced(t, i, e)
      BY <1>3
    <2>2. e \in (i + 2)..(Len(t) + 1)
      BY <2>1, UnbracedText
    <2>3. PlaceholderAt(t, i) = [name |-> SubSeq(t, i + 1, e - 1), next |-> e]
      BY <2>1, UnbracedIs
    <2>4. SubSeq(t, i + 1, e - 1) \in Seq(Char)
      <3>1. i + 1 \in Int /\ e - 1 \in Int /\ (i + 1)..(e - 1) \subseteq 1..Len(t)
        BY <1>1, <2>2
      <3>2. QED
        BY <1>1, <3>1, SubSeqProperties
    <2>5. QED
      BY <2>2, <2>3, <2>4
  <1>4. QED
    BY <1>2, <1>3, PlaceholderCases

\* Where ParseFrom looks, if it looks anywhere.
ParseNext(t, i) ==
  IF t[i] # "$" THEN i + 1
  ELSE IF At(t, i + 1) = "$" THEN i + 2
  ELSE IF PlaceholderAt(t, i) = NoPlaceholder THEN i + 1
  ELSE PlaceholderAt(t, i).next

\* ParseFrom looks further down only.
LEMMA ParseNextType ==
  ASSUME NEW t \in Seq(Char), NEW i \in 1..Len(t)
  PROVE  ParseNext(t, i) \in (i + 1)..(Len(t) + 1)
  <1>1. Len(t) \in Nat /\ i \in Nat /\ i <= Len(t)
    OBVIOUS
  <1>2. i + 1 \in (i + 1)..(Len(t) + 1)
    BY <1>1
  <1>3. At(t, i + 1) = "$" => i + 2 \in (i + 1)..(Len(t) + 1)
    <2> SUFFICES ASSUME At(t, i + 1) = "$" PROVE i + 2 \in (i + 1)..(Len(t) + 1)
      OBVIOUS
    <2>1. i + 2 \in 1..(Len(t) + 1)
      BY AtNext, NoCharIsNone
    <2>2. QED
      BY <1>1, <2>1
  <1>4. PlaceholderAt(t, i) # NoPlaceholder => PlaceholderAt(t, i).next \in (i + 1)..(Len(t) + 1)
    <2> SUFFICES ASSUME PlaceholderAt(t, i) # NoPlaceholder
                 PROVE  PlaceholderAt(t, i).next \in (i + 1)..(Len(t) + 1)
      OBVIOUS
    <2>1. PlaceholderAt(t, i).next \in (i + 2)..(Len(t) + 1)
      BY PlaceholderType
    <2>2. QED
      BY <1>1, <2>1
  <1>5. QED
    BY <1>2, <1>3, <1>4 DEF ParseNext

\* What string.Template finds is a set of names and whether all is well.
LEMMA ParseFromType ==
  ASSUME NEW t \in Seq(Char), NEW i \in 1..(Len(t) + 1), NEW p,
         \A j \in (i + 1)..(Len(t) + 1) : p[j] \in Findings
  PROVE  ParseFrom(t, p, i) \in Findings
  <1>1. Len(t) \in Nat /\ i \in Nat
    OBVIOUS
  <1>2. CASE i > Len(t)
    BY <1>2 DEF ParseFrom, Findings
  <1>3. CASE ~(i > Len(t))
    <2>1. i \in 1..Len(t)
      BY <1>1, <1>3
    <2> DEFINE n == ParseNext(t, i)
               q == PlaceholderAt(t, i)
    <2>2. p[n] \in Findings
      BY <2>1, ParseNextType
    <2>3. [p[n] EXCEPT !.sound = FALSE] \in Findings
      BY <2>2 DEF Findings
    <2>4. q # NoPlaceholder => [p[n] EXCEPT !.names = @ \cup {q.name}] \in Findings
      <3> SUFFICES ASSUME q # NoPlaceholder
                   PROVE  [p[n] EXCEPT !.names = @ \cup {q.name}] \in Findings
        OBVIOUS
      <3>1. q.name \in Seq(Char)
        BY <2>1, PlaceholderType
      <3> HIDE DEF q, n
      <3>2. QED
        BY <2>2, <3>1 DEF Findings
    <2>5. QED
      BY <1>3, <2>2, <2>3, <2>4, Zenon DEF ParseFrom, ParseNext
  <1>4. QED
    BY <1>2, <1>3

\* ParseFrom looks at no place before the next.
LEMMA ParseFromLocal ==
  ASSUME NEW t \in Seq(Char), NEW i \in 1..(Len(t) + 1), NEW p, NEW r,
         \A j \in (i + 1)..(Len(t) + 1) : p[j] = r[j]
  PROVE  ParseFrom(t, p, i) = ParseFrom(t, r, i)
  <1>1. Len(t) \in Nat /\ i \in Nat
    OBVIOUS
  <1>2. CASE i > Len(t)
    BY <1>2 DEF ParseFrom
  <1>3. CASE ~(i > Len(t))
    <2>1. i \in 1..Len(t)
      BY <1>1, <1>3
    <2>2. p[ParseNext(t, i)] = r[ParseNext(t, i)]
      BY <2>1, ParseNextType
    <2>3. QED
      BY <1>3, <2>2, Zenon DEF ParseFrom, ParseNext
  <1>4. QED
    BY <1>2, <1>3

\* Parsed is the value at the first place of a function that recurs from the end.
LEMMA ParseExists ==
  ASSUME NEW t \in Seq(Char)
  PROVE  \E w : Parses(t, w) /\ w[1] = Parsed(t)
  <1> DEFINE M == Len(t) + 1
             V == Findings
             b == [p \in [1..M -> V] \X (1..M) |-> ParseFrom(t, p[1], p[2])]
             Fixed(g) == g = [i \in 1..M |-> ParseFrom(t, g, i)]
  <1>1. M \in Nat /\ Len(t) \in Nat /\ 1 \in 1..M
    OBVIOUS
  <1>2. ASSUME NEW f \in [1..M -> V], NEW i \in 1..M PROVE ParseFrom(t, f, i) \in V
    <2>1. \A j \in (i + 1)..M : f[j] \in V
      BY <1>1
    <2>2. QED
      BY <2>1, ParseFromType
  <1>3. b \in [[1..M -> V] \X (1..M) -> V]
    <2>1. ASSUME NEW p \in [1..M -> V] \X (1..M) PROVE ParseFrom(t, p[1], p[2]) \in V
      <3>1. p[1] \in [1..M -> V] /\ p[2] \in 1..M
        OBVIOUS
      <3> HIDE DEF M, V
      <3>2. QED
        BY <1>2, <3>1
    <2> HIDE DEF M, V
    <2>2. QED
      BY <2>1
  <1>4. ASSUME NEW f \in [1..M -> V], NEW g \in [1..M -> V], NEW i \in 1..M,
               \A j \in (i + 1)..M : f[j] = g[j]
        PROVE  b[<<f, i>>] = b[<<g, i>>]
    <2>1. ParseFrom(t, f, i) = ParseFrom(t, g, i)
      BY <1>4, ParseFromLocal
    <2>2. <<f, i>> \in [1..M -> V] \X (1..M) /\ <<g, i>> \in [1..M -> V] \X (1..M)
      OBVIOUS
    <2> HIDE DEF M, V
    <2>3. b[<<f, i>>] = ParseFrom(t, f, i) /\ b[<<g, i>>] = ParseFrom(t, g, i)
      BY <2>2
    <2>4. QED
      BY <2>1, <2>3
  <1>5. \E v : v \in V
    <2>1. [names |-> {}, sound |-> TRUE] \in V
      BY DEF Findings
    <2>2. QED
      BY <2>1
  <1>6. PICK f \in [1..M -> V] : \A i \in 1..M : f[i] = b[<<f, i>>]
    <2>1. \A f, g \in [1..M -> V] : \A i \in 1..M :
            (\A j \in (i + 1)..M : f[j] = g[j]) => b[<<f, i>>] = b[<<g, i>>]
      BY <1>4
    <2> HIDE DEF M, V, b
    <2>2. FixedPoints(M, V, b) # {}
      BY <1>1, <1>3, <1>5, <2>1, DownwardRecursion
    <2>3. QED
      BY <2>2 DEF FixedPoints
  <1>7. Fixed(f)
    <2> HIDE DEF M, V
    <2>1. ASSUME NEW i \in 1..M PROVE f[i] = ParseFrom(t, f, i)
      <3>1. <<f, i>> \in [1..M -> V] \X (1..M)
        OBVIOUS
      <3>2. QED
        BY <1>6, <3>1
    <2>2. f = [i \in 1..M |-> f[i]]
      OBVIOUS
    <2>3. QED
      BY <2>1, <2>2
  <1> DEFINE w == CHOOSE g : Fixed(g)
  <1>8. Fixed(w)
    <2> HIDE DEF Fixed
    <2> QED BY <1>7
  <1>9. w[1] = Parsed(t)
    BY DEF Parsed, ParseFrom
  <1> HIDE DEF w
  <1>10. \A i \in 1..M : w[i] = ParseFrom(t, w, i)
    <2> HIDE DEF M
    <2> QED BY <1>8
  <1>11. \A i \in 1..M : w[i] \in V
    <2> DEFINE H == {i \in 1..M : w[i] \in V}
    <2>1. ASSUME NEW i \in 1..M, \A j \in (i + 1)..M : j \in H PROVE i \in H
      <3>1. \A j \in (i + 1)..M : w[j] \in V
        BY <2>1
      <3>2. ParseFrom(t, w, i) \in V
        BY <3>1, ParseFromType
      <3>3. QED
        BY <1>10, <3>2
    <2>2. \A i \in 1..M : i \in H
      <3>1. \A i \in 1..M : (\A j \in (i + 1)..M : j \in H) => i \in H
        BY <2>1
      <3> HIDE DEF H, M
      <3>2. QED
        BY <1>1, <3>1, DownwardInduction
    <2>3. QED
      BY <2>2
  <1>12. Parses(t, w)
    BY <1>10, <1>11 DEF Parses
  <1>13. QED
    BY <1>9, <1>12

-----------------------------------------------------------------------------
(* The two agree.                                                          *)

\* No escape begins at a.
Plain(t, a) == a \in 1..Len(t) /\ ~(t[a] = "$" /\ At(t, a + 1) = "$")

\* A character that begins no escape is taken over.
LEMMA PlainStep ==
  ASSUME NEW t \in Seq(Char), NEW w, Unescapes(t, w), NEW a, Plain(t, a)
  PROVE  /\ a \in 1..Len(t) /\ a + 1 \in 1..(Len(t) + 1) /\ Len(t) \in Nat
         /\ t[a] \in Char /\ w[a + 1] \in Seq(Char) /\ w[a] \in Seq(Char)
         /\ w[a] = <<t[a]>> \o w[a + 1]
  <1>1. Len(t) \in Nat /\ a \in 1..Len(t) /\ t[a] \in Char
    BY DEF Plain
  <1>2. a + 1 \in 1..(Len(t) + 1) /\ a \in 1..(Len(t) + 1) /\ ~(a > Len(t))
    BY <1>1
  <1>3. w[a + 1] \in Seq(Char) /\ w[a] \in Seq(Char) /\ w[a] = UnescapeFrom(t, w, a)
    BY <1>2 DEF Unescapes
  <1>4. w[a] = <<t[a]>> \o w[a + 1]
    BY <1>2, <1>3 DEF UnescapeFrom, Plain
  <1>5. QED
    BY <1>1, <1>2, <1>3, <1>4

\* The first character of a concatenation, and the others.
LEMMA HeadOf ==
  ASSUME NEW t \in Seq(Char), NEW w, Unescapes(t, w), NEW k \in 1..(Len(t) + 1),
         Plain(t, k) \/ k = Len(t) + 1
  PROVE  At(w[k], 1) = At(t, k)
  <1>1. Len(t) \in Nat /\ DOMAIN t = 1..Len(t)
    OBVIOUS
  <1>2. CASE Plain(t, k)
    <2>1. t[k] \in Char /\ w[k + 1] \in Seq(Char) /\ w[k] = <<t[k]>> \o w[k + 1] /\ k \in DOMAIN t
      BY <1>1, <1>2, PlainStep
    <2>2. (<<t[k]>> \o w[k + 1])[1] = t[k] /\ 1 \in DOMAIN (<<t[k]>> \o w[k + 1])
      BY <2>1
    <2>3. w[k][1] = t[k] /\ 1 \in DOMAIN w[k]
      BY <2>1, <2>2
    <2>4. QED
      BY <2>1, <2>3 DEF At
  <1>3. CASE k = Len(t) + 1
    <2>1. w[k] = <<>>
      <3>1. w[k] = UnescapeFrom(t, w, k)
        BY DEF Unescapes
      <3>2. k > Len(t)
        BY <1>1, <1>3
      <3>3. QED
        BY <3>1, <3>2 DEF UnescapeFrom
    <2>2. k \notin DOMAIN t /\ 1 \notin DOMAIN w[k]
      BY <1>1, <1>3, <2>1
    <2>3. QED
      BY <2>2 DEF At
  <1>4. QED
    BY <1>2, <1>3

\* The first d characters from i on are taken over.
Spells(t, w, i, d) ==
  /\ Len(w[i]) = d + Len(w[i + d])
  /\ \A a \in 1..d : w[i][a] = t[i + a - 1]
  /\ \A a \in 1..Len(w[i + d]) : w[i][d + a] = w[i + d][a]

\* Text in which no escape begins is taken over as it is.
LEMMA Spelled ==
  ASSUME NEW t \in Seq(Char), NEW w, Unescapes(t, w), NEW i \in 1..(Len(t) + 1), NEW D \in Nat,
         \A a \in i..(i + D - 1) : Plain(t, a)
  PROVE  Spells(t, w, i, D)
  <1>1. Len(t) \in Nat /\ i \in Nat
    OBVIOUS
  <1> DEFINE H == {d \in 0..D : Spells(t, w, i, d)}
  <1>2. 0 \in H
    <2>1. w[i] \in Seq(Char) /\ i + 0 = i
      BY <1>1 DEF Unescapes
    <2>2. Len(w[i]) \in Nat
      BY <2>1
    <2>3. Len(w[i]) = 0 + Len(w[i]) /\ \A a \in 1..Len(w[i]) : 0 + a = a
      BY <2>2
    <2>4. Spells(t, w, i, 0)
      BY <2>1, <2>3 DEF Spells
    <2>5. QED
      BY <2>4
  <1>3. ASSUME NEW d \in 1..D, d - 1 \in H PROVE d \in H
    <2> DEFINE k == i + (d - 1)
               n == i + d
    <2>1. k \in i..(i + D - 1) /\ k + 1 = n /\ d \in Nat /\ k \in Nat
      BY <1>1
    <2>2. Plain(t, k)
      BY <2>1
    <2>3. t[k] \in Char /\ w[n] \in Seq(Char) /\ w[k] = <<t[k]>> \o w[n] /\ w[k] \in Seq(Char)
      <3> HIDE DEF k, n
      <3>1. /\ t[k] \in Char /\ w[k + 1] \in Seq(Char) /\ w[k] \in Seq(Char)
            /\ w[k] = <<t[k]>> \o w[k + 1]
        BY <2>2, PlainStep
      <3>2. QED
        BY <2>1, <3>1
    <2>4. /\ Len(w[i]) = (d - 1) + Len(w[k])
          /\ \A a \in 1..(d - 1) : w[i][a] = t[i + a - 1]
          /\ \A a \in 1..Len(w[k]) : w[i][(d - 1) + a] = w[k][a]
      BY <1>3 DEF Spells
    <2> HIDE DEF k, n
    <2>5. /\ Len(w[n]) \in Nat /\ Len(w[k]) = Len(w[n]) + 1 /\ w[k][1] = t[k]
          /\ \A a \in 1..Len(w[n]) : w[k][a + 1] = w[n][a]
      BY <2>3
    <2>6. Len(w[i]) = d + Len(w[n])
      BY <2>1, <2>4, <2>5
    <2>7. ASSUME NEW a \in 1..d PROVE w[i][a] = t[i + a - 1]
      <3>1. CASE a = d
        <4>1. 1 \in 1..Len(w[k]) /\ (d - 1) + 1 = d /\ i + d - 1 = k
          BY <1>1, <2>1, <2>5 DEF k
        <4>2. QED
          BY <2>4, <2>5, <3>1, <4>1
      <3>2. CASE a # d
        <4>1. a \in 1..(d - 1)
          BY <2>1, <3>2
        <4>2. QED
          BY <2>4, <4>1
      <3>3. QED
        BY <3>1, <3>2
    <2>8. ASSUME NEW a \in 1..Len(w[n]) PROVE w[i][d + a] = w[n][a]
      <3>1. a + 1 \in 1..Len(w[k]) /\ (d - 1) + (a + 1) = d + a
        <4>1. Len(w[n]) \in Nat /\ Len(w[k]) = Len(w[n]) + 1
          BY <2>5
        <4> QED
          BY <2>1, <4>1
      <3>2. w[i][(d - 1) + (a + 1)] = w[k][a + 1]
        BY <2>4, <3>1
      <3>3. QED
        BY <2>5, <3>1, <3>2
    <2>9. Spells(t, w, i, d)
      BY <2>6, <2>7, <2>8 DEF Spells, n
    <2>10. QED
      BY <2>9
  <1>4. \A d \in 0..D : d \in H
    <2>1. \A d \in 1..D : d - 1 \in H => d \in H
      BY <1>3
    <2> HIDE DEF H
    <2> QED BY <1>2, <2>1, BoundedInduction
  <1>5. QED
    <2>1. D \in 0..D
      OBVIOUS
    <2>2. QED
      BY <1>4, <2>1

\* Where there is no "$" there is nothing to find.
NoDollar(t, i, d) == \A a \in i..(i + d - 1) : a \in 1..Len(t) /\ t[a] # "$"

\* Text without "$" adds nothing to what the scan finds.
LEMMA ScanSkips ==
  ASSUME NEW t \in Seq(Char), NEW w, Unescapes(t, w), NEW i \in 1..(Len(t) + 1), NEW D \in Nat,
         NoDollar(t, i, D)
  PROVE  Scan(w[i]) = Scan(w[i + D])
  <1>1. Len(t) \in Nat /\ i \in Nat
    OBVIOUS
  <1> DEFINE H == {d \in 0..D : Scan(w[i]) = Scan(w[i + d])}
  <1>2. 0 \in H
    <2>1. i + 0 = i
      BY <1>1
    <2>2. Scan(w[i]) = Scan(w[i + 0])
      BY <2>1
    <2>3. QED
      BY <2>2
  <1>3. ASSUME NEW d \in 1..D, d - 1 \in H PROVE d \in H
    <2> DEFINE k == i + (d - 1)
    <2>1. k \in i..(i + D - 1) /\ k + 1 = i + d
      BY <1>1
    <2>2. Plain(t, k) /\ t[k] # "$"
      BY <2>1 DEF Plain, NoDollar
    <2>3. t[k] \in Char /\ w[k + 1] \in Seq(Char) /\ w[k] = <<t[k]>> \o w[k + 1]
      BY <2>2, PlainStep
    <2>4. Scan(<<t[k]>> \o w[k + 1]) = Scan(w[k + 1])
      <3>1. Scan(<<t[k]>> \o w[k + 1]) = Scan(w[k + 1]) \cup
              IF t[k] = "$" THEN {PlaceholderAt(<<t[k]>> \o w[k + 1], 1).name} \ {<<>>} ELSE {}
        BY <2>3, ScanStep
      <3>2. QED
        BY <2>2, <3>1, Zenon
    <2>5. Scan(w[i]) = Scan(w[k])
      BY <1>3
    <2>6. Scan(w[i]) = Scan(w[i + d])
      BY <2>1, <2>3, <2>4, <2>5
    <2>7. QED
      BY <2>6
  <1>4. \A d \in 0..D : d \in H
    <2>1. \A d \in 1..D : d - 1 \in H => d \in H
      BY <1>3
    <2> HIDE DEF H
    <2> QED BY <1>2, <2>1, BoundedInduction
  <1>5. QED
    <2>1. D \in 0..D
      OBVIOUS
    <2>2. QED
      BY <1>4, <2>1

\* The scan finds a braced placeholder of the template, and goes on behind it.
LEMMA ScanBraced ==
  ASSUME NEW t \in Seq(Char), NEW w, Unescapes(t, w), NEW i \in 1..Len(t), Plain(t, i),
         NEW e, Braced(t, i, e)
  PROVE  /\ Scan(w[i + 1]) = Scan(w[e + 1])
         /\ PlaceholderAt(w[i], 1).name = PlaceholderAt(t, i).name
         /\ PlaceholderAt(t, i).name # <<>>
  <1> DEFINE D == e - i
  <1>1. Len(t) \in Nat /\ i \in Nat
    OBVIOUS
  <1>2. e \in (i + 3)..Len(t) /\ \A j \in (i + 1)..e : t[j] # "$"
    BY BracedText
  <1>a. e \in (i + 3)..Len(t)
    BY <1>2
  <1>3. /\ D \in Nat /\ D >= 3 /\ e \in Nat /\ i + D = e /\ (i + 1) + D = e + 1 /\ i + (D + 1) = e + 1
        /\ i + 1 \in 1..(Len(t) + 1) /\ i \in 1..(Len(t) + 1) /\ e + 1 \in 1..(Len(t) + 1)
    BY <1>1, <1>a
  <1> HIDE DEF D
  <1>4. \A a \in (i + 1)..((i + 1) + D - 1) : a \in 1..Len(t) /\ t[a] # "$"
    <2>1. \A a \in (i + 1)..((i + 1) + D - 1) : a \in (i + 1)..e /\ a \in 1..Len(t)
      BY <1>1, <1>3, <1>a
    <2>2. QED
      BY <1>2, <2>1
  <1>5. Scan(w[i + 1]) = Scan(w[(i + 1) + D])
    <2>1. NoDollar(t, i + 1, D)
      BY <1>4 DEF NoDollar
    <2>2. QED
      BY <1>3, <2>1, ScanSkips
  <1>6. \A a \in i..(i + (D + 1) - 1) : Plain(t, a)
    <2> SUFFICES ASSUME NEW a \in i..(i + (D + 1) - 1) PROVE Plain(t, a)
      OBVIOUS
    <2>1. a = i \/ a \in (i + 1)..((i + 1) + D - 1)
      BY <1>1, <1>3
    <2>2. QED
      BY <1>4, <2>1 DEF Plain
  <1>7. Spells(t, w, i, D + 1)
    BY <1>3, <1>6, Spelled
  <1>8. w[i] \in Seq(Char) /\ Len(w[e + 1]) \in Nat
    <2>1. w[i] \in Seq(Char) /\ w[e + 1] \in Seq(Char)
      BY <1>3 DEF Unescapes
    <2>2. QED
      BY <2>1
  <1>9. Len(w[i]) = (D + 1) + Len(w[e + 1]) /\ \A a \in 1..(D + 1) : w[i][a] = t[i + a - 1]
    BY <1>3, <1>7 DEF Spells
  <1>10. 1 + (e - i) <= Len(w[i]) /\ 1 \in 1..Len(w[i])
    <2>1. Len(w[i]) = (D + 1) + Len(w[e + 1]) /\ Len(w[e + 1]) \in Nat /\ D \in Nat
      BY <1>3, <1>8, <1>9
    <2>2. \A x, y, d \in Nat : x = (d + 1) + y => 1 + d <= x /\ 1 \in 1..x
      OBVIOUS
    <2>3. Len(w[i]) \in Nat
      BY <1>8
    <2>4. 1 + D <= Len(w[i]) /\ 1 \in 1..Len(w[i])
      BY <2>1, <2>2, <2>3
    <2>5. QED
      BY <2>4 DEF D
  <1>11. \A a \in 1..(e - i) : w[i][1 + a] = t[i + a]
    <2> SUFFICES ASSUME NEW a \in 1..D PROVE w[i][1 + a] = t[i + a]
      BY DEF D
    <2>1. 1 + a \in 1..(D + 1) /\ i + (1 + a) - 1 = i + a
      BY <1>1, <1>3
    <2>2. w[i][1 + a] = t[i + (1 + a) - 1]
      BY <1>9, <2>1
    <2>3. QED
      BY <2>1, <2>2
  <1>12. PlaceholderAt(w[i], 1).name = PlaceholderAt(t, i).name /\ PlaceholderAt(t, i).name # <<>>
    BY <1>8, <1>10, <1>11, SameBraced
  <1>13. QED
    BY <1>3, <1>5, <1>12

\* The scan finds one without braces, if what is left behind it does not go on its name.
LEMMA ScanUnbraced ==
  ASSUME NEW t \in Seq(Char), NEW w, Unescapes(t, w), NEW i \in 1..Len(t), Plain(t, i),
         NEW e, Unbraced(t, i, e), At(w[e], 1) \notin Letter
  PROVE  /\ Scan(w[i + 1]) = Scan(w[e])
         /\ PlaceholderAt(w[i], 1).name = PlaceholderAt(t, i).name
         /\ PlaceholderAt(t, i).name # <<>>
  <1> DEFINE D == e - i
  <1>1. Len(t) \in Nat /\ i \in Nat
    OBVIOUS
  <1>2. /\ e \in (i + 2)..(Len(t) + 1) /\ At(t, e) \notin Letter
        /\ \A j \in (i + 1)..(e - 1) : t[j] \in Letter
        /\ \A j \in (i + 1)..(e - 1) : t[j] # "$"
    BY UnbracedText
  <1>a. e \in (i + 2)..(Len(t) + 1)
    BY <1>2
  <1>3. /\ D \in Nat /\ D >= 2 /\ e \in Nat /\ i + D = e /\ (i + 1) + (D - 1) = e /\ D - 1 \in Nat
        /\ i + 1 \in 1..(Len(t) + 1) /\ i \in 1..(Len(t) + 1) /\ e \in 1..(Len(t) + 1)
    BY <1>1, <1>a
  <1> HIDE DEF D
  <1>4. \A a \in (i + 1)..((i + 1) + (D - 1) - 1) : a \in 1..Len(t) /\ t[a] # "$"
    <2>1. \A a \in (i + 1)..((i + 1) + (D - 1) - 1) : a \in (i + 1)..(e - 1) /\ a \in 1..Len(t)
      BY <1>1, <1>3, <1>a
    <2>2. QED
      BY <1>2, <2>1
  <1>5. Scan(w[i + 1]) = Scan(w[(i + 1) + (D - 1)])
    <2>1. NoDollar(t, i + 1, D - 1)
      BY <1>4 DEF NoDollar
    <2>2. QED
      BY <1>3, <2>1, ScanSkips
  <1>6. \A a \in i..(i + D - 1) : Plain(t, a)
    <2> SUFFICES ASSUME NEW a \in i..(i + D - 1) PROVE Plain(t, a)
      OBVIOUS
    <2>1. a = i \/ a \in (i + 1)..((i + 1) + (D - 1) - 1)
      BY <1>1, <1>3
    <2>2. QED
      BY <1>4, <2>1 DEF Plain
  <1>7. Spells(t, w, i, D)
    BY <1>3, <1>6, Spelled
  <1>8. w[i] \in Seq(Char) /\ Len(w[e]) \in Nat /\ DOMAIN w[e] = 1..Len(w[e]) /\ DOMAIN w[i] = 1..Len(w[i])
    <2>1. w[i] \in Seq(Char) /\ w[e] \in Seq(Char)
      BY <1>3 DEF Unescapes
    <2>2. QED
      BY <2>1
  <1>9. /\ Len(w[i]) = D + Len(w[e]) /\ \A a \in 1..D : w[i][a] = t[i + a - 1]
        /\ \A a \in 1..Len(w[e]) : w[i][D + a] = w[e][a]
    BY <1>3, <1>7 DEF Spells
  <1>10. 1 + (e - i) <= Len(w[i]) + 1 /\ 1 \in 1..Len(w[i])
    BY <1>3, <1>8, <1>9 DEF D
  <1>11. \A a \in 1..(e - i - 1) : w[i][1 + a] = t[i + a]
    <2> SUFFICES ASSUME NEW a \in 1..(D - 1) PROVE w[i][1 + a] = t[i + a]
      BY DEF D
    <2>1. 1 + a \in 1..D /\ i + (1 + a) - 1 = i + a
      BY <1>1, <1>3
    <2>2. w[i][1 + a] = t[i + (1 + a) - 1]
      BY <1>9, <2>1
    <2>3. QED
      BY <2>1, <2>2
  <1>12. At(w[i], 1 + (e - i)) = At(w[e], 1)
    <2>1. CASE Len(w[e]) >= 1
      <3>a. Len(w[i]) = D + Len(w[e]) /\ Len(w[e]) \in Nat
        BY <1>8, <1>9
      <3>b. 1 + (e - i) = D + 1
        BY <1>1, <1>3
      <3>1. 1 \in 1..Len(w[e]) /\ D + 1 \in 1..Len(w[i])
        BY <1>3, <2>1, <3>a
      <3>2. w[i][D + 1] = w[e][1]
        BY <1>9, <3>1
      <3>3. At(w[i], D + 1) = w[i][D + 1] /\ At(w[e], 1) = w[e][1]
        BY <1>8, <3>1 DEF At
      <3>4. QED
        BY <3>b, <3>2, <3>3
    <2>2. CASE ~(Len(w[e]) >= 1)
      <3>1. 1 \notin 1..Len(w[e]) /\ 1 + (e - i) \notin 1..Len(w[i])
        BY <1>3, <1>8, <1>9, <2>2 DEF D
      <3>2. QED
        BY <1>8, <3>1 DEF At
    <2>3. QED
      BY <2>1, <2>2
  <1>13. At(w[i], 1 + (e - i)) \notin Letter
    BY <1>12
  <1>14. PlaceholderAt(w[i], 1).name = PlaceholderAt(t, i).name /\ PlaceholderAt(t, i).name # <<>>
    BY <1>8, <1>10, <1>11, <1>13, SameUnbraced
  <1>15. QED
    BY <1>3, <1>5, <1>14

\* The escapes at e are gone, and what is left begins with what follows them.
LEMMA EscapesEnd ==
  ASSUME NEW t \in Seq(Char), NEW w, Unescapes(t, w), NEW e \in 1..(Len(t) + 1)
  PROVE  \E m \in 0..Len(t) :
           /\ e + 2 * m <= Len(t) + 1 /\ At(w[e], 1) = At(t, e + 2 * m)
           /\ \A j \in e..(e + 2 * m - 1) : At(t, j) = "$"
  <1> DEFINE M == Len(t) + 1
             Ended(i, m) == /\ i + 2 * m <= M /\ At(w[i], 1) = At(t, i + 2 * m)
                            /\ \A j \in i..(i + 2 * m - 1) : At(t, j) = "$"
             H == {i \in 1..M : \E m \in 0..Len(t) : Ended(i, m)}
  <1>1. M \in Nat /\ Len(t) \in Nat /\ DOMAIN t = 1..Len(t)
    OBVIOUS
  <1>2. ASSUME NEW i \in 1..M, \A j \in (i + 1)..M : j \in H PROVE i \in H
    <2>1. CASE Plain(t, i) \/ i = M
      <3>1. At(w[i], 1) = At(t, i)
        BY <2>1, HeadOf
      <3>2. i + 2 * 0 = i /\ i + 2 * 0 <= M /\ 0 \in 0..Len(t) /\ i..(i + 2 * 0 - 1) = {}
        BY <1>1
      <3>3. Ended(i, 0)
        BY <3>1, <3>2
      <3>4. QED
        BY <3>2, <3>3
    <2>2. CASE i # M /\ ~Plain(t, i)
      <3>1. i \in 1..Len(t) /\ t[i] = "$" /\ At(t, i + 1) = "$" /\ ~(i > Len(t))
        BY <1>1, <2>2 DEF Plain
      <3>2. i + 2 \in (i + 1)..M
        <4>1. i + 2 \in 1..(Len(t) + 1)
          BY <3>1, AtNext, NoCharIsNone
        <4>2. QED
          BY <1>1, <4>1
      <3>3. w[i] = w[i + 2]
        <4>1. w[i] = UnescapeFrom(t, w, i)
          BY DEF Unescapes
        <4>2. QED
          BY <3>1, <4>1 DEF UnescapeFrom
      <3>4. i + 2 \in H
        BY <1>2, <3>2
      <3>5. PICK m \in 0..Len(t) : Ended(i + 2, m)
        BY <3>4
      <3>6. /\ i + 2 * (m + 1) = (i + 2) + 2 * m /\ m + 1 \in 0..Len(t)
        <4>1. (i + 2) + 2 * m <= M
          BY <3>5
        <4>2. i \in Nat /\ i >= 1 /\ m \in Nat /\ Len(t) \in Nat /\ M = Len(t) + 1
          BY <1>1
        <4> HIDE DEF M, Ended, H
        <4>3. i + 2 * (m + 1) = (i + 2) + 2 * m
          BY <4>2
        <4>4. m + 1 <= Len(t)
          BY <4>1, <4>2
        <4>5. QED
          BY <4>2, <4>3, <4>4
      <3>7. ASSUME NEW j \in i..(i + 2 * (m + 1) - 1) PROVE At(t, j) = "$"
        <4>1. CASE j = i
          BY <1>1, <3>1, <4>1 DEF At
        <4>2. CASE j = i + 1
          BY <3>1, <4>2
        <4>3. CASE j # i /\ j # i + 1
          <5>1. j \in (i + 2)..((i + 2) + 2 * m - 1)
            BY <1>1, <3>6, <4>3
          <5>2. QED
            BY <3>5, <5>1
        <4>4. QED
          BY <4>1, <4>2, <4>3
      <3>8. Ended(i, m + 1)
        BY <3>3, <3>5, <3>6, <3>7
      <3>9. QED
        BY <3>6, <3>8
    <2>3. QED
      BY <2>1, <2>2
  <1>3. \A i \in 1..M : i \in H
    <2>1. \A i \in 1..M : (\A j \in (i + 1)..M : j \in H) => i \in H
      BY <1>2
    <2> HIDE DEF H, M
    <2>2. QED
      BY <1>1, <2>1, DownwardInduction
  <1>4. e \in H
    BY <1>3
  <1>5. QED
    BY <1>4

\* The scan finds what string.Template finds, one placeholder after the other.
LEMMA ScanPlaceholder ==
  ASSUME NEW t \in Seq(Char), ~Joined(t), NEW w, Unescapes(t, w), NEW i \in 1..Len(t),
         Opens(t, i), PlaceholderAt(t, i) # NoPlaceholder
  PROVE  Scan(w[i]) = Scan(w[PlaceholderAt(t, i).next]) \cup {PlaceholderAt(t, i).name}
  <1> DEFINE q == PlaceholderAt(t, i)
  <1>1. Len(t) \in Nat /\ i \in Nat /\ DOMAIN t = 1..Len(t)
    OBVIOUS
  <1>2. Plain(t, i) /\ t[i] = "$"
    BY DEF Plain, Opens
  <1>3. /\ Scan(w[i + 1]) = Scan(w[q.next])
        /\ PlaceholderAt(w[i], 1).name = q.name /\ q.name # <<>>
    <2>1. CASE \E e : Braced(t, i, e)
      <3>1. PICK e : Braced(t, i, e)
        BY <2>1
      <3>2. q.next = e + 1
        BY <3>1, BracedIs
      <3>3. QED
        <4> HIDE DEF q
        <4>1. /\ Scan(w[i + 1]) = Scan(w[e + 1])
              /\ PlaceholderAt(w[i], 1).name = PlaceholderAt(t, i).name
              /\ PlaceholderAt(t, i).name # <<>>
          BY <1>2, <3>1, ScanBraced
        <4>2. QED
          BY <3>2, <4>1 DEF q
    <2>2. CASE \E e : Unbraced(t, i, e)
      <3>1. PICK e : Unbraced(t, i, e)
        BY <2>2
      <3>2. q.next = e
        BY <3>1, UnbracedIs
      <3>3. e \in (i + 2)..(Len(t) + 1) /\ \A j \in (i + 1)..(e - 1) : t[j] \in Letter
        BY <3>1, UnbracedText
      <3>a. e \in (i + 2)..(Len(t) + 1)
        BY <3>3
      <3>4. At(t, i + 1) \in Letter
        <4>1. i + 1 \in (i + 1)..(e - 1) /\ i + 1 \in DOMAIN t
          BY <1>1, <3>a
        <4>2. QED
          BY <3>3, <4>1 DEF At
      <3>5. At(w[e], 1) \notin Letter
        <4>1. PICK m \in 0..Len(t) :
                /\ e + 2 * m <= Len(t) + 1 /\ At(w[e], 1) = At(t, e + 2 * m)
                /\ \A j \in e..(e + 2 * m - 1) : At(t, j) = "$"
          BY <1>1, <3>a, EscapesEnd
        <4>2. CASE m = 0
          <5>1. e + 2 * m = e
            BY <3>a, <4>2
          <5>2. At(t, e) \notin Letter
            BY <3>1 DEF Unbraced, Ends
          <5>3. QED
            BY <4>1, <5>1, <5>2
        <4>3. CASE m # 0
          <5>1. NameEnd(t, i + 1) = e
            <6>1. i + 1 \in 1..(Len(t) + 1)
              BY <1>1
            <6>2. Ends(t, i + 1, e)
              BY <3>1 DEF Unbraced
            <6>3. QED
              BY <6>1, <6>2, NameEndIs
          <5>2. m \in 1..Len(t) /\ i \in DOMAIN t
            BY <1>1, <4>3
          <5>3. At(t, e + 2 * m) \notin Letter
            BY <3>4, <4>1, <5>1, <5>2, Zenon DEF Joined
          <5>4. QED
            BY <4>1, <5>3
        <4>4. QED
          BY <4>2, <4>3
      <3>7. /\ Scan(w[i + 1]) = Scan(w[e])
            /\ PlaceholderAt(w[i], 1).name = PlaceholderAt(t, i).name
            /\ PlaceholderAt(t, i).name # <<>>
        BY <1>2, <3>1, <3>5, ScanUnbraced
      <3>8. QED
        BY <3>2, <3>7
    <2>3. QED
      BY <2>1, <2>2, PlaceholderCases
  <1>4. t[i] \in Char /\ w[i + 1] \in Seq(Char) /\ w[i] = <<t[i]>> \o w[i + 1]
    BY <1>2, PlainStep
  <1>5. Scan(<<t[i]>> \o w[i + 1]) = Scan(w[i + 1]) \cup
          IF t[i] = "$" THEN {PlaceholderAt(<<t[i]>> \o w[i + 1], 1).name} \ {<<>>} ELSE {}
    BY <1>4, ScanStep
  <1>6. Scan(w[i]) = Scan(w[i + 1]) \cup ({PlaceholderAt(w[i], 1).name} \ {<<>>})
    BY <1>2, <1>4, <1>5, Zenon
  <1> HIDE DEF q
  <1>7. Scan(w[i]) = Scan(w[q.next]) \cup {q.name}
    BY <1>3, <1>6
  <1>8. QED
    BY <1>7 DEF q

-----------------------------------------------------------------------------
(* Escapes are read in pairs from where the "$" begin.                     *)

\* Behind what is no "$" there is none, an even number.
LEMMA EvenAtStart ==
  ASSUME NEW t \in Seq(Char), NEW i \in 1..(Len(t) + 1), At(t, i - 1) # "$"
  PROVE  EvenBefore(t, i)
  <1>1. Len(t) \in Nat /\ i \in Nat /\ i - 2 * 0 = i /\ i..(i - 1) = {} /\ 0 \in 0..Len(t)
    OBVIOUS
  <1>2. QED
    BY <1>1 DEF EvenBefore

\* An escape adds two.
LEMMA EvenAfterEscape ==
  ASSUME NEW t \in Seq(Char), NEW i \in 1..Len(t), EvenBefore(t, i),
         t[i] = "$", At(t, i + 1) = "$"
  PROVE  EvenBefore(t, i + 2)
  <1>a. Len(t) \in Nat /\ i \in Nat /\ DOMAIN t = 1..Len(t)
    OBVIOUS
  <1>b. i + 1 \in DOMAIN t
    BY NoCharIsNone DEF At
  <1>1. Len(t) \in Nat /\ i \in Nat /\ i + 1 \in 1..Len(t) /\ t[i + 1] = "$"
    BY <1>a, <1>b DEF At
  <1>2. PICK m \in 0..Len(t) :
          /\ i - 2 * m >= 1 /\ At(t, (i - 2 * m) - 1) # "$"
          /\ \A j \in (i - 2 * m)..(i - 1) : t[j] = "$"
    BY DEF EvenBefore
  <1>3. (i + 2) - 2 * (m + 1) = i - 2 * m /\ m + 1 \in 0..Len(t)
    BY <1>1, <1>2
  <1>4. ASSUME NEW j \in (i - 2 * m)..((i + 2) - 1) PROVE t[j] = "$"
    <2>1. j = i \/ j = i + 1 \/ j \in (i - 2 * m)..(i - 1)
      BY <1>1
    <2>2. QED
      BY <1>1, <1>2, <2>1
  <1>5. \E n \in 0..Len(t) :
          /\ (i + 2) - 2 * n >= 1 /\ At(t, ((i + 2) - 2 * n) - 1) # "$"
          /\ \A j \in ((i + 2) - 2 * n)..((i + 2) - 1) : t[j] = "$"
    <2>1. /\ (i + 2) - 2 * (m + 1) >= 1 /\ At(t, ((i + 2) - 2 * (m + 1)) - 1) # "$"
          /\ \A j \in ((i + 2) - 2 * (m + 1))..((i + 2) - 1) : t[j] = "$"
      BY <1>2, <1>3, <1>4
    <2>2. QED
      BY <1>3, <2>1
  <1>6. QED
    BY <1>5 DEF EvenBefore

\* Between the two halves of an escape there is one more.
LEMMA OddInEscape ==
  ASSUME NEW t \in Seq(Char), NEW i \in 1..Len(t), EvenBefore(t, i), t[i] = "$"
  PROVE  ~EvenBefore(t, i + 1)
  <1> SUFFICES ASSUME EvenBefore(t, i + 1) PROVE FALSE
    OBVIOUS
  <1>1. Len(t) \in Nat /\ i \in Nat /\ DOMAIN t = 1..Len(t)
    OBVIOUS
  <1>2. PICK m \in 0..Len(t) :
          /\ i - 2 * m >= 1 /\ At(t, (i - 2 * m) - 1) # "$"
          /\ \A j \in (i - 2 * m)..(i - 1) : t[j] = "$"
    BY DEF EvenBefore
  <1>3. PICK n \in 0..Len(t) :
          /\ (i + 1) - 2 * n >= 1 /\ At(t, ((i + 1) - 2 * n) - 1) # "$"
          /\ \A j \in ((i + 1) - 2 * n)..((i + 1) - 1) : t[j] = "$"
    BY DEF EvenBefore
  <1>4. PICK a \in 1..i : a = i - 2 * m
    BY <1>1, <1>2
  <1>5. PICK b \in 1..(i + 1) : b = (i + 1) - 2 * n
    BY <1>1, <1>3
  <1>6. CASE a < b
    <2>1. b - 1 \in a..i /\ b - 1 \in DOMAIN t
      BY <1>1, <1>6
    <2>2. t[b - 1] = "$"
      <3>1. CASE b - 1 = i
        BY <3>1
      <3>2. CASE b - 1 # i
        <4>1. b - 1 \in (i - 2 * m)..(i - 1)
          BY <1>4, <2>1, <3>2
        <4>2. QED
          BY <1>2, <4>1
      <3>3. QED
        BY <3>1, <3>2
    <2>3. At(t, b - 1) # "$"
      BY <1>3, <1>5
    <2>4. QED
      BY <2>1, <2>2, <2>3 DEF At
  <1>7. CASE b < a
    <2>1. a - 1 \in b..i /\ a - 1 \in DOMAIN t
      BY <1>1, <1>7
    <2>2. t[a - 1] = "$"
      <3>1. a - 1 \in ((i + 1) - 2 * n)..((i + 1) - 1)
        BY <1>5, <2>1
      <3>2. QED
        BY <1>3, <3>1
    <2>3. At(t, a - 1) # "$"
      BY <1>2, <1>4
    <2>4. QED
      BY <2>1, <2>2, <2>3 DEF At
  <1>8. a # b
    BY <1>1, <1>4, <1>5
  <1>9. QED
    BY <1>6, <1>7, <1>8

\* Where reading may go on: not at the second half of an escape.
Fresh(t, i) == EvenBefore(t, i) \/ At(t, i) # "$"

\* There is no "$" in what a placeholder consists of.
LEMMA PlaceholderText ==
  ASSUME NEW t \in Seq(Char), NEW i \in 1..Len(t), PlaceholderAt(t, i) # NoPlaceholder
  PROVE  /\ PlaceholderAt(t, i).next \in (i + 2)..(Len(t) + 1)
         /\ \A k \in (i + 1)..(PlaceholderAt(t, i).next - 1) : k \in DOMAIN t /\ t[k] # "$"
  <1>1. Len(t) \in Nat /\ i \in Nat /\ DOMAIN t = 1..Len(t)
    OBVIOUS
  <1>2. PICK n \in (i + 2)..(Len(t) + 1) : n = PlaceholderAt(t, i).next
    BY PlaceholderType
  <1>3. ASSUME NEW k \in (i + 1)..(n - 1) PROVE k \in DOMAIN t /\ t[k] # "$"
    <2>1. k \in DOMAIN t
      BY <1>1
    <2>2. CASE \E e : Braced(t, i, e)
      <3>1. PICK e : Braced(t, i, e)
        BY <2>2
      <3>2. n = e + 1
        BY <1>2, <3>1, BracedIs
      <3>3. e \in (i + 3)..Len(t)
        BY <3>1, BracedText
      <3>4. k \in (i + 1)..e
        BY <1>1, <3>2, <3>3
      <3>5. QED
        BY <2>1, <3>1, <3>4, BracedText
    <2>3. CASE \E e : Unbraced(t, i, e)
      <3>1. PICK e : Unbraced(t, i, e)
        BY <2>3
      <3>2. n = e
        BY <1>2, <3>1, UnbracedIs
      <3>3. QED
        BY <2>1, <3>1, <3>2, UnbracedText
    <2>4. QED
      BY <2>2, <2>3, PlaceholderCases
  <1>4. QED
    BY <1>2, <1>3

\* Reading goes on where it may.
LEMMA FreshNext ==
  ASSUME NEW t \in Seq(Char), NEW i \in 1..Len(t), Fresh(t, i)
  PROVE  Fresh(t, ParseNext(t, i))
  <1>1. Len(t) \in Nat /\ i \in Nat /\ DOMAIN t = 1..Len(t) /\ At(t, i) = t[i]
    BY DEF At
  <1>2. CASE t[i] # "$"
    <2>1. i + 1 \in 1..(Len(t) + 1) /\ (i + 1) - 1 = i
      BY <1>1
    <2>2. EvenBefore(t, i + 1)
      BY <1>1, <1>2, <2>1, EvenAtStart
    <2>3. QED
      BY <1>2, <2>2 DEF Fresh, ParseNext
  <1>3. CASE t[i] = "$" /\ At(t, i + 1) = "$"
    <2>1. EvenBefore(t, i)
      BY <1>1, <1>3 DEF Fresh
    <2>2. EvenBefore(t, i + 2)
      BY <1>3, <2>1, EvenAfterEscape
    <2>3. QED
      BY <1>3, <2>2 DEF Fresh, ParseNext
  <1>4. CASE t[i] = "$" /\ At(t, i + 1) # "$" /\ PlaceholderAt(t, i) = NoPlaceholder
    BY <1>4 DEF Fresh, ParseNext
  <1>5. CASE t[i] = "$" /\ At(t, i + 1) # "$" /\ PlaceholderAt(t, i) # NoPlaceholder
    <2>1. PICK n : n = PlaceholderAt(t, i).next
      OBVIOUS
    <2>2. n \in (i + 2)..(Len(t) + 1) /\ \A k \in (i + 1)..(n - 1) : k \in DOMAIN t /\ t[k] # "$"
      BY <1>5, <2>1, PlaceholderText
    <2>3. n - 1 \in (i + 1)..(n - 1) /\ n \in 1..(Len(t) + 1)
      BY <1>1, <2>2
    <2>4. At(t, n - 1) # "$"
      BY <2>2, <2>3 DEF At
    <2>5. EvenBefore(t, n)
      BY <2>3, <2>4, EvenAtStart
    <2>6. QED
      BY <1>5, <2>1, <2>5 DEF Fresh, ParseNext
  <1>6. QED
    BY <1>2, <1>3, <1>4, <1>5

-----------------------------------------------------------------------------
(* What string.Template refuses.                                           *)

\* From i on there is no stray "$".
SoundFrom(t, i) ==
  \A k \in i..Len(t) : Opens(t, k) => PlaceholderAt(t, k) # NoPlaceholder

\* What is passed over by reading on has no stray "$", except where it is found.
LEMMA SoundStep ==
  ASSUME NEW t \in Seq(Char), NEW i \in 1..Len(t), Fresh(t, i)
  PROVE  SoundFrom(t, i) <=>
           /\ SoundFrom(t, ParseNext(t, i))
           /\ ~(t[i] = "$" /\ At(t, i + 1) # "$" /\ PlaceholderAt(t, i) = NoPlaceholder)
  <1>1. Len(t) \in Nat /\ i \in Nat /\ DOMAIN t = 1..Len(t) /\ At(t, i) = t[i]
    BY DEF At
  <1>2. PICK n : n = ParseNext(t, i)
    OBVIOUS
  <1>3. n \in (i + 1)..(Len(t) + 1)
    BY <1>2, ParseNextType
  <1>4. ASSUME NEW k \in (i + 1)..(n - 1) PROVE ~Opens(t, k)
    <2>1. CASE t[i] = "$" /\ At(t, i + 1) = "$"
      <3>1. n = i + 2
        BY <1>2, <2>1 DEF ParseNext
      <3>2. k = i + 1
        BY <1>1, <3>1
      <3>3. EvenBefore(t, i)
        BY <1>1, <2>1 DEF Fresh
      <3>4. QED
        BY <2>1, <3>2, <3>3, OddInEscape DEF Opens
    <2>2. CASE t[i] = "$" /\ At(t, i + 1) # "$" /\ PlaceholderAt(t, i) # NoPlaceholder
      <3>1. n = PlaceholderAt(t, i).next
        BY <1>2, <2>2 DEF ParseNext
      <3>2. t[k] # "$"
        BY <2>2, <3>1, PlaceholderText
      <3>3. QED
        BY <3>2 DEF Opens
    <2>3. CASE \/ t[i] # "$"
               \/ t[i] = "$" /\ At(t, i + 1) # "$" /\ PlaceholderAt(t, i) = NoPlaceholder
      <3>1. n = i + 1
        BY <1>2, <2>3 DEF ParseNext
      <3>2. QED
        BY <1>1, <3>1
    <2>4. QED
      BY <2>1, <2>2, <2>3
  <1>5. Opens(t, i) <=> t[i] = "$" /\ At(t, i + 1) # "$"
    BY <1>1 DEF Opens, Fresh
  <1>6. SoundFrom(t, i) <=>
          SoundFrom(t, n) /\ (Opens(t, i) => PlaceholderAt(t, i) # NoPlaceholder)
    <2>1. \A k : k \in i..Len(t) <=> k = i \/ k \in (i + 1)..(n - 1) \/ k \in n..Len(t)
      BY <1>1, <1>3
    <2>2. QED
      BY <1>4, <2>1, Zenon DEF SoundFrom
  <1>7. QED
    BY <1>2, <1>5, <1>6

\* string.Template refuses a template for a stray "$" and for nothing else.
LEMMA SoundIsStray ==
  ASSUME NEW t \in Seq(Char)
  PROVE  Parsed(t).sound <=> ~Stray(t)
  <1> DEFINE M == Len(t) + 1
  <1>1. M \in Nat /\ 1 \in 1..M /\ Len(t) \in Nat /\ DOMAIN t = 1..Len(t)
    OBVIOUS
  <1>2. PICK p : Parses(t, p) /\ p[1] = Parsed(t)
    BY ParseExists
  <1> DEFINE H == {i \in 1..M : Fresh(t, i) => (p[i].sound <=> SoundFrom(t, i))}
  <1>3. ASSUME NEW i \in 1..M, \A j \in (i + 1)..M : j \in H PROVE i \in H
    <2> SUFFICES ASSUME Fresh(t, i) PROVE p[i].sound <=> SoundFrom(t, i)
      OBVIOUS
    <2>1. p[i] = ParseFrom(t, p, i)
      BY <1>2 DEF Parses
    <2>2. CASE i > Len(t)
      <3>1. p[i].sound
        BY <2>1, <2>2 DEF ParseFrom
      <3>2. i..Len(t) = {}
        BY <1>1, <2>2
      <3>3. QED
        BY <3>1, <3>2 DEF SoundFrom
    <2>3. CASE ~(i > Len(t))
      <3>1. i \in 1..Len(t)
        BY <1>1, <2>3
      <3>2. PICK n : n = ParseNext(t, i)
        OBVIOUS
      <3>3. n \in (i + 1)..M /\ n \in 1..M
        <4>1. n \in (i + 1)..(Len(t) + 1)
          BY <3>1, <3>2, ParseNextType
        <4>2. QED
          BY <1>1, <4>1
      <3>4. p[n].sound <=> SoundFrom(t, n)
        <4>1. Fresh(t, n)
          BY <3>1, <3>2, FreshNext
        <4>2. n \in H
          BY <1>3, <3>3
        <4>3. QED
          BY <4>1, <4>2
      <3>5. p[n] \in Findings
        BY <1>2, <3>3 DEF Parses
      <3>6. CASE t[i] = "$" /\ At(t, i + 1) # "$" /\ PlaceholderAt(t, i) = NoPlaceholder
        <4>1. p[i] = [p[n] EXCEPT !.sound = FALSE]
          BY <2>1, <2>3, <3>2, <3>6, Zenon DEF ParseFrom, ParseNext
        <4>2. ~p[i].sound
          BY <3>5, <4>1 DEF Findings
        <4>3. ~SoundFrom(t, i)
          BY <3>1, <3>6, SoundStep
        <4>4. QED
          BY <4>2, <4>3
      <3>7. CASE ~(t[i] = "$" /\ At(t, i + 1) # "$" /\ PlaceholderAt(t, i) = NoPlaceholder)
        <4>1. \/ p[i] = p[n]
              \/ p[i] = [p[n] EXCEPT !.names = @ \cup {PlaceholderAt(t, i).name}]
          BY <2>1, <2>3, <3>2, <3>7, Zenon DEF ParseFrom, ParseNext
        <4>2. p[i].sound = p[n].sound
          BY <3>5, <4>1 DEF Findings
        <4>3. SoundFrom(t, i) <=> SoundFrom(t, n)
          BY <3>1, <3>2, <3>7, SoundStep
        <4>4. QED
          BY <3>4, <4>2, <4>3
      <3>8. QED
        BY <3>6, <3>7
    <2>4. QED
      BY <2>2, <2>3
  <1>4. \A i \in 1..M : i \in H
    <2>1. \A i \in 1..M : (\A j \in (i + 1)..M : j \in H) => i \in H
      BY <1>3
    <2> HIDE DEF H, M
    <2>2. QED
      BY <1>1, <2>1, DownwardInduction
  <1>5. Fresh(t, 1)
    <2>1. At(t, 1 - 1) # "$"
      BY AtFront
    <2>2. QED
      BY <1>1, <2>1, EvenAtStart DEF Fresh
  <1>6. p[1].sound <=> SoundFrom(t, 1)
    <2>1. 1 \in H
      BY <1>1, <1>4
    <2>2. QED
      BY <1>5, <2>1
  <1>7. SoundFrom(t, 1) <=> ~Stray(t)
    BY <1>1 DEF SoundFrom, Stray
  <1>8. QED
    BY <1>2, <1>6, <1>7

-----------------------------------------------------------------------------
(* The two find the same names.                                            *)

\* Both find the same names in a template that has no stray "$" and joins no name.
LEMMA ReadingsAgree ==
  ASSUME NEW t \in Seq(Char), ~Joined(t), Parsed(t).sound
  PROVE  Scanned(t) = Parsed(t).names
  <1> DEFINE M == Len(t) + 1
  <1>1. M \in Nat /\ 1 \in 1..M /\ Len(t) \in Nat
    OBVIOUS
  <1>2. Fresh(t, 1)
    <2>1. At(t, 1 - 1) # "$"
      BY AtFront
    <2>2. QED
      BY <1>1, <2>1, EvenAtStart DEF Fresh
  <1>3. PICK w : Unescapes(t, w) /\ w[1] = WithoutEscapes(t)
    BY UnescapeExists
  <1>4. PICK p : Parses(t, p) /\ p[1] = Parsed(t)
    BY ParseExists
  <1> DEFINE H == {i \in 1..M : p[i].sound /\ Fresh(t, i) => Scan(w[i]) = p[i].names}
  <1>5. ASSUME NEW i \in 1..M, \A j \in (i + 1)..M : j \in H PROVE i \in H
    <2> SUFFICES ASSUME p[i].sound, Fresh(t, i) PROVE Scan(w[i]) = p[i].names
      OBVIOUS
    <2>1. i \in Nat
      BY <1>1
    <2>2. w[i] = UnescapeFrom(t, w, i)
      BY <1>3 DEF Unescapes
    <2>3. p[i] = ParseFrom(t, p, i)
      BY <1>4 DEF Parses
    <2>4. ASSUME NEW j \in (i + 1)..M, j = ParseNext(t, i), i \in 1..Len(t), p[j].sound
          PROVE  Scan(w[j]) = p[j].names
      <3>1. Fresh(t, j)
        BY <2>4, FreshNext
      <3>2. j \in H
        BY <1>5
      <3>3. QED
        BY <2>4, <3>1, <3>2
    <2>5. CASE i > Len(t)
      <3>1. w[i] = <<>> /\ p[i] = [names |-> {}, sound |-> TRUE]
        BY <2>2, <2>3, <2>5 DEF UnescapeFrom, ParseFrom
      <3>2. Scan(<<>>) = {}
        BY DEF Scan
      <3>3. QED
        BY <3>1, <3>2
    <2>6. CASE ~(i > Len(t))
      <3>1. i \in 1..Len(t) /\ i + 1 \in (i + 1)..M
        BY <1>1, <2>6
      <3>2. CASE t[i] # "$"
        <4>1. p[i] = p[i + 1]
          BY <2>3, <2>6, <3>2 DEF ParseFrom
        <4>2. Plain(t, i)
          BY <3>1, <3>2 DEF Plain
        <4>3. t[i] \in Char /\ w[i + 1] \in Seq(Char) /\ w[i] = <<t[i]>> \o w[i + 1]
          BY <1>3, <4>2, PlainStep
        <4>4. Scan(<<t[i]>> \o w[i + 1]) = Scan(w[i + 1]) \cup
                IF t[i] = "$" THEN {PlaceholderAt(<<t[i]>> \o w[i + 1], 1).name} \ {<<>>} ELSE {}
          BY <4>3, ScanStep
        <4>5. Scan(w[i]) = Scan(w[i + 1])
          BY <3>2, <4>3, <4>4, Zenon
        <4>6. i + 1 = ParseNext(t, i)
          BY <3>2 DEF ParseNext
        <4>7. QED
          BY <2>4, <3>1, <4>1, <4>5, <4>6
      <3>3. CASE t[i] = "$" /\ At(t, i + 1) = "$"
        <4>1. i + 2 \in (i + 1)..M
          <5>1. i + 2 \in 1..(Len(t) + 1)
            BY <3>1, <3>3, AtNext, NoCharIsNone
          <5>2. QED
            BY <2>1, <5>1
        <4>2. p[i] = p[i + 2]
          BY <2>3, <2>6, <3>3 DEF ParseFrom
        <4>3. w[i] = w[i + 2]
          BY <2>2, <2>6, <3>3 DEF UnescapeFrom
        <4>4. i + 2 = ParseNext(t, i)
          BY <3>3 DEF ParseNext
        <4>5. QED
          BY <2>4, <3>1, <4>1, <4>2, <4>3, <4>4
      <3>4. CASE t[i] = "$" /\ At(t, i + 1) # "$" /\ PlaceholderAt(t, i) = NoPlaceholder
        <4>1. p[i] = [p[i + 1] EXCEPT !.sound = FALSE]
          BY <2>3, <2>6, <3>4, Zenon DEF ParseFrom
        <4>2. p[i + 1] \in Findings
          BY <1>4, <3>1 DEF Parses
        <4>3. ~p[i].sound
          BY <4>1, <4>2 DEF Findings
        <4>4. QED
          BY <4>3
      <3>5. CASE t[i] = "$" /\ At(t, i + 1) # "$" /\ PlaceholderAt(t, i) # NoPlaceholder
        <4> DEFINE q == PlaceholderAt(t, i)
        <4>1. p[i] = [p[q.next] EXCEPT !.names = @ \cup {q.name}]
          BY <2>3, <2>6, <3>5, Zenon DEF ParseFrom
        <4>2. q.next \in (i + 2)..(Len(t) + 1)
          BY <3>1, <3>5, PlaceholderType
        <4>3. Scan(w[i]) = Scan(w[q.next]) \cup {q.name}
          <5>1. Opens(t, i)
            <6>1. At(t, i) = t[i]
              BY <3>1 DEF At
            <6>2. QED
              BY <3>5, <6>1 DEF Opens, Fresh
          <5>2. QED
            BY <1>3, <3>1, <3>5, <5>1, ScanPlaceholder
        <4>n. q.next = ParseNext(t, i)
          BY <3>5 DEF ParseNext
        <4> HIDE DEF q
        <4>4. q.next \in (i + 1)..M /\ q.next \in 1..M
          BY <2>1, <4>2
        <4>5. p[q.next] \in Findings
          BY <1>4, <4>4 DEF Parses
        <4>6. p[i].sound = p[q.next].sound /\ p[i].names = p[q.next].names \cup {q.name}
          BY <4>1, <4>5 DEF Findings
        <4>7. Scan(w[q.next]) = p[q.next].names
          BY <2>4, <3>1, <4>4, <4>6, <4>n
        <4>8. QED
          BY <4>3, <4>6, <4>7
      <3>6. QED
        BY <3>2, <3>3, <3>4, <3>5
    <2>7. QED
      BY <2>5, <2>6
  <1>6. \A i \in 1..M : i \in H
    <2>1. \A i \in 1..M : (\A j \in (i + 1)..M : j \in H) => i \in H
      BY <1>5
    <2> HIDE DEF H, M
    <2>2. QED
      BY <1>1, <2>1, DownwardInduction
  <1>7. Scan(w[1]) = p[1].names
    <2>1. 1 \in H
      BY <1>1, <1>6
    <2>2. QED
      BY <1>2, <1>4, <2>1
  <1>8. Scanned(t) = Scan(WithoutEscapes(t))
    BY DEF Scanned, Scan
  <1>9. QED
    BY <1>3, <1>4, <1>7, <1>8

-----------------------------------------------------------------------------
(* What load_extensions takes, and what is answered with it.               *)

\* A loaded catalogue is one that passed the validation; an answer is judged when it is given.
ConfigOK(c) ==
  /\ \A i \in DOMAIN c.prompts :
       c.prompts[i].template \in Seq(Char) /\ ValidPrompt(c.prompts[i])
  /\ \A i \in DOMAIN c.resources : c.resources[i].path \in Seq(Piece)

CatInv ==
  /\ file \in File \cup {Missing, Unreadable}
  /\ ConfigOK(config)
  /\ PromptsRender
  /\ ParametersStayApart

\* load_config validates every prompt it hands on (extensions/config.py:85-104).
LEMMA LoadedIsValid ==
  ASSUME NEW c \in File, ValidCatalogue(c)
  PROVE  ConfigOK(c)
  <1>1. \A i \in DOMAIN c.prompts : ValidPrompt(c.prompts[i])
    BY DEF ValidCatalogue, Distinct
  <1>2. QED
    BY <1>1, FileAssumption DEF ConfigOK

\* A prompt that was accepted renders but for a stray "$" (prompts.py:47-48).
LEMMA ValidPromptRenders ==
  ASSUME NEW p, p.template \in Seq(Char), ValidPrompt(p), ~Joined(p.template)
  PROVE  /\ Parsed(p.template).sound <=> ~Stray(p.template)
         /\ Parsed(p.template).sound => Parsed(p.template).names = Names(p)
  <1>1. Parsed(p.template).sound => Scanned(p.template) = Parsed(p.template).names
    BY ReadingsAgree
  <1>2. QED
    BY <1>1, SoundIsStray DEF ValidPrompt

\* The parameters of a path are finitely many of its pieces.
LEMMA ParametersFinite ==
  ASSUME NEW r, r.path \in Seq(Piece)
  PROVE  IsFiniteSet(Parameters(r)) /\ Parameters(r) \in SUBSET Placeholder
  <1> DEFINE pieces == {r.path[i] : i \in DOMAIN r.path}
             f == [i \in DOMAIN r.path |-> r.path[i]]
  <1>1. IsFiniteSet(DOMAIN r.path)
    <2>1. Len(r.path) \in Nat /\ DOMAIN r.path = 1..Len(r.path)
      OBVIOUS
    <2>2. QED
      BY <2>1, FS_Interval
  <1>2. f \in Surjection(DOMAIN r.path, pieces)
    BY DEF Surjection
  <1>3. IsFiniteSet(pieces)
    <2> HIDE DEF f, pieces
    <2> QED BY <1>1, <1>2, FS_Surjection
  <1>4. Parameters(r) \in SUBSET pieces /\ Parameters(r) \in SUBSET Placeholder
    BY DEF Parameters
  <1>5. QED
    <2> HIDE DEF pieces
    <2> QED BY <1>3, <1>4, FS_Subset

\* Whatever the order, reading a resource asks for the path with every parameter in its
\* place and as many segments as the catalogue's (resources.py:68-72).
LEMMA ReadStaysApart ==
  ASSUME NEW r, r.path \in Seq(Piece),
         NEW values \in [Parameters(r) -> Value], NEW order \in SetToSeqs(Parameters(r))
  PROVE  /\ Cardinality(Separators(Interpolated(r.path, order, values)))
              = Cardinality(Separators(r.path))
         /\ Interpolated(r.path, order, values) =
              FlattenSeq([i \in DOMAIN r.path |->
                IF r.path[i] \in DOMAIN values THEN Quote(values[r.path[i]]) ELSE <<r.path[i]>>])
  <1> DEFINE P == Parameters(r)
  <1>1. IsFiniteSet(P) /\ P \in SUBSET Placeholder
    BY ParametersFinite
  <1>2. DOMAIN values = P /\ \A x \in P : values[x] \in Value
    OBVIOUS
  <1>3. Interpolated(r.path, order, values) = FlattenSeq(FilledAll(r.path, P, values))
    <2> HIDE DEF P
    <2> QED BY <1>1, InterpolatedAtOnce DEF P
  <1>4. SeparatorCount(FlattenSeq(FilledAll(r.path, P, values))) = SeparatorCount(r.path)
    <2> HIDE DEF P
    <2> QED BY <1>1, <1>2, FilledAllSeparators
  <1>5. FilledAll(r.path, P, values) =
          [i \in DOMAIN r.path |->
            IF r.path[i] \in DOMAIN values THEN Quote(values[r.path[i]]) ELSE <<r.path[i]>>]
    <2>1. DOMAIN r.path = 1..Len(r.path)
      OBVIOUS
    <2> HIDE DEF P
    <2>2. QED
      BY <1>2, <2>1 DEF FilledAll, Filled
  <1>6. QED
    BY <1>3, <1>4, <1>5 DEF SeparatorCount

\* Nothing is loaded or answered at first.
LEMMA CatInvInit == Init => CatInv
  <1> SUFFICES ASSUME Init PROVE CatInv
    OBVIOUS
  <1>1. config.prompts = <<>> /\ config.resources = <<>> /\ DOMAIN <<>> = {}
    BY DEF Init
  <1>2. ConfigOK(config)
    BY <1>1 DEF ConfigOK
  <1>3. QED
    BY <1>2 DEF Init, CatInv, PromptsRender, Prompted, ParametersStayApart

\* No step of the catalogue disturbs what is loaded, nor what is answered with it.
LEMMA CatInvNext == CatInv /\ [Next]_vars => CatInv'
  <1> SUFFICES ASSUME CatInv, [Next]_vars PROVE CatInv'
    OBVIOUS
  <1>a. /\ file \in File \cup {Missing, Unreadable} /\ ConfigOK(config)
        /\ PromptsRender /\ ParametersStayApart
    BY DEF CatInv
  <1>b. ASSUME UNCHANGED answer PROVE PromptsRender' /\ ParametersStayApart'
    BY <1>a, <1>b DEF PromptsRender, Prompted, ParametersStayApart
  <1>c. ASSUME UNCHANGED config PROVE ConfigOK(config)'
    BY <1>a, <1>c
  <1>1. CASE Swap
    BY <1>a, <1>b, <1>c, <1>1 DEF Swap, CatInv
  <1>2. CASE Find
    BY <1>a, <1>b, <1>c, <1>2 DEF Find, CatInv
  <1>3. CASE Load
    <2>1. UNCHANGED <<file, answer>>
      BY <1>3 DEF Load
    <2>2. ConfigOK(config)'
      <3>1. CASE UNCHANGED config
        BY <1>c, <3>1
      <3>2. CASE file \notin {Missing, Unreadable} /\ ValidCatalogue(file) /\ config' = file
        <4>1. file \in File
          BY <1>a, <3>2
        <4>2. ConfigOK(file)
          BY <3>2, <4>1, LoadedIsValid
        <4>3. QED
          BY <3>2, <4>2
      <3>3. QED
        BY <1>3, <3>1, <3>2 DEF Load
    <2>3. QED
      BY <1>a, <1>b, <2>1, <2>2 DEF CatInv
  <1>4. ASSUME NEW i \in DOMAIN config.prompts, Render(config.prompts[i]) PROVE CatInv'
    <2> DEFINE p == config.prompts[i]
    <2>1. p.template \in Seq(Char) /\ ValidPrompt(p)
      BY <1>a DEF ConfigOK
    <2> HIDE DEF p
    <2>2. /\ UNCHANGED <<file, config>>
          /\ answer' = [kind |-> "prompt", of |-> p,
                        rendered |-> /\ Parsed(p.template).sound
                                     /\ Parsed(p.template).names \subseteq Names(p)]
      BY <1>4 DEF Render, p
    <2>3. PromptsRender'
      <3>1. answer'.of = p /\ (answer'.rendered <=> /\ Parsed(p.template).sound
                                                   /\ Parsed(p.template).names \subseteq Names(p))
        BY <2>2
      <3>2. ASSUME ~Joined(p.template)
            PROVE  /\ answer'.rendered <=> ~Stray(p.template)
                   /\ answer'.rendered => Parsed(p.template).names = Names(p)
        <4>1. /\ Parsed(p.template).sound <=> ~Stray(p.template)
              /\ Parsed(p.template).sound => Parsed(p.template).names = Names(p)
          BY <2>1, <3>2, ValidPromptRenders
        <4>2. QED
          BY <3>1, <4>1
      <3>3. QED
        BY <3>1, <3>2 DEF PromptsRender
    <2>4. ParametersStayApart'
      BY <2>2 DEF ParametersStayApart
    <2>5. QED
      BY <1>a, <1>c, <2>2, <2>3, <2>4 DEF CatInv
  <1>5. ASSUME NEW i \in DOMAIN config.resources, NEW body \in {"json", "text", "error"},
               NEW values \in [Parameters(config.resources[i]) -> Value],
               Read(config.resources[i], values, body)
        PROVE  CatInv'
    <2> DEFINE r == config.resources[i]
    <2>1. r.path \in Seq(Piece)
      BY <1>a DEF ConfigOK
    <2>2. values \in [Parameters(r) -> Value]
      OBVIOUS
    <2> HIDE DEF r
    <2>3. UNCHANGED <<file, config>>
      BY <1>5 DEF Read
    <2>4. PICK order \in SetToSeqs(Parameters(r)) :
            answer' = [kind |-> "resource", of |-> r, values |-> values,
                       path |-> Interpolated(r.path, order, values),
                       result |-> CASE body = "json" -> "parsed"
                                    [] body = "text" /\ r.mimeType # "json" -> "text"
                                    [] OTHER -> "error"]
      BY <1>5, Zenon DEF Read, r
    <2>5. /\ answer'.kind = "resource" /\ answer'.of = r /\ answer'.values = values
          /\ answer'.path = Interpolated(r.path, order, values)
      BY <2>4
    <2>6. PromptsRender'
      BY <2>5 DEF PromptsRender, Prompted
    <2>7. ParametersStayApart'
      <3>1. /\ Cardinality(Separators(answer'.path)) = Cardinality(Separators(r.path))
            /\ answer'.path =
                 FlattenSeq([k \in DOMAIN r.path |->
                   IF r.path[k] \in DOMAIN values
                     THEN Quote(values[r.path[k]]) ELSE <<r.path[k]>>])
        BY <2>1, <2>2, <2>5, ReadStaysApart
      <3>2. QED
        BY <2>5, <3>1, Zenon DEF ParametersStayApart
    <2>8. QED
      BY <1>a, <1>c, <2>3, <2>6, <2>7 DEF CatInv
  <1>6. CASE UNCHANGED vars
    BY <1>a, <1>b, <1>c, <1>6 DEF vars, CatInv
  <1>7. QED
    BY <1>1, <1>2, <1>3, <1>4, <1>5, <1>6 DEF Next

\* The strengthened invariant holds in every reachable state of the catalogue.
LEMMA CatInvHolds == Spec => []CatInv
  BY CatInvInit, CatInvNext, PTL DEF Spec

\* Where the dropped escapes join nothing to a name, a prompt the validation let through is
\* rendered with every argument it declares, or has a stray "$", and then it never is: the
\* validator's regular expressions and string.Template agree on every other template, of any
\* length (extensions/config.py:85-104, prompts.py:47-48).
THEOREM PromptsAreRendered == Spec => []PromptsRender
  <1>1. CatInv => PromptsRender
    BY DEF CatInv
  <1>2. QED
    BY CatInvHolds, <1>1, PTL

\* The replacements of a resource's runner, in any order, put each value where its own
\* placeholder was and nowhere else, and add no segment to the path (extensions/resources.py:68-72).
THEOREM ParametersAreApart == Spec => []ParametersStayApart
  <1>1. CatInv => ParametersStayApart
    BY DEF CatInv
  <1>2. QED
    BY CatInvHolds, <1>1, PTL
=============================================================================
