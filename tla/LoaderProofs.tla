---------------------------- MODULE LoaderProofs ----------------------------
(***************************************************************************)
(* Proofs about OpenApiSource and SpecCache, for any documents, refs,      *)
(* overrides and republications, and any tasks that load them: first how   *)
(* the loader's recursion ends and what it serves, then the cache that     *)
(* holds what was loaded.                                                  *)
(***************************************************************************)
EXTENDS OpenApiSource, SpecCache, SequenceLemmas

-----------------------------------------------------------------------------
(* The inductive invariant.                                                *)

TodoItem == [ref : Ref, path : Path \cup {NoPath}]
Frame == [todo : Seq(TodoItem), seen : Seq(Ref)]

\* The part of SourceTypeOK that a step depends on, with the shape of the stack: a chain
\* repeats no ref, so that it cannot be longer than there are refs.
StateOK ==
  /\ docs \in [Doc -> UNION {Versions[d] : d \in Doc}]
  /\ \A d \in Doc : docs[d] \in Versions[d]
  /\ edits \in 0..MaxEdits
  /\ config \in [client : BOOLEAN, strip : BOOLEAN, routes : BOOLEAN]
  /\ stage \in {"idle", "resolving", "loaded", "served", "failed"}
  /\ error \in {"none", "no backend", "fetch", "no paths", "circular", "fragment",
                "no operations", "route_map"}
  /\ (stage = "failed") <=> (error # "none")
  /\ stack \in Seq(Frame)
  /\ \A i \in DOMAIN stack : Len(stack[i].seen) = i - 1
  /\ \A i \in DOMAIN stack : \A a, b \in DOMAIN stack[i].seen :
       stack[i].seen[a] = stack[i].seen[b] => a = b
  /\ stage \in {"loaded", "served"} => stack = <<>>
  /\ stage = "idle" => stack = <<>> /\ inlined = {} /\ edits = 0
  /\ DOMAIN found \subseteq Path
  /\ found \in [DOMAIN found -> SUBSET Operation]
  /\ inlined \subseteq Ref
  /\ locals \subseteq [doc : Doc, frag : Fragment]

\* What a frame works on: the refs of the root document, or those of the last ref seen.
At(i) == Last(stack[i].seen)
RefsOf(i) == IF i = 1 THEN RootRefs ELSE Below[At(i)]

\* A chain of refs goes downwards from the root document.
ChainOK ==
  \A i \in DOMAIN stack :
    /\ \A j \in DOMAIN stack[i].todo : stack[i].todo[j].ref \in RefsOf(i)
    /\ \A a \in DOMAIN stack[i].seen :
         /\ stack[i].seen[a] \in Reachable
         /\ \A b \in DOMAIN stack[i].seen :
              a < b => stack[i].seen[b] \in Under(stack[i].seen[a])

\* Nothing is passed over: what has been inlined and what is still to follow.
Awaits(i, c) == \E j \in DOMAIN stack[i].todo : stack[i].todo[j].ref = c

Pending == UNION {{c \in Ref : Awaits(i, c)} : i \in DOMAIN stack}

CoverageOK ==
  /\ inlined \subseteq Reachable
  /\ \A r \in inlined : Present(r) /\ Below[r] \subseteq inlined \cup Pending
  /\ RootRefs \subseteq inlined \cup Pending

\* A ref all of whose chains end.
Ends(r) == r \notin Under(r) /\ \A s \in Under(r) : s \notin Under(s)

\* A ref that was inlined is still being resolved, or ends; of what stands in it, each ref
\* is still to follow, is being resolved in the next frame, or ends.
EndingOK ==
  /\ \A r \in inlined : Ends(r) \/ \E i \in DOMAIN stack : i # 1 /\ r = At(i)
  /\ \A i \in DOMAIN stack : i # 1 =>
       \A c \in Below[At(i)] :
         \/ Awaits(i, c)
         \/ i + 1 \in DOMAIN stack /\ c = At(i + 1)
         \/ Ends(c)

\* The operations that a path gets if what it stands for is at r.
OperationsFrom(r) == Operations(Closure({r}, Forward))

PendingFor(p, i, j) ==
  i \in DOMAIN stack /\ j \in DOMAIN stack[i].todo /\ stack[i].todo[j].path = p

\* A path has its documented operations, or a single ref left that leads to them.
LeadsTo(p, i, j) == Documented(p) = OperationsFrom(stack[i].todo[j].ref)

PathOK(p) ==
  /\ \A i, j : PendingFor(p, i, j) =>
       /\ p \in DOMAIN found /\ LeadsTo(p, i, j)
       /\ \A k, l : PendingFor(p, k, l) => k = i /\ l = j
  /\ p \in DOMAIN found => (\E i, j : PendingFor(p, i, j)) \/ found[p] = Documented(p)

PathsOK == \A p \in Path : PathOK(p)

ResolvingOK == ChainOK /\ CoverageOK /\ EndingOK /\ PathsOK /\ DOMAIN found = PathsOf(Root)

LoadedOK ==
  /\ inlined = Reachable /\ ~Cyclic
  /\ DOMAIN found = PathsOf(Root)
  /\ \A p \in DOMAIN found : found[p] = Documented(p)

RefusedOK ==
  /\ error = "circular" => Cyclic
  /\ error = "fragment" => \E r \in Reachable : ~Present(r)
  /\ error = "no operations" => \A p \in PathsOf(Root) : Documented(p) = {}

\* What holds as long as no document was republished.
SettledOK ==
  edits = 0 =>
    /\ stage = "resolving" => ResolvingOK
    /\ stage \in {"loaded", "served"} => LoadedOK
    /\ RefusedOK

ServedOK == stage = "served" => served = NormalizeSpec /\ names = NamesMap(served)

IInv == StateOK /\ SettledOK /\ ServedOK

-----------------------------------------------------------------------------
(* The paths in their order.                                               *)

LEMMA PathsInOrder ==
  /\ Len(PathOrder) \in Nat /\ DOMAIN PathOrder = 1..Len(PathOrder)
  /\ PathOrder \in [1..Len(PathOrder) -> Path]
  /\ \A i, j \in DOMAIN PathOrder : PathOrder[i] = PathOrder[j] => i = j
  <1> DEFINE R == [prefix : Seq(Prefix), rest : STRING]
  <1>1. PathOrder \in Seq(R)
    BY PathAssumption
  <1>2. \A i, j \in DOMAIN PathOrder : PathOrder[i] = PathOrder[j] => i = j
    BY PathAssumption
  <1> HIDE DEF R
  <1>3. QED
    BY <1>1, <1>2 DEF Path

-----------------------------------------------------------------------------
(* Closure is the least set above S that succ does not lead out of.  It is *)
(* reached in as many rounds as there are refs: a round that adds nothing  *)
(* is the last, and every other one adds a ref.                            *)

\* There are finitely many refs.
LEMMA RefIsFinite == IsFiniteSet(Ref) /\ Cardinality(Ref) \in Nat
  <1> DEFINE Frag == Fragment \cup {Whole}
             toRef == [x \in Doc \X Frag |-> [doc |-> x[1], frag |-> x[2]]]
  <1>1. IsFiniteSet(Frag)
    BY FiniteAssumption, FS_AddElement
  <1>2. IsFiniteSet(Doc \X Frag)
    BY <1>1, FiniteAssumption, FS_Product
  <1>3. toRef \in Surjection(Doc \X Frag, Ref)
    <2>1. toRef \in [Doc \X Frag -> Ref]
      BY DEF Ref
    <2>2. ASSUME NEW r \in Ref PROVE \E x \in Doc \X Frag : toRef[x] = r
      <3>1. <<r.doc, r.frag>> \in Doc \X Frag /\ r = [doc |-> r.doc, frag |-> r.frag]
        BY DEF Ref
      <3>2. QED
        BY <3>1
    <2>3. QED
      BY <2>1, <2>2 DEF Surjection
  <1>4. IsFiniteSet(Ref)
    BY <1>2, <1>3, FS_Surjection
  <1>5. QED
    BY <1>4, FS_CardinalityType

\* One round after another, as in Closure.
Round(n, f, S, succ) ==
  IF n = 0 THEN S ELSE f[n - 1] \cup UNION {succ[r] : r \in f[n - 1]}

Rounds(S, succ) == CHOOSE f : f = [n \in 0..Cardinality(Ref) |-> Round(n, f, S, succ)]

\* The rounds of Closure are what its recursive definition says.
LEMMA RoundsGo ==
  ASSUME NEW S \in SUBSET Ref, NEW succ \in [Ref -> SUBSET Ref]
  PROVE  /\ Closure(S, succ) = Rounds(S, succ)[Cardinality(Ref)]
         /\ Rounds(S, succ) \in [0..Cardinality(Ref) -> SUBSET Ref]
         /\ \A n \in 0..Cardinality(Ref) :
              Rounds(S, succ)[n] = Round(n, Rounds(S, succ), S, succ)
  <1> DEFINE N == Cardinality(Ref)
             Good(f) == f = [n \in 0..N |-> Round(n, f, S, succ)]
             Step == [x \in (1..N) \X SUBSET Ref |-> x[2] \cup UNION {succ[r] : r \in x[2]}]
  <1>1. N \in Nat
    BY RefIsFinite
  <1>2. Step \in [(1..N) \X SUBSET Ref -> SUBSET Ref]
    <2>1. ASSUME NEW x \in (1..N) \X SUBSET Ref
          PROVE  x[2] \cup UNION {succ[r] : r \in x[2]} \in SUBSET Ref
      <3>1. x[2] \subseteq Ref
        OBVIOUS
      <3>2. QED
        BY <3>1
    <2>2. QED
      BY <2>1
  <1>3. PICK f \in [0..N -> SUBSET Ref] : f[0] = S /\ \A i \in 1..N : f[i] = Step[<<i, f[i - 1]>>]
    <2>1. Iterates(N, SUBSET Ref, S, Step) # {}
      <3> HIDE DEF N, Step
      <3> QED BY <1>1, <1>2, Iteration
    <2> HIDE DEF N, Step
    <2> QED BY <2>1 DEF Iterates
  <1>4. ASSUME NEW n \in 0..N PROVE f[n] = Round(n, f, S, succ)
    <2>1. CASE n = 0
      BY <1>3, <2>1 DEF Round
    <2>2. CASE n # 0
      <3>1. n \in 1..N /\ n - 1 \in 0..N
        BY <1>1, <2>2
      <3>2. f[n] = Step[<<n, f[n - 1]>>] /\ f[n - 1] \in SUBSET Ref
        BY <1>3, <3>1
      <3>3. <<n, f[n - 1]>> \in (1..N) \X SUBSET Ref
        BY <3>1, <3>2
      <3>4. f[n] = f[n - 1] \cup UNION {succ[r] : r \in f[n - 1]}
        <4> HIDE DEF N
        <4> QED BY <3>2, <3>3
      <3>5. QED
        BY <2>2, <3>4 DEF Round
    <2>3. QED
      BY <2>1, <2>2
  <1>5. Good(f)
    BY <1>4
  <1>6. Good(Rounds(S, succ))
    <2>1. \E g : Good(g)
      <3> HIDE DEF Good
      <3> QED BY <1>5
    <2>2. Rounds(S, succ) = CHOOSE g : Good(g)
      BY DEF Rounds
    <2> HIDE DEF Good
    <2> QED BY <2>1, <2>2
  <1>7. Closure(S, succ) = Rounds(S, succ)[N]
    BY DEF Closure, Rounds, Round
  <1> DEFINE R == Rounds(S, succ)
  <1>8. \A n \in 0..N : R[n] = Round(n, R, S, succ)
    BY <1>6, Zenon
  <1>9. DOMAIN R = 0..N
    BY <1>6, Zenon
  <1>10. \A n \in 0..N : R[n] \in SUBSET Ref
    <2> DEFINE H == {n \in 0..N : R[n] \in SUBSET Ref}
    <2>1. 0 \in H
      <3>1. 0 \in 0..N /\ R[0] = Round(0, R, S, succ)
        BY <1>1, <1>8
      <3>2. R[0] = S
        BY <3>1 DEF Round
      <3>3. QED
        BY <3>1, <3>2
    <2>2. ASSUME NEW n \in 1..N, n - 1 \in H PROVE n \in H
      <3>1. R[n] = R[n - 1] \cup UNION {succ[r] : r \in R[n - 1]}
        <4>1. n \in 0..N /\ n # 0
          BY <1>1
        <4>2. R[n] = Round(n, R, S, succ)
          BY <1>8, <4>1
        <4>3. QED
          BY <4>1, <4>2 DEF Round
      <3>2. R[n - 1] \subseteq Ref
        BY <2>2
      <3>3. QED
        <4> HIDE DEF R
        <4> QED BY <3>1, <3>2
    <2>3. \A n \in 1..N : n - 1 \in H => n \in H
      BY <2>2
    <2> HIDE DEF H, N
    <2>4. \A n \in 0..N : n \in H
      BY <1>1, <2>1, <2>3, BoundedInduction
    <2> USE DEF H
    <2> QED BY <2>4
  <1>11. R \in [0..N -> SUBSET Ref]
    <2>1. R = [n \in 0..N |-> R[n]]
      BY <1>6, <1>8, <1>9, Zenon
    <2> HIDE DEF R, N
    <2> QED BY <1>10, <2>1
  <1>12. QED
    BY <1>7, <1>8, <1>11

\* It contains S and only refs ...
LEMMA ClosureContains ==
  ASSUME NEW S \in SUBSET Ref, NEW succ \in [Ref -> SUBSET Ref]
  PROVE  S \subseteq Closure(S, succ) /\ Closure(S, succ) \subseteq Ref
  <1> DEFINE N == Cardinality(Ref)
             R == Rounds(S, succ)
             H == {n \in 0..N : S \subseteq R[n]}
  <1>1. N \in Nat
    BY RefIsFinite
  <1>2. /\ Closure(S, succ) = R[N] /\ R \in [0..N -> SUBSET Ref]
        /\ \A n \in 0..N : R[n] = Round(n, R, S, succ)
    BY RoundsGo
  <1>3. 0 \in H
    BY <1>1, <1>2 DEF Round
  <1>4. ASSUME NEW n \in 1..N, n - 1 \in H PROVE n \in H
    <2>1. n \in 0..N
      BY <1>1
    <2>2. R[n - 1] \subseteq R[n]
      BY <1>2, <2>1 DEF Round
    <2>3. S \subseteq R[n - 1]
      BY <1>4
    <2>4. QED
      <3> HIDE DEF R
      <3> QED BY <2>1, <2>2, <2>3
  <1>5. \A n \in 0..N : n \in H
    <2>1. \A n \in 1..N : n - 1 \in H => n \in H
      BY <1>4
    <2> HIDE DEF H, N
    <2> QED BY <1>1, <1>3, <2>1, BoundedInduction
  <1>6. N \in 0..N
    BY <1>1
  <1>7. QED
    BY <1>2, <1>5, <1>6

Closed(T, succ) == \A r \in T : succ[r] \subseteq T

\* ... succ does not lead out of it ...
LEMMA ClosureClosed ==
  ASSUME NEW S \in SUBSET Ref, NEW succ \in [Ref -> SUBSET Ref]
  PROVE  Closed(Closure(S, succ), succ)
  <1> DEFINE N == Cardinality(Ref)
             R == Rounds(S, succ)
             H == {n \in 0..N : Closed(R[n], succ) \/ Cardinality(R[n]) >= n}
  <1>1. IsFiniteSet(Ref) /\ N \in Nat
    BY RefIsFinite
  <1>2. /\ Closure(S, succ) = R[N] /\ R \in [0..N -> SUBSET Ref]
        /\ \A n \in 0..N : R[n] = Round(n, R, S, succ)
    BY RoundsGo
  <1>3. ASSUME NEW n \in 0..N
        PROVE  /\ R[n] \subseteq Ref /\ IsFiniteSet(R[n])
               /\ Cardinality(R[n]) \in Nat /\ Cardinality(R[n]) <= N
               /\ Cardinality(R[n]) = N => R[n] = Ref
    <2>1. R[n] \in SUBSET Ref
      BY <1>2
    <2>2. QED
      BY <1>1, <2>1, FS_Subset, FS_CardinalityType
  <1>4. 0 \in H
    <2>1. 0 \in 0..N
      BY <1>1
    <2>2. Cardinality(R[0]) >= 0
      BY <1>3, <2>1
    <2>3. QED
      BY <2>1, <2>2
  <1>5. ASSUME NEW n \in 1..N, n - 1 \in H PROVE n \in H
    <2> DEFINE A == R[n - 1]
               B == R[n]
    <2>1. n \in 0..N /\ n - 1 \in 0..N
      BY <1>1
    <2>2. B = A \cup UNION {succ[r] : r \in A}
      BY <1>2, <2>1 DEF Round
    <2>3. CASE Closed(A, succ)
      <3>1. B = A
        <4> HIDE DEF A, B
        <4> QED BY <2>2, <2>3 DEF Closed
      <3>2. QED
        BY <2>1, <2>3, <3>1
    <2>4. CASE ~Closed(A, succ)
      <3>1. PICK r \in A : ~(succ[r] \subseteq A)
        BY <2>4 DEF Closed
      <3>2. A \subseteq B /\ A # B
        <4> HIDE DEF A, B
        <4> QED BY <2>2, <3>1
      <3>3. /\ IsFiniteSet(B) /\ Cardinality(A) \in Nat /\ Cardinality(B) \in Nat
        BY <1>3, <2>1
      <3>4. Cardinality(A) <= Cardinality(B) /\ Cardinality(A) # Cardinality(B)
        <4> HIDE DEF A, B
        <4> QED BY <3>2, <3>3, FS_Subset
      <3>5. Cardinality(A) >= n - 1
        BY <1>5, <2>4
      <3>6. Cardinality(B) >= n
        BY <3>3, <3>4, <3>5
      <3>7. QED
        BY <2>1, <3>6
    <2>5. QED
      BY <2>3, <2>4
  <1>6. N \in 0..N
    BY <1>1
  <1>7. N \in H
    <2>1. \A n \in 1..N : n - 1 \in H => n \in H
      BY <1>5
    <2> HIDE DEF H, N
    <2>2. \A n \in 0..N : n \in H
      BY <1>1, <1>4, <2>1, BoundedInduction
    <2>3. QED
      BY <1>6, <2>2
  <1>8. CASE Cardinality(R[N]) >= N
    <2>1. R[N] = Ref
      BY <1>1, <1>3, <1>6, <1>8
    <2>2. QED
      BY <1>2, <2>1 DEF Closed
  <1>9. QED
    BY <1>2, <1>7, <1>8

\* ... and it is the least such set.
LEMMA ClosureLeast ==
  ASSUME NEW S \in SUBSET Ref, NEW succ \in [Ref -> SUBSET Ref],
         NEW T, S \subseteq T, Closed(T, succ)
  PROVE  Closure(S, succ) \subseteq T
  <1> DEFINE N == Cardinality(Ref)
             R == Rounds(S, succ)
             H == {n \in 0..N : R[n] \subseteq T}
  <1>1. N \in Nat
    BY RefIsFinite
  <1>2. /\ Closure(S, succ) = R[N] /\ R \in [0..N -> SUBSET Ref]
        /\ \A n \in 0..N : R[n] = Round(n, R, S, succ)
    BY RoundsGo
  <1>3. 0 \in H
    BY <1>1, <1>2 DEF Round
  <1>4. ASSUME NEW n \in 1..N, n - 1 \in H PROVE n \in H
    <2>1. n \in 0..N
      BY <1>1
    <2>2. R[n] = R[n - 1] \cup UNION {succ[r] : r \in R[n - 1]}
      BY <1>2, <2>1 DEF Round
    <2>3. R[n - 1] \subseteq T
      BY <1>4
    <2>4. QED
      <3>1. R[n] \subseteq T
        <4> HIDE DEF R
        <4> QED BY <2>2, <2>3 DEF Closed
      <3>2. QED
        BY <2>1, <3>1
  <1>5. N \in H
    <2>1. \A n \in 1..N : n - 1 \in H => n \in H
      BY <1>4
    <2>2. N \in 0..N
      BY <1>1
    <2> HIDE DEF H, N
    <2>3. \A n \in 0..N : n \in H
      BY <1>1, <1>3, <2>1, BoundedInduction
    <2>4. QED
      BY <2>2, <2>3
  <1>6. QED
    BY <1>2, <1>5

\* What S leads to, ref by ref.
LEMMA ClosureFromEach ==
  ASSUME NEW S \in SUBSET Ref, NEW succ \in [Ref -> SUBSET Ref]
  PROVE  Closure(S, succ) = S \cup UNION {Closure(succ[r], succ) : r \in S}
  <1> DEFINE C(r) == Closure(succ[r], succ)
             T == S \cup UNION {C(r) : r \in S}
  <1>1. ASSUME NEW r \in Ref
        PROVE  succ[r] \subseteq C(r) /\ C(r) \subseteq Ref /\ Closed(C(r), succ)
    <2>1. succ[r] \in SUBSET Ref
      OBVIOUS
    <2>2. QED
      BY <2>1, ClosureContains, ClosureClosed
  <1>2. Closed(T, succ)
    <2> SUFFICES ASSUME NEW s \in T PROVE succ[s] \subseteq T
      BY DEF Closed
    <2>1. CASE s \in S
      <3>1. s \in Ref /\ succ[s] \subseteq C(s)
        BY <1>1, <2>1
      <3> HIDE DEF C
      <3> QED BY <2>1, <3>1
    <2>2. CASE \E r \in S : s \in C(r)
      <3>1. PICK r \in S : s \in C(r)
        BY <2>2
      <3>2. succ[s] \subseteq C(r)
        BY <1>1, <3>1 DEF Closed
      <3> HIDE DEF C
      <3> QED BY <3>1, <3>2
    <2>3. QED
      <3> HIDE DEF C
      <3> QED BY <2>1, <2>2
  <1>3. Closure(S, succ) \subseteq T
    <2>1. S \subseteq T
      OBVIOUS
    <2> HIDE DEF T
    <2> QED BY <1>2, <2>1, ClosureLeast
  <1>4. S \subseteq Closure(S, succ) /\ Closed(Closure(S, succ), succ)
    BY ClosureContains, ClosureClosed
  <1>5. ASSUME NEW r \in S PROVE C(r) \subseteq Closure(S, succ)
    <2>1. succ[r] \in SUBSET Ref /\ succ[r] \subseteq Closure(S, succ)
      BY <1>4 DEF Closed
    <2>2. QED
      BY <1>4, <2>1, ClosureLeast
  <1>6. T \subseteq Closure(S, succ)
    <2> HIDE DEF C
    <2> QED BY <1>4, <1>5
  <1>7. QED
    BY <1>3, <1>6

-----------------------------------------------------------------------------
(* The documents, and what is left to follow in them.                      *)

\* What a published document holds, at every place in it.
LEMMA DocumentParts ==
  ASSUME StateOK, NEW d \in Doc
  PROVE  /\ Whole \in DOMAIN docs[d] /\ IsFiniteSet(DOMAIN docs[d])
         /\ DOMAIN docs[d] \subseteq Fragment \cup {Whole} \cup Path
         /\ d # Root => DOMAIN docs[d] \subseteq Fragment \cup {Whole}
         /\ \A f \in DOMAIN docs[d] :
              /\ docs[d][f] \in Place
              /\ docs[d][f].isRef => /\ f # Whole /\ Len(docs[d][f].refs) = 1
                                     /\ docs[d][f].ops = {}
  <1>1. docs[d] \in Versions[d]
    BY DEF StateOK
  <1> DEFINE v == docs[d]
  <1>2. /\ Whole \in DOMAIN v
        /\ DOMAIN v \subseteq Fragment \cup {Whole} \cup (IF d = Root THEN Path ELSE {})
        /\ \A f \in DOMAIN v : v[f] \in Place
        /\ \A f \in DOMAIN v : v[f].isRef => /\ f # Whole /\ Len(v[f].refs) = 1
                                             /\ v[f].ops = {}
    BY <1>1, VersionAssumption
  <1>3. IsFiniteSet(Path)
    <2>1. PathOrder \in [1..Len(PathOrder) -> Path] /\ Len(PathOrder) \in Nat
          /\ DOMAIN PathOrder = 1..Len(PathOrder)
      BY PathsInOrder
    <2>2. PathOrder \in Surjection(1..Len(PathOrder), Path)
      BY <2>1 DEF Path, Surjection
    <2>3. IsFiniteSet(1..Len(PathOrder))
      BY <2>1, FS_Interval
    <2>4. QED
      BY <2>2, <2>3, FS_Surjection
  <1>4. IsFiniteSet(Fragment \cup {Whole} \cup Path)
    BY <1>3, FiniteAssumption, FS_AddElement, FS_Union
  <1>5. DOMAIN v \subseteq Fragment \cup {Whole} \cup Path
    BY <1>2
  <1>6. IsFiniteSet(DOMAIN v)
    BY <1>4, <1>5, FS_Subset
  <1>7. QED
    BY <1>2, <1>5, <1>6

\* All of a document has the refs of its parts.
LEMMA WholeContent ==
  ASSUME StateOK, NEW d \in Doc
  PROVE  /\ Content(d, Whole) \in Place /\ ~Content(d, Whole).isRef
         /\ Content(d, Whole).ops = docs[d][Whole].ops
         /\ Range(Content(d, Whole).refs) = UNION {Range(docs[d][g].refs) : g \in DOMAIN docs[d]}
  <1> DEFINE v == docs[d]
             places == SetToSeq(DOMAIN v)
             parts == [i \in DOMAIN places |-> v[places[i]].refs]
  <1>1. /\ Whole \in DOMAIN v /\ IsFiniteSet(DOMAIN v)
        /\ \A f \in DOMAIN v : v[f] \in Place
    BY DocumentParts
  <1>2. places \in Seq(DOMAIN v) /\ Range(places) = DOMAIN v
    BY <1>1, SetToSeqLists
  <1>3. DOMAIN places = 1..Len(places) /\ Len(places) \in Nat
    <2> HIDE DEF places
    <2> QED BY <1>2
  <1>4. \A i \in DOMAIN places : places[i] \in DOMAIN v
    <2> HIDE DEF places
    <2> QED BY <1>2
  <1>5. \A i \in DOMAIN places : parts[i] \in Seq(Ref)
    <2> HIDE DEF places, v
    <2> QED BY <1>1, <1>4 DEF Place
  <1>6. parts \in Seq(Seq(Ref)) /\ Len(parts) = Len(places)
    <2>1. parts \in [1..Len(places) -> Seq(Ref)]
      <3> HIDE DEF places, v
      <3> QED BY <1>3, <1>5
    <2> HIDE DEF parts, places
    <2> QED BY <2>1, <1>3
  <1>7. FlattenSeq(parts) \in Seq(Ref)
    <2> HIDE DEF parts
    <2> QED BY <1>6, FlattenType
  <1>8. Range(FlattenSeq(parts)) = UNION {Range(parts[i]) : i \in 1..Len(parts)}
    <2> HIDE DEF parts
    <2> QED BY <1>6, FlattenRange
  <1>9. UNION {Range(parts[i]) : i \in 1..Len(parts)} = UNION {Range(v[g].refs) : g \in DOMAIN v}
    <2>1. \A i \in DOMAIN places : parts[i] = v[places[i]].refs
      OBVIOUS
    <2>2. \A g \in DOMAIN v : \E i \in DOMAIN places : places[i] = g
      <3> HIDE DEF places
      <3> QED BY <1>2 DEF Range
    <2>3. 1..Len(parts) = DOMAIN places
      BY <1>3, <1>6
    <2> HIDE DEF parts, places, v
    <2> QED BY <1>4, <2>1, <2>2, <2>3
  <1>10. UNION {v[g].locals : g \in DOMAIN v} \subseteq Fragment
    <2> HIDE DEF v
    <2> QED BY <1>1 DEF Place
  <1>11. Content(d, Whole) = [isRef |-> FALSE, refs |-> FlattenSeq(parts), ops |-> v[Whole].ops,
                              locals |-> UNION {v[g].locals : g \in DOMAIN v}]
    BY DEF Content
  <1>12. v[Whole].ops \subseteq Operation
    <2> HIDE DEF v
    <2> QED BY <1>1 DEF Place
  <1>13. QED
    <2> DEFINE c == Content(d, Whole)
               flat == FlattenSeq(parts)
               pointers == UNION {v[g].locals : g \in DOMAIN v}
    <2>1. flat \in Seq(Ref) /\ pointers \in SUBSET Fragment
      BY <1>7, <1>10
    <2>2. c = [isRef |-> FALSE, refs |-> flat, ops |-> v[Whole].ops, locals |-> pointers]
      BY <1>11
    <2>3. c \in Place /\ ~c.isRef /\ c.ops = v[Whole].ops /\ c.refs = flat
      <3> HIDE DEF flat, pointers, v, c
      <3> QED BY <1>12, <2>1, <2>2 DEF Place
    <2>4. Range(flat) = UNION {Range(v[g].refs) : g \in DOMAIN v}
      BY <1>8, <1>9
    <2>5. QED
      <3> HIDE DEF flat
      <3> QED BY <2>3, <2>4

\* What a ref that can be followed leads to.
LEMMA ContentType ==
  ASSUME StateOK, NEW r \in Ref, Present(r)
  PROVE  /\ Content(r.doc, r.frag) \in Place
         /\ Content(r.doc, r.frag).isRef => /\ Len(Content(r.doc, r.frag).refs) = 1
                                            /\ Content(r.doc, r.frag).ops = {}
  <1>1. r.doc \in Doc
    BY DEF Ref
  <1>2. CASE r.frag = Whole
    BY <1>1, <1>2, WholeContent
  <1>3. CASE r.frag # Whole
    <2>1. Content(r.doc, r.frag) = docs[r.doc][r.frag] /\ r.frag \in DOMAIN docs[r.doc]
      BY <1>3 DEF Content, Present
    <2>2. QED
      BY <1>1, <2>1, DocumentParts
  <1>4. QED
    BY <1>2, <1>3

\* The graphs of the refs lead from refs to refs.
LEMMA GraphType ==
  ASSUME StateOK
  PROVE  /\ Below \in [Ref -> SUBSET Ref] /\ Forward \in [Ref -> SUBSET Ref]
         /\ RootRefs \subseteq Ref
         /\ RootRefs = UNION {Range(docs[Root][g].refs) : g \in DOMAIN docs[Root]}
  <1>1. ASSUME NEW r \in Ref, Present(r) PROVE Range(Content(r.doc, r.frag).refs) \subseteq Ref
    <2>1. Content(r.doc, r.frag).refs \in Seq(Ref)
      BY <1>1, ContentType DEF Place
    <2>2. QED
      BY <2>1, RangeOfSeq
  <1>2. Below \in [Ref -> SUBSET Ref]
    BY <1>1 DEF Below
  <1>3. Forward \in [Ref -> SUBSET Ref]
    BY <1>2 DEF Forward
  <1>4. Content(Root, Whole).refs \in Seq(Ref)
    BY RootAssumption, WholeContent DEF Place
  <1>5. RootRefs \subseteq Ref
    BY <1>4, RangeOfSeq DEF RootRefs
  <1>6. QED
    BY <1>2, <1>3, <1>5, RootAssumption, WholeContent DEF RootRefs

\* The refs of a place become the todo of the call that follows them, in their order.
LEMMA TodoType ==
  ASSUME NEW place \in Place, NEW path \in Path \cup {NoPath}
  PROVE  /\ Todo(place, path) \in Seq(TodoItem) /\ Len(Todo(place, path)) = Len(place.refs)
         /\ \A i \in 1..Len(place.refs) :
              Todo(place, path)[i] = [ref  |-> place.refs[i],
                                      path |-> IF place.isRef THEN path ELSE NoPath]
  <1>1. place.refs \in Seq(Ref)
    BY DEF Place
  <1>2. Len(place.refs) \in Nat /\ DOMAIN place.refs = 1..Len(place.refs)
    BY <1>1
  <1>3. \A i \in 1..Len(place.refs) :
          [ref |-> place.refs[i], path |-> IF place.isRef THEN path ELSE NoPath] \in TodoItem
    BY <1>1 DEF TodoItem
  <1>4. Todo(place, path) \in [1..Len(place.refs) -> TodoItem]
    BY <1>2, <1>3 DEF Todo
  <1>5. Todo(place, path) \in Seq(TodoItem) /\ Len(Todo(place, path)) = Len(place.refs)
    BY <1>2, <1>4
  <1>6. QED
    BY <1>2, <1>5 DEF Todo

ItemsOf(p) == {x \in TodoItem : x.path = p}

\* The path that a part of the root document stands for.
KeyOf(g) == IF g \in Path THEN g ELSE NoPath

\* The root document's todo has the refs of all its places, and one at most for each path.
LEMMA RootTodoParts ==
  ASSUME StateOK
  PROVE  /\ RootTodo \in Seq(TodoItem)
         /\ Range(RootTodo) =
              UNION {Range(Todo(docs[Root][g], KeyOf(g))) : g \in DOMAIN docs[Root]}
         /\ \A p \in Path : AtMostOne(RootTodo, ItemsOf(p))
  <1> DEFINE root == docs[Root]
             T(g) == Todo(root[g], KeyOf(g))
             rest == SetToSeq(DOMAIN root \ Path)
             A == [i \in DOMAIN PathOrder |->
                     IF PathOrder[i] \in DOMAIN root THEN Todo(root[PathOrder[i]], PathOrder[i])
                                                     ELSE <<>>]
             B == [i \in DOMAIN rest |-> Todo(root[rest[i]], NoPath)]
  <1>1. /\ IsFiniteSet(DOMAIN root) /\ \A g \in DOMAIN root : root[g] \in Place
        /\ \A g \in DOMAIN root : root[g].isRef => Len(root[g].refs) = 1
    BY RootAssumption, DocumentParts
  <1>2. IsFiniteSet(DOMAIN root \ Path)
    BY <1>1, FS_Difference
  <1>3. rest \in Seq(DOMAIN root \ Path) /\ Range(rest) = DOMAIN root \ Path
    BY <1>2, SetToSeqLists
  <1>4. /\ DOMAIN rest = 1..Len(rest) /\ Len(rest) \in Nat
        /\ \A i \in DOMAIN rest : rest[i] \in DOMAIN root \ Path
        /\ \A g \in DOMAIN root \ Path : \E i \in DOMAIN rest : rest[i] = g
    <2> HIDE DEF rest
    <2> QED BY <1>3 DEF Range
  <1>5. /\ DOMAIN PathOrder = 1..Len(PathOrder) /\ Len(PathOrder) \in Nat
        /\ \A i \in DOMAIN PathOrder : PathOrder[i] \in Path
        /\ \A p \in Path : \E i \in DOMAIN PathOrder : PathOrder[i] = p
        /\ \A i, j \in DOMAIN PathOrder : PathOrder[i] = PathOrder[j] => i = j
    BY PathsInOrder DEF Path
  <1>6. ASSUME NEW g \in DOMAIN root
        PROVE  /\ T(g) \in Seq(TodoItem)
               /\ \A p \in Path : AtMostOne(T(g), ItemsOf(p))
               /\ \A p \in Path : Range(T(g)) \cap ItemsOf(p) # {} => g = p
    <2>1. root[g] \in Place /\ (root[g].isRef => Len(root[g].refs) = 1)
      BY <1>1
    <2>2. KeyOf(g) \in Path \cup {NoPath}
      BY DEF KeyOf
    <2>3. /\ T(g) \in Seq(TodoItem) /\ Len(T(g)) = Len(root[g].refs)
          /\ \A i \in 1..Len(root[g].refs) :
               T(g)[i] = [ref |-> root[g].refs[i], path |-> IF root[g].isRef THEN KeyOf(g) ELSE NoPath]
      <3> HIDE DEF root
      <3> QED BY <2>1, <2>2, TodoType
    <2>4. ASSUME NEW p \in Path, NEW i \in DOMAIN T(g), T(g)[i] \in ItemsOf(p)
          PROVE  g = p /\ DOMAIN T(g) = 1..1
      <3>1. DOMAIN T(g) = 1..Len(root[g].refs)
        <4> HIDE DEF T, root
        <4> QED BY <2>3
      <3>2. (IF root[g].isRef THEN KeyOf(g) ELSE NoPath) = p
        <4>1. T(g)[i].path = p /\ i \in 1..Len(root[g].refs)
          BY <2>4, <3>1 DEF ItemsOf
        <4>2. T(g)[i] = [ref |-> root[g].refs[i], path |-> IF root[g].isRef THEN KeyOf(g) ELSE NoPath]
          BY <2>3, <4>1
        <4> HIDE DEF T, root
        <4> QED BY <4>1, <4>2
      <3>3. root[g].isRef /\ KeyOf(g) = p
        <4> HIDE DEF root
        <4> QED BY <3>2, RootAssumption
      <3>4. g = p
        BY <3>3, RootAssumption DEF KeyOf
      <3>5. QED
        <4> HIDE DEF T, root
        <4> QED BY <2>1, <3>1, <3>3, <3>4
    <2>5. \A p \in Path : AtMostOne(T(g), ItemsOf(p))
      <3> HIDE DEF T
      <3> QED BY <2>4 DEF AtMostOne
    <2>6. \A p \in Path : Range(T(g)) \cap ItemsOf(p) # {} => g = p
      <3> HIDE DEF T
      <3> QED BY <2>4 DEF Range
    <2>7. QED
      BY <2>3, <2>5, <2>6
  <1>7. ASSUME NEW i \in DOMAIN PathOrder
        PROVE  A[i] = IF PathOrder[i] \in DOMAIN root THEN T(PathOrder[i]) ELSE <<>>
    BY <1>5 DEF KeyOf
  <1>8. ASSUME NEW i \in DOMAIN rest PROVE B[i] = T(rest[i])
    <2>1. rest[i] \notin Path
      BY <1>4
    <2>2. KeyOf(rest[i]) = NoPath
      BY <2>1 DEF KeyOf
    <2>3. B[i] = Todo(root[rest[i]], NoPath)
      OBVIOUS
    <2>4. QED
      BY <2>2, <2>3
  <1>9. A \in Seq(Seq(TodoItem)) /\ Len(A) = Len(PathOrder)
    <2>1. ASSUME NEW i \in DOMAIN PathOrder PROVE A[i] \in Seq(TodoItem)
      <3>1. PathOrder[i] \in DOMAIN root => T(PathOrder[i]) \in Seq(TodoItem)
        BY <1>6
      <3>2. <<>> \in Seq(TodoItem)
        OBVIOUS
      <3>3. A[i] = IF PathOrder[i] \in DOMAIN root THEN T(PathOrder[i]) ELSE <<>>
        BY <1>7
      <3> HIDE DEF A, T, root
      <3> QED BY <3>1, <3>2, <3>3
    <2>2. A \in [1..Len(PathOrder) -> Seq(TodoItem)]
      <3>1. A = [i \in 1..Len(PathOrder) |-> A[i]]
        BY <1>5
      <3> HIDE DEF A
      <3> QED BY <1>5, <2>1, <3>1
    <2>3. QED
      <3> HIDE DEF A
      <3> QED BY <1>5, <2>2
  <1>10. B \in Seq(Seq(TodoItem)) /\ Len(B) = Len(rest)
    <2>1. \A i \in DOMAIN rest : B[i] \in Seq(TodoItem)
      <3> HIDE DEF B, T, root, rest
      <3> QED BY <1>4, <1>6, <1>8
    <2>2. B \in [1..Len(rest) -> Seq(TodoItem)]
      <3>1. B = [i \in 1..Len(rest) |-> B[i]]
        <4> HIDE DEF rest, root
        <4> QED BY <1>4
      <3> HIDE DEF B, rest
      <3> QED BY <1>4, <2>1, <3>1
    <2>3. QED
      <3> HIDE DEF B, rest
      <3> QED BY <1>4, <2>2
  <1>11. RootTodo = FlattenSeq(A) \o FlattenSeq(B)
    BY DEF RootTodo
  <1>12. FlattenSeq(A) \in Seq(TodoItem) /\ FlattenSeq(B) \in Seq(TodoItem)
    <2> HIDE DEF A, B
    <2> QED BY <1>9, <1>10, FlattenType
  <1>13. RootTodo \in Seq(TodoItem)
    <2> HIDE DEF A, B
    <2> QED BY <1>11, <1>12
  <1>14. Range(RootTodo) = Range(FlattenSeq(A)) \cup Range(FlattenSeq(B))
    <2> HIDE DEF A, B
    <2> QED BY <1>11, <1>12, RangeConcatenation
  <1>15. Range(FlattenSeq(A)) = UNION {Range(T(g)) : g \in DOMAIN root \cap Path}
    <2>1. Range(FlattenSeq(A)) = UNION {Range(A[i]) : i \in 1..Len(A)}
      <3> HIDE DEF A
      <3> QED BY <1>9, FlattenRange
    <2>2. Range(<<>>) = {}
      BY DEF Range
    <2>3. 1..Len(A) = DOMAIN PathOrder
      BY <1>5, <1>9
    <2> HIDE DEF A, T, root
    <2> QED BY <1>5, <1>7, <2>1, <2>2, <2>3
  <1>16. Range(FlattenSeq(B)) = UNION {Range(T(g)) : g \in DOMAIN root \ Path}
    <2>1. Range(FlattenSeq(B)) = UNION {Range(B[i]) : i \in 1..Len(B)}
      <3> HIDE DEF B
      <3> QED BY <1>10, FlattenRange
    <2>2. 1..Len(B) = DOMAIN rest
      BY <1>4, <1>10
    <2> HIDE DEF B, T, root, rest
    <2> QED BY <1>4, <1>8, <2>1, <2>2
  <1>17. Range(RootTodo) = UNION {Range(T(g)) : g \in DOMAIN root}
    <2> HIDE DEF T, root
    <2> QED BY <1>14, <1>15, <1>16
  <1>18. ASSUME NEW p \in Path PROVE AtMostOne(RootTodo, ItemsOf(p))
    <2>1. \A i \in 1..Len(A) : AtMostOne(A[i], ItemsOf(p))
      <3>1. AtMostOne(<<>>, ItemsOf(p))
        BY DEF AtMostOne
      <3>2. 1..Len(A) = DOMAIN PathOrder
        BY <1>5, <1>9
      <3> HIDE DEF A, T, root
      <3> QED BY <1>6, <1>7, <3>1, <3>2
    <2>2. \A i \in 1..Len(A) : Range(A[i]) \cap ItemsOf(p) # {} => PathOrder[i] = p
      <3>1. Range(<<>>) \cap ItemsOf(p) = {}
        BY DEF Range
      <3>2. 1..Len(A) = DOMAIN PathOrder
        BY <1>5, <1>9
      <3> HIDE DEF A, T, root
      <3> QED BY <1>6, <1>7, <3>1, <3>2
    <2>3. \A i, j \in 1..Len(A) :
            Range(A[i]) \cap ItemsOf(p) # {} /\ Range(A[j]) \cap ItemsOf(p) # {} => i = j
      <3>1. 1..Len(A) = DOMAIN PathOrder
        BY <1>5, <1>9
      <3> HIDE DEF A
      <3> QED BY <1>5, <2>2, <3>1
    <2>4. AtMostOne(FlattenSeq(A), ItemsOf(p))
      <3> HIDE DEF A
      <3> QED BY <1>9, <2>1, <2>3, FlattenAtMostOne
    <2>5. Range(FlattenSeq(B)) \cap ItemsOf(p) = {}
      <3>1. \A g \in DOMAIN root \ Path : Range(T(g)) \cap ItemsOf(p) = {}
        <4> HIDE DEF T, root
        <4> QED BY <1>6
      <3> HIDE DEF B, T, root
      <3> QED BY <1>16, <3>1
    <2>6. AtMostOne(FlattenSeq(B), ItemsOf(p))
      <3> HIDE DEF B
      <3> QED BY <2>5 DEF AtMostOne, Range
    <2>7. QED
      <3> HIDE DEF A, B
      <3> QED BY <1>11, <1>12, <2>4, <2>5, <2>6, ConcatAtMostOne
  <1>19. QED
    BY <1>13, <1>17, <1>18

\* The root document's refs are all there to follow, those of a path that is a $ref once.
LEMMA RootTodoLists ==
  ASSUME StateOK
  PROVE  /\ RootTodo \in Seq(TodoItem)
         /\ \A j \in DOMAIN RootTodo : RootTodo[j].ref \in RootRefs
         /\ \A r \in RootRefs : \E j \in DOMAIN RootTodo : RootTodo[j].ref = r
         /\ \A p \in Path : \A j, l \in DOMAIN RootTodo :
              RootTodo[j].path = p /\ RootTodo[l].path = p => j = l
         /\ \A p \in Path : \A j \in DOMAIN RootTodo :
              RootTodo[j].path = p => /\ p \in PathsOf(Root) /\ docs[Root][p].isRef
                                      /\ docs[Root][p].refs = <<RootTodo[j].ref>>
         /\ \A p \in PathsOf(Root) :
              docs[Root][p].isRef => \E j \in DOMAIN RootTodo : RootTodo[j].path = p
  <1> DEFINE root == docs[Root]
             T(g) == Todo(root[g], KeyOf(g))
  <1>1. /\ RootTodo \in Seq(TodoItem)
        /\ Range(RootTodo) = UNION {Range(T(g)) : g \in DOMAIN root}
        /\ \A p \in Path : AtMostOne(RootTodo, ItemsOf(p))
    BY RootTodoParts
  <1>2. RootRefs = UNION {Range(root[g].refs) : g \in DOMAIN root}
    BY GraphType
  <1>3. ASSUME NEW g \in DOMAIN root
        PROVE  /\ root[g].refs \in Seq(Ref)
               /\ root[g].isRef => Len(root[g].refs) = 1
               /\ DOMAIN T(g) = 1..Len(root[g].refs)
               /\ \A i \in 1..Len(root[g].refs) :
                    T(g)[i] = [ref |-> root[g].refs[i],
                               path |-> IF root[g].isRef THEN KeyOf(g) ELSE NoPath]
    <2>1. root[g] \in Place /\ (root[g].isRef => Len(root[g].refs) = 1)
      BY RootAssumption, DocumentParts
    <2>2. KeyOf(g) \in Path \cup {NoPath}
      BY DEF KeyOf
    <2> HIDE DEF root
    <2>3. /\ T(g) \in Seq(TodoItem) /\ Len(T(g)) = Len(root[g].refs)
          /\ \A i \in 1..Len(root[g].refs) :
               T(g)[i] = [ref |-> root[g].refs[i],
                          path |-> IF root[g].isRef THEN KeyOf(g) ELSE NoPath]
      BY <2>1, <2>2, TodoType
    <2> HIDE DEF T
    <2> QED BY <2>1, <2>3 DEF Place
  <1>4. ASSUME NEW j \in DOMAIN RootTodo
        PROVE  \E g \in DOMAIN root : \E i \in 1..Len(root[g].refs) :
                 RootTodo[j] = [ref |-> root[g].refs[i],
                                path |-> IF root[g].isRef THEN KeyOf(g) ELSE NoPath]
    <2>1. RootTodo[j] \in Range(RootTodo)
      BY DEF Range
    <2>2. PICK g \in DOMAIN root : RootTodo[j] \in Range(T(g))
      <3> HIDE DEF T, root
      <3> QED BY <1>1, <2>1
    <2>3. PICK i \in DOMAIN T(g) : RootTodo[j] = T(g)[i]
      <3> HIDE DEF T, root
      <3> QED BY <2>2 DEF Range
    <2>4. i \in 1..Len(root[g].refs)
      BY <1>3, <2>3
    <2>5. T(g)[i] = [ref |-> root[g].refs[i], path |-> IF root[g].isRef THEN KeyOf(g) ELSE NoPath]
      BY <1>3, <2>4
    <2> HIDE DEF T, root
    <2> QED BY <2>3, <2>4, <2>5
  <1>5. ASSUME NEW g \in DOMAIN root, NEW i \in 1..Len(root[g].refs)
        PROVE  \E j \in DOMAIN RootTodo :
                 RootTodo[j] = [ref |-> root[g].refs[i],
                                path |-> IF root[g].isRef THEN KeyOf(g) ELSE NoPath]
    <2>1. T(g)[i] \in Range(T(g))
      <3> HIDE DEF T, root
      <3> QED BY <1>3 DEF Range
    <2>2. T(g)[i] \in Range(RootTodo)
      <3> HIDE DEF T, root
      <3> QED BY <1>1, <2>1
    <2> HIDE DEF T, root
    <2> QED BY <1>3, <2>2 DEF Range
  <1> HIDE DEF T, root
  <1>6. \A j \in DOMAIN RootTodo : RootTodo[j].ref \in RootRefs
    <2> TAKE j \in DOMAIN RootTodo
    <2>0. PICK g \in DOMAIN root : \E i \in 1..Len(root[g].refs) : RootTodo[j].ref = root[g].refs[i]
      BY <1>4
    <2>1. PICK i \in 1..Len(root[g].refs) : RootTodo[j].ref = root[g].refs[i]
      BY <2>0
    <2>2. root[g].refs[i] \in Range(root[g].refs)
      BY <1>3 DEF Range
    <2>3. QED
      BY <1>2, <2>1, <2>2
  <1>7. \A r \in RootRefs : \E j \in DOMAIN RootTodo : RootTodo[j].ref = r
    <2> TAKE r \in RootRefs
    <2>1. PICK g \in DOMAIN root : r \in Range(root[g].refs)
      BY <1>2
    <2>2. PICK i \in DOMAIN root[g].refs : r = root[g].refs[i]
      BY <2>1 DEF Range
    <2>3. i \in 1..Len(root[g].refs)
      BY <1>3, <2>2
    <2>4. PICK j \in DOMAIN RootTodo :
            RootTodo[j] = [ref |-> root[g].refs[i],
                           path |-> IF root[g].isRef THEN KeyOf(g) ELSE NoPath]
      BY <1>5, <2>3
    <2>5. QED
      BY <2>2, <2>4
  <1>8. ASSUME NEW p \in Path, NEW j \in DOMAIN RootTodo, NEW l \in DOMAIN RootTodo,
               RootTodo[j].path = p, RootTodo[l].path = p
        PROVE  j = l
    <2>1. RootTodo[j] \in ItemsOf(p) /\ RootTodo[l] \in ItemsOf(p)
      BY <1>1, <1>8 DEF ItemsOf
    <2>2. QED
      BY <1>1, <2>1 DEF AtMostOne
  <1>9. ASSUME NEW p \in Path, NEW j \in DOMAIN RootTodo, RootTodo[j].path = p
        PROVE  p \in DOMAIN root /\ root[p].isRef /\ root[p].refs = <<RootTodo[j].ref>>
    <2>0. PICK g \in DOMAIN root : \E i \in 1..Len(root[g].refs) :
            RootTodo[j] = [ref |-> root[g].refs[i],
                           path |-> IF root[g].isRef THEN KeyOf(g) ELSE NoPath]
      BY <1>4
    <2>1. PICK i \in 1..Len(root[g].refs) :
            RootTodo[j] = [ref |-> root[g].refs[i],
                           path |-> IF root[g].isRef THEN KeyOf(g) ELSE NoPath]
      BY <2>0
    <2>2. root[g].isRef /\ KeyOf(g) = p
      BY <1>9, <2>1, RootAssumption
    <2>3. g = p
      BY <2>2, RootAssumption DEF KeyOf
    <2>4. Len(root[g].refs) = 1 /\ i = 1 /\ RootTodo[j].ref = root[g].refs[1]
      BY <1>3, <2>1, <2>2
    <2>5. root[g].refs = <<root[g].refs[1]>>
      BY <1>3, <2>4
    <2>6. QED
      BY <2>2, <2>3, <2>4, <2>5
  <1>10. ASSUME NEW p \in Path, p \in DOMAIN root, root[p].isRef
         PROVE  \E j \in DOMAIN RootTodo : RootTodo[j].path = p
    <2>1. 1 \in 1..Len(root[p].refs)
      BY <1>3, <1>10
    <2>2. PICK j \in DOMAIN RootTodo :
            RootTodo[j] = [ref |-> root[p].refs[1],
                           path |-> IF root[p].isRef THEN KeyOf(p) ELSE NoPath]
      BY <1>5, <1>10, <2>1
    <2>3. QED
      BY <1>10, <2>2 DEF KeyOf
  <1>11. QED
    BY <1>1, <1>6, <1>7, <1>8, <1>9, <1>10 DEF PathsOf, root

-----------------------------------------------------------------------------
(* The graph of the refs.                                                  *)

\* What is reachable from the root document is closed under following.
LEMMA ReachableFacts ==
  ASSUME StateOK
  PROVE  /\ RootRefs \subseteq Reachable /\ Reachable \subseteq Ref
         /\ \A r \in Reachable : Below[r] \subseteq Reachable
  BY GraphType, ClosureContains, ClosureClosed DEF Reachable, Closed

\* What lies under a ref is what stands in its place, and what lies under that.
LEMMA UnderFacts ==
  ASSUME StateOK, NEW r \in Ref
  PROVE  /\ Below[r] \subseteq Under(r) /\ Under(r) \subseteq Ref /\ Below[r] \subseteq Ref
         /\ \A s \in Under(r) : Below[s] \subseteq Under(r)
         /\ Under(r) = Below[r] \cup UNION {Under(c) : c \in Below[r]}
  <1>1. Below \in [Ref -> SUBSET Ref] /\ Below[r] \in SUBSET Ref
    BY GraphType
  <1>2. /\ Below[r] \subseteq Under(r) /\ Under(r) \subseteq Ref
        /\ \A s \in Under(r) : Below[s] \subseteq Under(r)
    BY <1>1, ClosureContains, ClosureClosed DEF Under, Closed
  <1>3. Under(r) = Below[r] \cup UNION {Under(c) : c \in Below[r]}
    BY <1>1, ClosureFromEach DEF Under
  <1>4. QED
    BY <1>1, <1>2, <1>3

\* A ref ends if all that stands in its place does.
LEMMA EndsFromChildren ==
  ASSUME StateOK, NEW r \in Ref, \A c \in Below[r] : Ends(c)
  PROVE  Ends(r)
  <1>1. Under(r) = Below[r] \cup UNION {Under(c) : c \in Below[r]}
    BY UnderFacts
  <1>2. ASSUME NEW s \in Under(r) PROVE s \notin Under(s)
    BY <1>1 DEF Ends
  <1>3. QED
    BY <1>2 DEF Ends

\* What is inlined to the end without a circle is all there is, and has none.
LEMMA AllEnd ==
  ASSUME StateOK, inlined \subseteq Reachable, RootRefs \subseteq inlined,
         \A r \in inlined : Below[r] \subseteq inlined /\ Ends(r)
  PROVE  inlined = Reachable /\ ~Cyclic
  <1>1. Reachable \subseteq inlined
    <2>1. RootRefs \in SUBSET Ref /\ Below \in [Ref -> SUBSET Ref]
      BY GraphType
    <2>2. Closed(inlined, Below)
      BY DEF Closed
    <2>3. QED
      BY <2>1, <2>2, ClosureLeast DEF Reachable
  <1>2. QED
    BY <1>1 DEF Cyclic, Ends

\* A chain of path items that are only refs goes on with the next of them.
LEMMA ForwardOnce ==
  ASSUME StateOK, NEW s \in Ref
  PROVE  /\ Closure({s}, Forward) = {s} \cup Closure(Forward[s], Forward)
         /\ Closure({}, Forward) = {}
  <1>1. Forward \in [Ref -> SUBSET Ref]
    BY GraphType
  <1>2. Closure({s}, Forward) = {s} \cup UNION {Closure(Forward[r], Forward) : r \in {s}}
    BY <1>1, ClosureFromEach
  <1>3. Closure({}, Forward) = {} \cup UNION {Closure(Forward[r], Forward) : r \in {}}
    BY <1>1, ClosureFromEach
  <1>4. QED
    BY <1>2, <1>3

\* A place that is a ref has just that one.
LEMMA SingleRef ==
  ASSUME NEW q \in Seq(Ref), Len(q) = 1
  PROVE  q[1] \in Ref /\ q = <<q[1]>> /\ Range(q) = {q[1]}
  BY DEF Range

\* A $ref alone in its place stands for the operations of what it points to ...
LEMMA OperationsAlong ==
  ASSUME StateOK, NEW r \in Ref, Present(r), Content(r.doc, r.frag).isRef
  PROVE  OperationsFrom(r) = OperationsFrom(Content(r.doc, r.frag).refs[1])
  <1> DEFINE q == Content(r.doc, r.frag).refs
             C(S) == Closure(S, Forward)
  <1>1. q \in Seq(Ref) /\ Len(q) = 1 /\ Content(r.doc, r.frag).ops = {}
    BY ContentType DEF Place
  <1>2. Forward[r] = {q[1]}
    <2>1. Range(q) = {q[1]}
      <3> HIDE DEF q
      <3> QED BY <1>1, SingleRef
    <2>2. QED
      BY <2>1 DEF Forward, Below
  <1>3. C({r}) = {r} \cup C({q[1]})
    BY <1>2, ForwardOnce
  <1>4. QED
    BY <1>1, <1>3 DEF OperationsFrom, Operations

\* ... and anything else for its own.
LEMMA OperationsHere ==
  ASSUME StateOK, NEW r \in Ref, Present(r), ~Content(r.doc, r.frag).isRef
  PROVE  OperationsFrom(r) = Content(r.doc, r.frag).ops
  <1>1. Forward[r] = {}
    BY DEF Forward
  <1>2. Closure({r}, Forward) = {r}
    BY <1>1, ForwardOnce
  <1>3. QED
    BY <1>2 DEF OperationsFrom, Operations

\* The operations of a path that is a ref are those that the ref leads to.
LEMMA DocumentedFrom ==
  ASSUME StateOK, NEW p \in PathsOf(Root)
  PROVE  /\ docs[Root][p].isRef => Documented(p) = OperationsFrom(docs[Root][p].refs[1])
         /\ ~docs[Root][p].isRef => Documented(p) = docs[Root][p].ops
         /\ docs[Root][p].ops \subseteq Operation
  <1> DEFINE place == docs[Root][p]
  <1>1. place \in Place /\ (place.isRef => Len(place.refs) = 1 /\ place.ops = {})
    BY RootAssumption, DocumentParts DEF PathsOf
  <1>2. CASE place.isRef
    <2>1. place.refs \in Seq(Ref) /\ Len(place.refs) = 1 /\ place.ops = {}
      BY <1>1, <1>2 DEF Place
    <2>2. Range(place.refs) = {place.refs[1]}
      <3> HIDE DEF place
      <3> QED BY <2>1, SingleRef
    <2>3. QED
      BY <1>1, <1>2, <2>1, <2>2 DEF Documented, OperationsFrom
  <1>3. CASE ~place.isRef
    <2>1. [doc |-> Root, frag |-> Whole] \in Ref
      BY RootAssumption DEF Ref
    <2>2. Closure({}, Forward) = {}
      BY <2>1, ForwardOnce
    <2>3. Operations({}) = {}
      BY DEF Operations
    <2>4. QED
      BY <1>1, <1>3, <2>2, <2>3 DEF Documented, Place
  <1>4. QED
    BY <1>1, <1>2, <1>3 DEF Place

\* All of this depends on nothing but the documents.
LEMMA SameDocuments ==
  ASSUME UNCHANGED docs
  PROVE  /\ Below' = Below /\ RootRefs' = RootRefs /\ Reachable' = Reachable
         /\ Cyclic' <=> Cyclic
         /\ \A r : Present(r)' <=> Present(r)
         /\ \A r : Under(r)' = Under(r)
         /\ \A r : Ends(r)' <=> Ends(r)
         /\ \A r : OperationsFrom(r)' = OperationsFrom(r)
         /\ \A p : Documented(p)' = Documented(p)
         /\ PathsOf(Root)' = PathsOf(Root)
  <1>1. Below' = Below /\ RootRefs' = RootRefs /\ PathsOf(Root)' = PathsOf(Root)
    BY DEF Below, RootRefs, Content, Present, PathsOf
  <1>2. Reachable' = Reachable
    BY <1>1 DEF Reachable, Closure, Ref
  <1>3. \A r : Under(r)' = Under(r)
    BY <1>1 DEF Under, Closure, Ref
  <1>4. Forward' = Forward
    BY <1>1 DEF Forward, Content, Present
  <1>5. \A R : Operations(R)' = Operations(R)
    BY DEF Operations, Content, Present
  <1>6. \A r : OperationsFrom(r)' = OperationsFrom(r)
    BY <1>4, <1>5 DEF OperationsFrom, Closure, Ref
  <1>7. \A p : Documented(p)' = Documented(p)
    BY <1>4, <1>5 DEF Documented, Closure, Ref
  <1>8. \A r : Present(r)' <=> Present(r)
    BY DEF Present
  <1>9. QED
    BY <1>1, <1>2, <1>3, <1>6, <1>7, <1>8 DEF Cyclic, Ends

-----------------------------------------------------------------------------
(* The stack.                                                              *)

\* The stack of the calls, frame by frame.
LEMMA TopFacts ==
  ASSUME StateOK, stack # <<>>
  PROVE  /\ Len(stack) \in Nat \ {0} /\ DOMAIN stack = 1..Len(stack)
         /\ Top = stack[Len(stack)]
         /\ \A i \in 1..Len(stack) :
              /\ stack[i] \in Frame /\ stack[i].todo \in Seq(TodoItem) /\ stack[i].seen \in Seq(Ref)
              /\ Len(stack[i].seen) = i - 1 /\ DOMAIN stack[i].seen = 1..(i - 1)
              /\ DOMAIN stack[i].todo = 1..Len(stack[i].todo)
              /\ \A j \in DOMAIN stack[i].todo : stack[i].todo[j].ref \in Ref
  <1>1. stack \in Seq(Frame)
    BY DEF StateOK
  <1>2. Len(stack) \in Nat \ {0} /\ DOMAIN stack = 1..Len(stack) /\ Top = stack[Len(stack)]
    BY <1>1 DEF Top, Last
  <1>3. ASSUME NEW i \in 1..Len(stack)
        PROVE  /\ stack[i] \in Frame /\ stack[i].todo \in Seq(TodoItem) /\ stack[i].seen \in Seq(Ref)
               /\ Len(stack[i].seen) = i - 1
    <2>1. stack[i] \in Frame
      BY <1>1, <1>2
    <2>2. stack[i].todo \in Seq(TodoItem) /\ stack[i].seen \in Seq(Ref)
      BY <2>1 DEF Frame
    <2>3. Len(stack[i].seen) = i - 1
      BY <1>2 DEF StateOK
    <2>4. QED
      BY <2>1, <2>2, <2>3
  <1>4. ASSUME NEW i \in 1..Len(stack)
        PROVE  /\ DOMAIN stack[i].seen = 1..(i - 1)
               /\ DOMAIN stack[i].todo = 1..Len(stack[i].todo)
               /\ \A j \in DOMAIN stack[i].todo : stack[i].todo[j].ref \in Ref
    <2> DEFINE seen == stack[i].seen
               todo == stack[i].todo
    <2>1. seen \in Seq(Ref) /\ Len(seen) = i - 1 /\ todo \in Seq(TodoItem)
      BY <1>3
    <2>2. DOMAIN seen = 1..(i - 1) /\ DOMAIN todo = 1..Len(todo)
      <3> HIDE DEF seen, todo
      <3> QED BY <2>1
    <2>3. \A j \in DOMAIN todo : todo[j] \in TodoItem
      <3> HIDE DEF seen, todo
      <3> QED BY <2>1
    <2>4. QED
      BY <2>2, <2>3 DEF TodoItem
  <1>5. QED
    BY <1>2, <1>3, <1>4

\* Below the first frame, a frame is at the last ref of its chain.
LEMMA AtFacts ==
  ASSUME StateOK, NEW i \in DOMAIN stack, i # 1
  PROVE  At(i) \in Ref /\ At(i) = stack[i].seen[i - 1] /\ i - 1 \in DOMAIN stack[i].seen
  <1>1. stack # <<>>
    OBVIOUS
  <1>2. /\ i \in 1..Len(stack) /\ Len(stack) \in Nat /\ stack[i].seen \in Seq(Ref)
        /\ Len(stack[i].seen) = i - 1 /\ DOMAIN stack[i].seen = 1..(i - 1)
    BY <1>1, TopFacts
  <1>3. QED
    BY <1>2 DEF At, Last

\* The refs at a frame are refs.
LEMMA RefsOfType ==
  ASSUME StateOK, NEW i \in DOMAIN stack
  PROVE  RefsOf(i) \subseteq Ref
  <1>1. CASE i = 1
    BY <1>1, GraphType DEF RefsOf
  <1>2. CASE i # 1
    BY <1>2, AtFacts, GraphType DEF RefsOf
  <1>3. QED
    BY <1>1, <1>2

\* The call that follows a ref, and the state that it starts from.
Entering ==
  /\ stage = "resolving" /\ stack # <<>> /\ Top.todo # <<>>
  /\ ~Circular /\ Present(Item.ref) /\ Enter

\* Following a ref takes it from the todo and puts a call on top (_resolve_node, loader.py:106-165).
LEMMA EnterShape ==
  ASSUME StateOK, Entering, NEW n, n = Len(stack), NEW r, r = Item.ref
  PROVE  /\ n \in Nat \ {0} /\ r \in Ref /\ Item \in TodoItem
         /\ Item = stack[n].todo[1] /\ 1 \in DOMAIN stack[n].todo
         /\ DOMAIN stack = 1..n /\ DOMAIN stack' = 1..(n + 1) /\ stack' \in Seq(Frame)
         /\ \A i \in 1..(n - 1) : stack'[i] = stack[i]
         /\ stack'[n].seen = stack[n].seen
         /\ DOMAIN stack'[n].todo = 1..(Len(stack[n].todo) - 1)
         /\ \A j \in DOMAIN stack'[n].todo :
              j + 1 \in DOMAIN stack[n].todo /\ stack'[n].todo[j] = stack[n].todo[j + 1]
         /\ \A j \in DOMAIN stack[n].todo :
              j # 1 => j - 1 \in DOMAIN stack'[n].todo /\ stack'[n].todo[j - 1] = stack[n].todo[j]
         /\ stack'[n + 1].seen = Append(stack[n].seen, r)
         /\ stack'[n + 1].todo = Todo(Content(r.doc, r.frag), Item.path)
  <1> DEFINE todo == stack[n].todo
             popped == [stack EXCEPT ![n].todo = Tail(@)]
             frame == [todo |-> Todo(Content(r.doc, r.frag), Item.path), seen |-> Append(stack[n].seen, r)]
  <1>1. /\ n \in Nat \ {0} /\ DOMAIN stack = 1..n /\ Top = stack[n] /\ stack[n] \in Frame
        /\ todo \in Seq(TodoItem) /\ stack[n].seen \in Seq(Ref) /\ todo # <<>>
    BY TopFacts DEF Entering
  <1>2. Item = todo[1] /\ 1 \in DOMAIN todo /\ Item \in TodoItem
    <2> HIDE DEF todo
    <2>1. Len(todo) \in Nat \ {0} /\ Item = Head(todo)
      BY <1>1 DEF Item, todo
    <2>2. QED
      BY <1>1, <2>1
  <1>3. r \in Ref /\ Item.path \in Path \cup {NoPath}
    BY <1>2 DEF TodoItem
  <1>4. stack' = Append(popped, frame)
    <2>1. stack' = Append([stack EXCEPT ![n].todo = Tail(@)],
                          [todo |-> Todo(Content(r.doc, r.frag), Item.path), seen |-> Append(Top.seen, r)])
      BY Zenon DEF Entering, Enter
    <2>2. Top.seen = stack[n].seen
      BY <1>1
    <2>3. frame = [todo |-> Todo(Content(r.doc, r.frag), Item.path), seen |-> Append(Top.seen, r)]
      BY <2>2
    <2> HIDE DEF frame
    <2> QED BY <2>1, <2>3, Zenon
  <1>5. stack \in Seq(Frame) /\ stack \in [1..n -> Frame]
    <2>1. stack \in Seq(Frame)
      BY DEF StateOK
    <2>2. QED
      BY <2>1
  <1>6. Tail(todo) \in Seq(TodoItem) /\ Len(Tail(todo)) = Len(todo) - 1 /\ Len(todo) \in Nat \ {0}
        /\ \A j \in 1..(Len(todo) - 1) : Tail(todo)[j] = todo[j + 1]
    <2> HIDE DEF todo
    <2> QED BY <1>1
  <1>7. /\ popped \in [1..n -> Frame] /\ \A i \in 1..(n - 1) : popped[i] = stack[i]
        /\ popped[n].todo = Tail(todo) /\ popped[n].seen = stack[n].seen
    <2>1. [stack[n] EXCEPT !.todo = Tail(todo)] \in Frame
      <3> HIDE DEF todo
      <3> QED BY <1>1, <1>6 DEF Frame
    <2>2. popped = [stack EXCEPT ![n] = [stack[n] EXCEPT !.todo = Tail(todo)]]
      BY <1>1
    <2>3. [stack[n] EXCEPT !.todo = Tail(todo)].todo = Tail(todo)
      <3> HIDE DEF todo
      <3> QED BY <1>1 DEF Frame
    <2> HIDE DEF todo, popped
    <2> QED BY <1>1, <1>5, <2>1, <2>2, <2>3
  <1>8. popped \in Seq(Frame) /\ Len(popped) = n
    <2> HIDE DEF popped
    <2> QED BY <1>1, <1>7
  <1>9. frame \in Frame
    <2>1. Content(r.doc, r.frag) \in Place
      BY <1>3, ContentType DEF Entering
    <2>2. Todo(Content(r.doc, r.frag), Item.path) \in Seq(TodoItem)
      BY <1>3, <2>1, TodoType
    <2>3. Append(stack[n].seen, r) \in Seq(Ref)
      BY <1>1, <1>3
    <2>4. QED
      BY <2>2, <2>3 DEF Frame
  <1>10. stack' \in Seq(Frame) /\ Len(stack') = n + 1 /\ stack'[n + 1] = frame
         /\ \A i \in 1..n : stack'[i] = popped[i]
    <2> HIDE DEF popped, frame
    <2> QED BY <1>1, <1>4, <1>8, <1>9
  <1>11. DOMAIN stack' = 1..(n + 1)
    BY <1>10
  <1>12. stack'[n].todo = Tail(todo) /\ stack'[n].seen = stack[n].seen
         /\ \A i \in 1..(n - 1) : stack'[i] = stack[i]
    <2> HIDE DEF popped, todo
    <2> QED BY <1>1, <1>7, <1>10
  <1>13. DOMAIN stack'[n].todo = 1..(Len(todo) - 1) /\ DOMAIN todo = 1..Len(todo)
    <2> HIDE DEF todo
    <2> QED BY <1>1, <1>6, <1>12
  <1>14. \A j \in DOMAIN stack'[n].todo : j + 1 \in DOMAIN todo /\ stack'[n].todo[j] = todo[j + 1]
    <2> HIDE DEF todo
    <2> QED BY <1>6, <1>12, <1>13
  <1>15. \A j \in DOMAIN todo : j # 1 =>
           j - 1 \in DOMAIN stack'[n].todo /\ stack'[n].todo[j - 1] = todo[j]
    <2> SUFFICES ASSUME NEW j \in DOMAIN todo, j # 1
                 PROVE  j - 1 \in DOMAIN stack'[n].todo /\ stack'[n].todo[j - 1] = todo[j]
      OBVIOUS
    <2> HIDE DEF todo
    <2>1. j - 1 \in DOMAIN stack'[n].todo /\ (j - 1) + 1 = j
      BY <1>6, <1>13
    <2>2. QED
      BY <1>14, <2>1
  <1>16. stack'[n + 1].seen = Append(stack[n].seen, r)
         /\ stack'[n + 1].todo = Todo(Content(r.doc, r.frag), Item.path)
    BY <1>10
  <1>17. QED
    BY <1>1, <1>2, <1>3, <1>10, <1>11, <1>12, <1>13, <1>14, <1>15, <1>16

\* The new chain.
LEMMA NewChain ==
  ASSUME StateOK, Entering, NEW n, n = Len(stack), NEW r, r = Item.ref
  PROVE  /\ DOMAIN stack'[n + 1].seen = 1..n
         /\ \A a \in 1..(n - 1) : stack'[n + 1].seen[a] = stack[n].seen[a]
         /\ stack'[n + 1].seen[n] = r
         /\ r \notin Range(stack[n].seen)
  <1>1. /\ n \in Nat \ {0} /\ r \in Ref /\ Item \in TodoItem
        /\ stack'[n + 1].seen = Append(stack[n].seen, r)
    BY EnterShape
  <1>2. stack[n].seen \in Seq(Ref) /\ Len(stack[n].seen) = n - 1 /\ Top = stack[n]
    BY <1>1, TopFacts DEF Entering
  <1>3. /\ DOMAIN stack'[n + 1].seen = 1..n
        /\ \A a \in 1..(n - 1) : stack'[n + 1].seen[a] = stack[n].seen[a]
        /\ stack'[n + 1].seen[n] = r
    BY <1>1, <1>2
  <1>4. r \notin Range(stack[n].seen)
    BY <1>2 DEF Entering, Circular
  <1>5. QED
    BY <1>3, <1>4

\* What is left to follow there: what stands at the ref.
LEMMA NewFrame ==
  ASSUME StateOK, Entering, NEW n, n = Len(stack), NEW r, r = Item.ref
  PROVE  /\ \A j \in DOMAIN stack'[n + 1].todo : stack'[n + 1].todo[j].ref \in Below[r]
         /\ \A c \in Below[r] : \E j \in DOMAIN stack'[n + 1].todo : stack'[n + 1].todo[j].ref = c
  <1> DEFINE c == Content(r.doc, r.frag)
  <1>1. /\ n \in Nat \ {0} /\ r \in Ref /\ Item \in TodoItem
        /\ stack'[n + 1].todo = Todo(c, Item.path)
    BY EnterShape
  <1>5. Present(r) /\ c \in Place /\ (c.isRef => Len(c.refs) = 1) /\ Item.path \in Path \cup {NoPath}
    BY <1>1, ContentType DEF Entering, TodoItem
  <1> DEFINE t == Todo(c, Item.path)
             Path1 == IF c.isRef THEN Item.path ELSE NoPath
  <1>6. /\ t \in Seq(TodoItem) /\ Len(t) = Len(c.refs)
        /\ \A i \in 1..Len(c.refs) : t[i] = [ref |-> c.refs[i], path |-> Path1]
    <2> HIDE DEF c
    <2> QED BY <1>5, TodoType
  <1>7. DOMAIN t = 1..Len(c.refs) /\ DOMAIN c.refs = 1..Len(c.refs)
    <2> HIDE DEF c, t
    <2> QED BY <1>5, <1>6 DEF Place
  <1>8. ASSUME NEW j \in DOMAIN t PROVE t[j].ref = c.refs[j] /\ t[j].path = Path1
    <2>1. t[j] = [ref |-> c.refs[j], path |-> Path1]
      BY <1>6, <1>7, Zenon
    <2> HIDE DEF c, t, Path1
    <2> QED BY <2>1
  <1>9. Below[r] = Range(c.refs)
    BY <1>1, <1>5 DEF Below
  <1>10. \A j \in DOMAIN t : t[j].ref \in Below[r]
    <2> HIDE DEF c, t, Path1
    <2> QED BY <1>7, <1>8, <1>9 DEF Range
  <1>11. \A x \in Below[r] : \E j \in DOMAIN t : t[j].ref = x
    <2> HIDE DEF c, t, Path1
    <2> QED BY <1>7, <1>8, <1>9 DEF Range
  <1>14. stack'[n + 1].todo = t
    BY <1>1
  <1>15. QED
    <2> HIDE DEF t
    <2> QED BY <1>10, <1>11, <1>14

\* Only what stands alone as a $ref hands its path on.
LEMMA NewFramePaths ==
  ASSUME StateOK, Entering, NEW n, n = Len(stack), NEW r, r = Item.ref
  PROVE  /\ Content(r.doc, r.frag).isRef =>
              /\ DOMAIN stack'[n + 1].todo = {1}
              /\ stack'[n + 1].todo[1] = [ref |-> Content(r.doc, r.frag).refs[1], path |-> Item.path]
         /\ ~Content(r.doc, r.frag).isRef =>
              \A j \in DOMAIN stack'[n + 1].todo : stack'[n + 1].todo[j].path = NoPath
  <1> DEFINE c == Content(r.doc, r.frag)
  <1>1. /\ n \in Nat \ {0} /\ r \in Ref /\ Item \in TodoItem
        /\ stack'[n + 1].todo = Todo(c, Item.path)
    BY EnterShape
  <1>5. Present(r) /\ c \in Place /\ (c.isRef => Len(c.refs) = 1) /\ Item.path \in Path \cup {NoPath}
    BY <1>1, ContentType DEF Entering, TodoItem
  <1> DEFINE t == Todo(c, Item.path)
             Path1 == IF c.isRef THEN Item.path ELSE NoPath
  <1>6. /\ t \in Seq(TodoItem) /\ Len(t) = Len(c.refs)
        /\ \A i \in 1..Len(c.refs) : t[i] = [ref |-> c.refs[i], path |-> Path1]
    <2> HIDE DEF c
    <2> QED BY <1>5, TodoType
  <1>7. DOMAIN t = 1..Len(c.refs) /\ DOMAIN c.refs = 1..Len(c.refs)
    <2> HIDE DEF c, t
    <2> QED BY <1>5, <1>6 DEF Place
  <1>8. ASSUME NEW j \in DOMAIN t PROVE t[j].ref = c.refs[j] /\ t[j].path = Path1
    <2>1. t[j] = [ref |-> c.refs[j], path |-> Path1]
      BY <1>6, <1>7, Zenon
    <2> HIDE DEF c, t, Path1
    <2> QED BY <2>1
  <1>12. c.isRef => DOMAIN t = {1} /\ t[1] = [ref |-> c.refs[1], path |-> Item.path]
    <2>1. c.isRef => Path1 = Item.path
      OBVIOUS
    <2> HIDE DEF c, t, Path1
    <2> QED BY <1>5, <1>6, <1>7, <2>1
  <1>13. ~c.isRef => \A j \in DOMAIN t : t[j].path = NoPath
    <2>1. ~c.isRef => Path1 = NoPath
      OBVIOUS
    <2> HIDE DEF c, t, Path1
    <2> QED BY <1>8, <2>1
  <1>14. stack'[n + 1].todo = t
    BY <1>1
  <1>15. QED
    <2> HIDE DEF t
    <2> QED BY <1>12, <1>13, <1>14

\* A call that is done leaves the stack below it as it was.
LEMMA ReturnShape ==
  ASSUME StateOK, stack # <<>>, stack' = Front(stack), NEW n, n = Len(stack)
  PROVE  /\ n \in Nat \ {0} /\ DOMAIN stack = 1..n /\ DOMAIN stack' = 1..(n - 1)
         /\ stack' \in Seq(Frame) /\ \A i \in 1..(n - 1) : stack'[i] = stack[i]
  <1>1. n \in Nat \ {0} /\ DOMAIN stack = 1..n /\ stack \in Seq(Frame)
    BY TopFacts DEF StateOK
  <1>2. stack' = SubSeq(stack, 1, n - 1)
    BY DEF Front
  <1>3. QED
    BY <1>1, <1>2

-----------------------------------------------------------------------------
(* The state keeps its shape.                                              *)

\* load_spec on a document with paths.
Loading ==
  /\ stage = "idle" /\ PathsOf(Root) # {}
  /\ stack' = <<[todo |-> RootTodo, seen |-> <<>>]>>
  /\ found' = [p \in PathsOf(Root) |-> docs[Root][p].ops]
  /\ locals' = [doc : {Root}, frag : Content(Root, Whole).locals]
  /\ stage' = "resolving"
  /\ UNCHANGED <<docs, edits, config, error, inlined, served, names>>

\* A ref that is followed to what it points to.
Following ==
  /\ Entering
  /\ found' = [p \in DOMAIN found |->
                 IF p = Item.path
                   THEN Content(Item.ref.doc, Item.ref.frag).ops
                   ELSE found[p]]
  /\ inlined' = inlined \cup {Item.ref}
  /\ locals' = locals \cup [doc : {Item.ref.doc},
                            frag : Content(Item.ref.doc, Item.ref.frag).locals]
  /\ UNCHANGED <<docs, edits, config, stage, error, served, names>>

Counting ==
  /\ stage = "resolving" /\ stack = <<>>
  /\ stage' = "loaded"
  /\ UNCHANGED <<docs, edits, config, error, stack, found, inlined, locals, served, names>>

Constructing ==
  /\ stage = "loaded"
  /\ served' = NormalizeSpec
  /\ names' = NamesMap(NormalizeSpec)
  /\ stage' = "served"
  /\ UNCHANGED <<docs, edits, config, error, stack, found, inlined, locals>>

\* What each refusal comes from.
Refusing ==
  \/ stage = "idle" /\ Fail("no backend")
  \/ stage \in {"idle", "resolving"} /\ Fail("fetch")
  \/ stage = "idle" /\ Fail("no paths")
  \/ stage = "resolving" /\ stack # <<>> /\ Top.todo # <<>> /\ Circular /\ Fail("circular")
  \/ stage = "resolving" /\ stack # <<>> /\ Top.todo # <<>> /\ ~Present(Item.ref) /\ Fail("fragment")
  \/ /\ stage = "resolving" /\ stack = <<>> /\ \A p \in DOMAIN found : found[p] = {}
     /\ Fail("no operations")
  \/ stage = "loaded" /\ Fail("route_map")

\* The steps by what they do to the stack.
LEMMA StepCases ==
  ASSUME Next
  PROVE  \/ Loading \/ Following \/ Return \/ Counting \/ Constructing \/ Refusing
         \/ \E d \in Doc : Publish(d)
  <1>1. ASSUME LoadSpec PROVE Loading \/ Refusing
    BY <1>1 DEF LoadSpec, Loading, Refusing
  <1>2. ASSUME FollowRef PROVE Following \/ Refusing
    BY <1>2, Zenon DEF FollowRef, Following, Refusing, Entering
  <1>3. ASSUME CountOperations PROVE Counting \/ Refusing
    BY <1>3 DEF CountOperations, Counting, Refusing
  <1>4. ASSUME Construct PROVE Constructing \/ Refusing
    BY <1>4 DEF Construct, Constructing, Refusing
  <1>5. QED
    BY <1>1, <1>2, <1>3, <1>4 DEF Next, Progress

\* The strengthened invariant holds before anything is loaded.
LEMMA InitIInv == Init => IInv
  <1> SUFFICES ASSUME Init PROVE IInv
    OBVIOUS
  <1>1. StateOK
    BY FiniteAssumption DEF Init, StateOK, None
  <1>2. SettledOK /\ ServedOK
    BY DEF Init, SettledOK, ServedOK, RefusedOK
  <1>3. QED
    BY <1>1, <1>2 DEF IInv

\* Starting a load gives the stack its first frame.
LEMMA LoadingStateOK ==
  ASSUME StateOK, Loading
  PROVE  StateOK'
  <1>1. RootTodo \in Seq(TodoItem)
    BY RootTodoLists
  <1>2. [todo |-> RootTodo, seen |-> <<>>] \in Frame
    BY <1>1 DEF Frame
  <1>3. stack' \in Seq(Frame) /\ DOMAIN stack' = {1} /\ stack'[1].seen = <<>>
    BY <1>2 DEF Loading
  <1>4. \A p \in PathsOf(Root) : docs[Root][p].ops \in SUBSET Operation
    BY DocumentedFrom DEF PathsOf
  <1>5. DOMAIN found' = PathsOf(Root) /\ found' \in [DOMAIN found' -> SUBSET Operation]
    BY <1>4 DEF Loading
  <1>6. locals' \subseteq [doc : Doc, frag : Fragment]
    <2>1. Content(Root, Whole).locals \subseteq Fragment
      BY RootAssumption, WholeContent DEF Place
    <2>2. QED
      BY <2>1, RootAssumption DEF Loading
  <1>7. /\ \A i \in DOMAIN stack' : Len(stack'[i].seen) = i - 1
        /\ \A i \in DOMAIN stack' : \A a, b \in DOMAIN stack'[i].seen :
             stack'[i].seen[a] = stack'[i].seen[b] => a = b
    BY <1>3
  <1>8. QED
    BY <1>3, <1>5, <1>6, <1>7 DEF StateOK, Loading, PathsOf

\* Following a ref lengthens the chain by a ref that is not in it: the cycle check.
LEMMA FollowingStateOK ==
  ASSUME StateOK, Following
  PROVE  StateOK'
  <1> DEFINE n == Len(stack)
             r == Item.ref
             c == Content(r.doc, r.frag)
  <1>1. /\ n \in Nat \ {0} /\ r \in Ref /\ DOMAIN stack = 1..n /\ DOMAIN stack' = 1..(n + 1)
        /\ stack' \in Seq(Frame)
        /\ \A i \in 1..(n - 1) : stack'[i] = stack[i]
        /\ stack'[n].seen = stack[n].seen
    BY EnterShape DEF Following
  <1>2. /\ DOMAIN stack'[n + 1].seen = 1..n
        /\ \A a \in 1..(n - 1) : stack'[n + 1].seen[a] = stack[n].seen[a]
        /\ stack'[n + 1].seen[n] = r
        /\ r \notin Range(stack[n].seen)
    BY NewChain DEF Following
  <1>3. Present(r) /\ c \in Place /\ r.doc \in Doc
    BY <1>1, ContentType DEF Following, Entering, Ref
  <1>4. \A i \in 1..n : stack'[i].seen = stack[i].seen
    BY <1>1
  <1>5. ASSUME NEW i \in DOMAIN stack'
        PROVE  /\ Len(stack'[i].seen) = i - 1
               /\ \A a, b \in DOMAIN stack'[i].seen :
                    stack'[i].seen[a] = stack'[i].seen[b] => a = b
    <2>1. CASE i \in 1..n
      BY <1>1, <1>4, <2>1 DEF StateOK
    <2>2. CASE i = n + 1
      <3> DEFINE old == stack[n].seen
                 new == stack'[n + 1].seen
      <3>1. new \in Seq(Ref) /\ stack'[i].seen = new
        <4>1. n + 1 \in DOMAIN stack'
          BY <1>1
        <4>2. stack'[n + 1] \in Frame
          BY <1>1, <4>1
        <4>3. QED
          BY <2>2, <4>2 DEF Frame
      <3>2. DOMAIN old = 1..(n - 1) /\ \A a, b \in DOMAIN old : old[a] = old[b] => a = b
        <4>1. n \in DOMAIN stack
          BY <1>1
        <4>2. DOMAIN old = 1..(n - 1)
          BY <1>1, TopFacts DEF Following, Entering
        <4>3. QED
          BY <4>1, <4>2 DEF StateOK
      <3>3. DOMAIN new = 1..n /\ new[n] = r /\ \A a \in 1..(n - 1) : new[a] = old[a]
        BY <1>2
      <3>4. \A a \in 1..(n - 1) : old[a] # r
        BY <1>2, <3>2 DEF Range
      <3>5. n \in Nat \ {0} /\ i = n + 1
        BY <1>1, <2>2
      <3> HIDE DEF old, new, n, r
      <3>6. Len(new) = i - 1
        BY <3>1, <3>3, <3>5
      <3>7. ASSUME NEW a \in 1..n, NEW b \in 1..n, new[a] = new[b] PROVE a = b
        <4>1. a = n \/ a \in 1..(n - 1)
          BY <3>5
        <4>2. b = n \/ b \in 1..(n - 1)
          BY <3>5
        <4>3. QED
          BY <3>2, <3>3, <3>4, <3>7, <4>1, <4>2
      <3>8. QED
        BY <3>1, <3>3, <3>6, <3>7
    <2>3. QED
      BY <1>1, <2>1, <2>2
  <1>6. DOMAIN found' = DOMAIN found /\ found' \in [DOMAIN found' -> SUBSET Operation]
    <2>1. c.ops \in SUBSET Operation
      <3> HIDE DEF c, r
      <3> QED BY <1>1, <1>3 DEF Place
    <2>2. \A p \in DOMAIN found : found[p] \in SUBSET Operation
      BY DEF StateOK
    <2>3. QED
      BY <2>1, <2>2 DEF Following
  <1>7. inlined' \subseteq Ref
    BY <1>1 DEF StateOK, Following
  <1>8. locals' \subseteq [doc : Doc, frag : Fragment]
    <2>1. c.locals \subseteq Fragment
      <3> HIDE DEF c
      <3> QED BY <1>3 DEF Place
    <2>2. locals' = locals \cup [doc : {r.doc}, frag : c.locals]
      BY DEF Following
    <2>3. locals \subseteq [doc : Doc, frag : Fragment]
      BY DEF StateOK
    <2> HIDE DEF r, c
    <2> QED BY <1>3, <2>1, <2>2, <2>3
  <1>9. QED
    <2>1. UNCHANGED <<docs, edits, config, stage, error>> /\ stage = "resolving"
      BY DEF Following, Entering
    <2> QED BY <1>1, <1>5, <1>6, <1>7, <1>8, <2>1 DEF StateOK

\* Returning from a call keeps the shape of the stack.
LEMMA ReturnStateOK ==
  ASSUME StateOK, Return
  PROVE  StateOK'
  <1> DEFINE n == Len(stack)
  <1>1. /\ n \in Nat \ {0} /\ DOMAIN stack = 1..n /\ DOMAIN stack' = 1..(n - 1)
        /\ stack' \in Seq(Frame) /\ \A i \in 1..(n - 1) : stack'[i] = stack[i]
    BY ReturnShape DEF Return
  <1>2. \A i \in DOMAIN stack' : i \in DOMAIN stack /\ stack'[i] = stack[i]
    BY <1>1
  <1>3. /\ \A i \in DOMAIN stack' : Len(stack'[i].seen) = i - 1
        /\ \A i \in DOMAIN stack' : \A a, b \in DOMAIN stack'[i].seen :
             stack'[i].seen[a] = stack'[i].seen[b] => a = b
    BY <1>2 DEF StateOK
  <1>4. /\ stage = "resolving" /\ stack' = Front(stack)
        /\ UNCHANGED <<docs, edits, config, stage, error, found, inlined, locals>>
    BY DEF Return
  <1>5. QED
    BY <1>1, <1>3, <1>4 DEF StateOK

\* No step of the source disturbs the shape of the state.
LEMMA NextStateOK ==
  ASSUME StateOK, [Next]_vars
  PROVE  StateOK'
  <1>1. CASE UNCHANGED vars
    BY <1>1 DEF StateOK, vars
  <1>2. CASE Counting \/ Constructing
    BY <1>2 DEF StateOK, Counting, Constructing
  <1>3. CASE Refusing
    BY <1>3 DEF StateOK, Refusing, Fail
  <1>4. ASSUME NEW d \in Doc, Publish(d) PROVE StateOK'
    <2>1. PICK v \in Versions[d] : docs' = [docs EXCEPT ![d] = v]
      BY <1>4 DEF Publish
    <2>2. docs' \in [Doc -> UNION {Versions[e] : e \in Doc}] /\ \A e \in Doc : docs'[e] \in Versions[e]
      BY <2>1 DEF StateOK
    <2>3. edits' \in 0..MaxEdits
      BY <1>4, FiniteAssumption DEF StateOK, Publish
    <2>4. QED
      BY <1>4, <2>2, <2>3 DEF StateOK, Publish
  <1>5. QED
    BY <1>1, <1>2, <1>3, <1>4, StepCases, LoadingStateOK, FollowingStateOK, ReturnStateOK

-----------------------------------------------------------------------------
(* The chain of the refs that are being resolved.                          *)

\* The next ref to follow is below all of those.
LEMMA ItemFacts ==
  ASSUME StateOK, ChainOK, stack # <<>>, Top.todo # <<>>, NEW n, n = Len(stack)
  PROVE  /\ Item = stack[n].todo[1] /\ 1 \in DOMAIN stack[n].todo
         /\ Item.ref \in Ref /\ Item.ref \in RefsOf(n) /\ Item.ref \in Reachable
         /\ \A a \in DOMAIN stack[n].seen : Item.ref \in Under(stack[n].seen[a])
  <1>1. /\ n \in Nat \ {0} /\ n \in DOMAIN stack /\ Top = stack[n]
        /\ stack[n].todo \in Seq(TodoItem) /\ DOMAIN stack[n].seen = 1..(n - 1)
        /\ stack[n].seen \in Seq(Ref)
    BY TopFacts
  <1>2. Item = stack[n].todo[1] /\ 1 \in DOMAIN stack[n].todo /\ Item.ref \in Ref
    <2> DEFINE todo == stack[n].todo
    <2>1. todo \in Seq(TodoItem) /\ todo # <<>> /\ Item = Head(todo)
      BY <1>1 DEF Item
    <2>2. Item = todo[1] /\ 1 \in DOMAIN todo /\ todo[1] \in TodoItem
      <3> HIDE DEF todo
      <3> QED BY <2>1
    <2>3. QED
      BY <2>2 DEF TodoItem
  <1>3. Item.ref \in RefsOf(n)
    BY <1>1, <1>2 DEF ChainOK
  <1>4. CASE n = 1
    <2>1. Item.ref \in Reachable
      BY <1>3, <1>4, ReachableFacts DEF RefsOf
    <2>2. QED
      BY <1>1, <1>2, <1>3, <1>4, <2>1
  <1>5. CASE n # 1
    <2> DEFINE m == n - 1
               x == stack[n].seen[m]
    <2>1. x = At(n) /\ x \in Ref /\ m \in DOMAIN stack[n].seen /\ Item.ref \in Below[x]
      BY <1>1, <1>3, <1>5, AtFacts DEF RefsOf
    <2>2. x \in Reachable
      BY <1>1, <2>1 DEF ChainOK
    <2>3. Item.ref \in Reachable
      BY <2>1, <2>2, ReachableFacts
    <2>4. ASSUME NEW a \in DOMAIN stack[n].seen PROVE Item.ref \in Under(stack[n].seen[a])
      <3>1. CASE a = m
        BY <2>1, <3>1, UnderFacts
      <3>2. CASE a # m
        <4>1. a < m
          BY <1>1, <3>2
        <4>2. x \in Under(stack[n].seen[a]) /\ stack[n].seen[a] \in Ref
          BY <1>1, <2>1, <4>1 DEF ChainOK
        <4>3. Below[x] \subseteq Under(stack[n].seen[a])
          BY <4>2, UnderFacts
        <4>4. QED
          BY <2>1, <4>3
      <3>3. QED
        BY <3>1, <3>2
    <2>5. QED
      BY <1>2, <1>3, <2>3, <2>4
  <1>6. QED
    BY <1>4, <1>5

\* A frame with the same chain is at the same ref.
LEMMA FrameSame ==
  ASSUME UNCHANGED docs, NEW i, stack'[i].seen = stack[i].seen
  PROVE  At(i)' = At(i) /\ RefsOf(i)' = RefsOf(i)
  <1>1. At(i)' = At(i)
    BY DEF At, Last
  <1>2. QED
    BY <1>1, SameDocuments DEF RefsOf

\* Following a ref extends a chain in which each ref stands in the place of the one before.
LEMMA FollowingChain ==
  ASSUME StateOK, ChainOK, Following
  PROVE  ChainOK'
  <1> SUFFICES ASSUME NEW n, n = Len(stack), NEW r, r = Item.ref,
                      NEW old, old = stack[n].seen, NEW new, new = stack'[n + 1].seen
               PROVE  ChainOK'
    OBVIOUS
  <1>0. UNCHANGED docs
    BY DEF Following
  <1>1. /\ n \in Nat \ {0} /\ r \in Ref /\ DOMAIN stack = 1..n /\ DOMAIN stack' = 1..(n + 1)
        /\ stack' \in Seq(Frame) /\ \A i \in 1..(n - 1) : stack'[i] = stack[i]
        /\ stack'[n].seen = old
        /\ \A j \in DOMAIN stack'[n].todo :
             j + 1 \in DOMAIN stack[n].todo /\ stack'[n].todo[j] = stack[n].todo[j + 1]
    BY EnterShape DEF Following
  <1>2. /\ DOMAIN new = 1..n /\ new[n] = r /\ \A a \in 1..(n - 1) : new[a] = old[a]
        /\ \A j \in DOMAIN stack'[n + 1].todo : stack'[n + 1].todo[j].ref \in Below[r]
    <2>1. Entering /\ docs' = docs
      BY <1>0 DEF Following
    <2>2. DOMAIN new = 1..n /\ new[n] = r /\ \A a \in 1..(n - 1) : new[a] = old[a]
      BY <2>1, NewChain
    <2>3. \A j \in DOMAIN stack'[n + 1].todo : stack'[n + 1].todo[j].ref \in Below[r]
      BY <2>1, NewFrame
    <2>4. QED
      BY <2>2, <2>3
  <1>3. /\ r \in Reachable /\ \A a \in DOMAIN old : r \in Under(old[a])
        /\ DOMAIN old = 1..(n - 1)
    <2>1. stack # <<>> /\ Top.todo # <<>>
      BY DEF Following, Entering
    <2>2. DOMAIN old = 1..(n - 1)
      BY <1>1, <2>1, TopFacts
    <2>3. QED
      BY <2>1, <2>2, ItemFacts
  <1>4. ASSUME NEW i \in 1..n
        PROVE  /\ \A j \in DOMAIN stack'[i].todo : stack'[i].todo[j].ref \in RefsOf(i)
               /\ RefsOf(i)' = RefsOf(i) /\ stack'[i].seen = stack[i].seen
    <2>1. \A j \in DOMAIN stack[i].todo : stack[i].todo[j].ref \in RefsOf(i)
      BY <1>1 DEF ChainOK
    <2>2. stack'[i].seen = stack[i].seen
      BY <1>1
    <2>3. \A j \in DOMAIN stack'[i].todo : stack'[i].todo[j].ref \in RefsOf(i)
      <3>1. CASE i = n
        BY <1>1, <2>1, <3>1
      <3>2. CASE i # n
        <4>1. i \in 1..(n - 1)
          BY <1>1, <3>2
        <4>2. QED
          BY <1>1, <2>1, <4>1
      <3>3. QED
        BY <3>1, <3>2
    <2>4. QED
      BY <1>0, <2>2, <2>3, FrameSame
  <1>5. RefsOf(n + 1)' = Below[r]
    <2>1. stack'[n + 1] \in Frame
      BY <1>1
    <2>2. new \in Seq(Ref)
      BY <2>1 DEF Frame
    <2>3. Last(new) = r
      BY <1>1, <1>2, <2>2 DEF Last
    <2>4. RefsOf(n + 1)' = Below'[r]
      <3>1. n + 1 # 1
        BY <1>1
      <3>2. RefsOf(n + 1)' = (IF n + 1 = 1 THEN RootRefs' ELSE Below'[Last(new)])
        BY DEF RefsOf, At
      <3>3. QED
        BY <2>3, <3>1, <3>2
    <2>5. QED
      BY <1>0, <2>4, SameDocuments
  <1>6. ASSUME NEW i \in DOMAIN stack', NEW j \in DOMAIN stack'[i].todo
        PROVE  stack'[i].todo[j].ref \in RefsOf(i)'
    <2>1. CASE i \in 1..n
      BY <1>4, <2>1
    <2>2. CASE i = n + 1
      BY <1>2, <1>5, <2>2
    <2>3. QED
      BY <1>1, <2>1, <2>2
  <1>7. ASSUME NEW i \in DOMAIN stack', NEW a \in DOMAIN stack'[i].seen
        PROVE  /\ stack'[i].seen[a] \in Reachable
               /\ \A b \in DOMAIN stack'[i].seen :
                    a < b => stack'[i].seen[b] \in Under(stack'[i].seen[a])
    <2>1. CASE i \in 1..n
      BY <1>1, <1>4, <2>1 DEF ChainOK
    <2>2. CASE i = n + 1
      <3>1. /\ \A x \in 1..(n - 1) : old[x] \in Reachable
            /\ \A x, y \in 1..(n - 1) : x < y => old[y] \in Under(old[x])
        <4>1. n \in DOMAIN stack
          BY <1>1
        <4>2. QED
          BY <1>3, <4>1 DEF ChainOK
      <3>2. a \in 1..n
        BY <1>2, <2>2
      <3>3. new[a] \in Reachable
        <4>1. a = n \/ a \in 1..(n - 1)
          BY <1>1, <3>2
        <4>2. QED
          BY <1>2, <1>3, <3>1, <4>1
      <3>4. ASSUME NEW b \in 1..n, a < b PROVE new[b] \in Under(new[a])
        <4>1. a \in 1..(n - 1) /\ (b = n \/ b \in 1..(n - 1))
          BY <1>1, <3>2, <3>4
        <4>2. QED
          BY <1>2, <1>3, <3>1, <3>4, <4>1
      <3>5. QED
        BY <1>2, <2>2, <3>3, <3>4
    <2>3. QED
      BY <1>1, <2>1, <2>2
  <1>8. QED
    BY <1>0, <1>6, <1>7, SameDocuments DEF ChainOK

\* Returning leaves the chains below.
LEMMA ReturnChain ==
  ASSUME StateOK, ChainOK, Return
  PROVE  ChainOK'
  <1> DEFINE n == Len(stack)
  <1>0. UNCHANGED docs
    BY DEF Return
  <1>1. \A i \in DOMAIN stack' : i \in DOMAIN stack /\ stack'[i] = stack[i]
    <2>1. /\ n \in Nat \ {0} /\ DOMAIN stack = 1..n /\ DOMAIN stack' = 1..(n - 1)
          /\ \A i \in 1..(n - 1) : stack'[i] = stack[i]
      BY ReturnShape DEF Return
    <2>2. QED
      BY <2>1
  <1>2. \A i \in DOMAIN stack' : RefsOf(i)' = RefsOf(i)
    BY <1>0, <1>1, FrameSame
  <1>3. QED
    BY <1>0, <1>1, <1>2, SameDocuments DEF ChainOK

\* A new load has no chain yet.
LEMMA LoadingChain ==
  ASSUME StateOK, Loading
  PROVE  ChainOK'
  <1>1. /\ DOMAIN stack' = {1} /\ stack'[1].todo = RootTodo /\ stack'[1].seen = <<>>
        /\ UNCHANGED docs
    BY DEF Loading
  <1>2. \A j \in DOMAIN RootTodo : RootTodo[j].ref \in RootRefs
    BY RootTodoLists
  <1>3. RefsOf(1)' = RootRefs
    <2>1. RefsOf(1)' = RootRefs'
      BY DEF RefsOf
    <2>2. QED
      BY <1>1, <2>1, SameDocuments
  <1>4. QED
    BY <1>1, <1>2, <1>3 DEF ChainOK

-----------------------------------------------------------------------------
(* What has been inlined and what is still to follow.                      *)

\* A ref is pending when some call still has to follow it.
LEMMA PendingAwaits ==
  ASSUME NEW c \in Ref
  PROVE  c \in Pending <=> \E i \in DOMAIN stack : Awaits(i, c)
  BY DEF Pending

\* What following a ref does to the frames.
LEMMA FollowFrames ==
  ASSUME StateOK, Following, NEW n, n = Len(stack), NEW r, r = Item.ref
  PROVE  /\ UNCHANGED docs /\ n \in Nat \ {0} /\ r \in Ref /\ Present(r)
         /\ DOMAIN stack = 1..n /\ DOMAIN stack' = 1..(n + 1)
         /\ \A i \in 1..n : At(i)' = At(i)
         /\ At(n + 1)' = r
         /\ \A i \in 1..n : \A c : Awaits(i, c) => Awaits(i, c)' \/ (i = n /\ c = r)
         /\ \A c \in Below[r] : Awaits(n + 1, c)'
  <1>0. UNCHANGED docs /\ Entering
    BY DEF Following
  <1>1. /\ n \in Nat \ {0} /\ r \in Ref /\ DOMAIN stack = 1..n /\ DOMAIN stack' = 1..(n + 1)
        /\ Item = stack[n].todo[1]
        /\ stack' \in Seq(Frame) /\ \A i \in 1..(n - 1) : stack'[i] = stack[i]
        /\ stack'[n].seen = stack[n].seen
        /\ \A j \in DOMAIN stack[n].todo :
             j # 1 => j - 1 \in DOMAIN stack'[n].todo /\ stack'[n].todo[j - 1] = stack[n].todo[j]
    BY <1>0, EnterShape
  <1>2. /\ DOMAIN stack'[n + 1].seen = 1..n /\ stack'[n + 1].seen[n] = r
        /\ \A c \in Below[r] : \E j \in DOMAIN stack'[n + 1].todo : stack'[n + 1].todo[j].ref = c
    <2>1. \A c \in Below[r] : \E j \in DOMAIN stack'[n + 1].todo : stack'[n + 1].todo[j].ref = c
      BY <1>0, NewFrame
    <2>2. QED
      BY <1>0, <2>1, NewChain
  <1>3. Present(r)
    BY <1>0 DEF Entering
  <1>4. ASSUME NEW i \in 1..n PROVE At(i)' = At(i)
    <2>1. stack'[i].seen = stack[i].seen
      BY <1>1
    <2>2. QED
      BY <1>0, <2>1, FrameSame
  <1>5. At(n + 1)' = r
    <2>1. stack'[n + 1] \in Frame
      BY <1>1
    <2>2. stack'[n + 1].seen \in Seq(Ref)
      BY <2>1 DEF Frame
    <2> DEFINE new == stack'[n + 1].seen
    <2>3. Last(new) = r
      <3> HIDE DEF new
      <3>1. new \in Seq(Ref) /\ DOMAIN new = 1..n /\ new[n] = r
        BY <1>2, <2>2 DEF new
      <3>2. QED
        BY <1>1, <3>1 DEF Last
    <2>4. QED
      BY <2>3 DEF At
  <1>6. ASSUME NEW i \in 1..n, NEW c, Awaits(i, c)
        PROVE  Awaits(i, c)' \/ (i = n /\ c = r)
    <2>1. PICK j \in DOMAIN stack[i].todo : stack[i].todo[j].ref = c
      BY <1>6 DEF Awaits
    <2>2. CASE i # n
      <3>1. stack'[i] = stack[i]
        BY <1>1, <2>2
      <3>2. QED
        BY <2>1, <3>1 DEF Awaits
    <2>3. CASE i = n /\ j = 1
      BY <1>1, <2>1, <2>3
    <2>4. CASE i = n /\ j # 1
      <3>1. j - 1 \in DOMAIN stack'[i].todo /\ stack'[i].todo[j - 1].ref = c
        BY <1>1, <2>1, <2>4
      <3>2. QED
        BY <3>1 DEF Awaits
    <2>5. QED
      BY <2>2, <2>3, <2>4
  <1>7. \A c \in Below[r] : Awaits(n + 1, c)'
    BY <1>2 DEF Awaits
  <1>8. QED
    BY <1>0, <1>1, <1>3, <1>4, <1>5, <1>6, <1>7

\* What a return does to them: the last frame goes, which has nothing left to follow.
LEMMA ReturnFrames ==
  ASSUME StateOK, Return, NEW n, n = Len(stack)
  PROVE  /\ UNCHANGED <<docs, inlined>> /\ n \in Nat \ {0}
         /\ DOMAIN stack = 1..n /\ DOMAIN stack' = 1..(n - 1)
         /\ \A i \in 1..(n - 1) : stack'[i] = stack[i] /\ At(i)' = At(i)
         /\ \A i \in 1..(n - 1) : \A c : Awaits(i, c)' <=> Awaits(i, c)
         /\ DOMAIN stack[n].todo = {} /\ \A c : ~Awaits(n, c)
  <1>1. /\ n \in Nat \ {0} /\ DOMAIN stack = 1..n /\ DOMAIN stack' = 1..(n - 1)
        /\ \A i \in 1..(n - 1) : stack'[i] = stack[i]
    BY ReturnShape DEF Return
  <1>2. UNCHANGED <<docs, inlined>>
    BY DEF Return
  <1>3. stack[n].todo = <<>>
    BY TopFacts DEF Return
  <1>4. DOMAIN stack[n].todo = {}
    BY <1>3
  <1>5. \A i \in 1..(n - 1) : At(i)' = At(i) /\ \A c : Awaits(i, c)' <=> Awaits(i, c)
    BY <1>1 DEF At, Last, Awaits
  <1>6. QED
    BY <1>1, <1>2, <1>4, <1>5 DEF Awaits

\* Following a ref inlines it, and makes what stands in its place pending.
LEMMA FollowingCoverage ==
  ASSUME StateOK, ChainOK, CoverageOK, Following
  PROVE  CoverageOK'
  <1> SUFFICES ASSUME NEW n, n = Len(stack), NEW r, r = Item.ref PROVE CoverageOK'
    OBVIOUS
  <1>1. /\ UNCHANGED docs /\ n \in Nat \ {0} /\ r \in Ref /\ Present(r)
        /\ DOMAIN stack = 1..n /\ DOMAIN stack' = 1..(n + 1)
        /\ \A i \in 1..n : \A c : Awaits(i, c) => Awaits(i, c)' \/ (i = n /\ c = r)
        /\ \A c \in Below[r] : Awaits(n + 1, c)'
    BY FollowFrames
  <1>2. inlined' = inlined \cup {r}
    BY DEF Following
  <1>3. r \in Reachable /\ Below \in [Ref -> SUBSET Ref] /\ RootRefs \subseteq Ref /\ inlined \subseteq Ref
    <2>1. stack # <<>> /\ Top.todo # <<>>
      BY DEF Following, Entering
    <2>2. QED
      BY <2>1, ItemFacts, GraphType DEF StateOK
  <1>4. ASSUME NEW c \in Ref, c \in inlined \cup Pending PROVE c \in inlined' \cup Pending'
    <2>1. CASE c \in inlined
      BY <1>2, <2>1
    <2>2. CASE c \in Pending
      <3>1. PICK i \in 1..n : Awaits(i, c)
        BY <1>1, <2>2, PendingAwaits
      <3>2. c = r \/ Awaits(i, c)'
        BY <1>1, <3>1
      <3>3. i \in DOMAIN stack'
        BY <1>1
      <3>4. QED
        BY <1>2, <3>2, <3>3 DEF Pending
    <2>3. QED
      BY <1>4, <2>1, <2>2
  <1>5. Below[r] \subseteq Pending'
    <2>1. n + 1 \in DOMAIN stack' /\ Below[r] \subseteq Ref
      BY <1>1, <1>3
    <2>2. QED
      BY <1>1, <2>1 DEF Pending
  <1>6. inlined' \subseteq Reachable'
    BY <1>1, <1>2, <1>3, SameDocuments DEF CoverageOK
  <1>7. ASSUME NEW s \in inlined' PROVE Present(s)' /\ Below'[s] \subseteq inlined' \cup Pending'
    <2>1. Present(s)' <=> Present(s)
      BY <1>1, SameDocuments
    <2>2. Below' = Below
      BY <1>1, SameDocuments
    <2>3. CASE s = r
      BY <1>1, <1>5, <2>1, <2>2, <2>3
    <2>4. CASE s \in inlined
      <3>1. Present(s) /\ Below[s] \subseteq inlined \cup Pending /\ Below[s] \subseteq Ref
        BY <1>3, <2>4 DEF CoverageOK
      <3>2. QED
        BY <1>4, <2>1, <2>2, <3>1
    <2>5. QED
      BY <1>2, <2>3, <2>4
  <1>8. RootRefs' \subseteq inlined' \cup Pending'
    <2>1. RootRefs' = RootRefs
      BY <1>1, SameDocuments
    <2>2. RootRefs \subseteq inlined \cup Pending
      BY DEF CoverageOK
    <2>3. QED
      BY <1>3, <1>4, <2>1, <2>2
  <1>9. QED
    BY <1>6, <1>7, <1>8 DEF CoverageOK

\* A call returns with nothing left to follow.
LEMMA ReturnCoverage ==
  ASSUME StateOK, CoverageOK, Return
  PROVE  CoverageOK'
  <1> SUFFICES ASSUME NEW n, n = Len(stack) PROVE CoverageOK'
    OBVIOUS
  <1>1. /\ UNCHANGED <<docs, inlined>> /\ n \in Nat \ {0}
        /\ DOMAIN stack = 1..n /\ DOMAIN stack' = 1..(n - 1)
        /\ \A i \in 1..(n - 1) : \A c : Awaits(i, c)' <=> Awaits(i, c)
        /\ \A c : ~Awaits(n, c)
    BY ReturnFrames
  <1>2. ASSUME NEW c \in Pending PROVE c \in Pending'
    <2>1. c \in Ref /\ \E i \in 1..n : Awaits(i, c)
      BY <1>1 DEF Pending
    <2>2. PICK i \in 1..n : Awaits(i, c)
      BY <2>1
    <2>3. i \in 1..(n - 1)
      BY <1>1, <2>2
    <2>4. i \in DOMAIN stack' /\ Awaits(i, c)'
      BY <1>1, <2>2, <2>3
    <2>5. QED
      BY <2>1, <2>4 DEF Pending
  <1>3. /\ Below' = Below /\ RootRefs' = RootRefs /\ Reachable' = Reachable
        /\ \A r : Present(r)' <=> Present(r)
    BY <1>1, SameDocuments
  <1>4. QED
    BY <1>1, <1>2, <1>3 DEF CoverageOK

\* At first every ref of the root document is pending.
LEMMA LoadingCoverage ==
  ASSUME StateOK, Loading
  PROVE  CoverageOK'
  <1>1. /\ DOMAIN stack' = {1} /\ stack'[1].todo = RootTodo /\ UNCHANGED <<docs, inlined>>
        /\ stage = "idle"
    BY DEF Loading
  <1>2. inlined' = {}
    BY <1>1 DEF StateOK
  <1>3. RootRefs' = RootRefs /\ RootRefs \subseteq Ref
    BY <1>1, SameDocuments, GraphType
  <1>4. \A c \in RootRefs : Awaits(1, c)'
    BY <1>1, RootTodoLists DEF Awaits
  <1>5. RootRefs \subseteq Pending'
    BY <1>1, <1>3, <1>4 DEF Pending
  <1>6. QED
    BY <1>2, <1>3, <1>5 DEF CoverageOK

-----------------------------------------------------------------------------
(* What has been resolved has an end.                                      *)

\* A ref is followed before it is known to end, and not again while it is on the chain.
LEMMA FollowingEnding ==
  ASSUME StateOK, EndingOK, Following
  PROVE  EndingOK'
  <1> SUFFICES ASSUME NEW n, n = Len(stack), NEW r, r = Item.ref PROVE EndingOK'
    OBVIOUS
  <1>1. /\ UNCHANGED docs /\ n \in Nat \ {0}
        /\ DOMAIN stack = 1..n /\ DOMAIN stack' = 1..(n + 1)
        /\ \A i \in 1..n : At(i)' = At(i)
        /\ At(n + 1)' = r
        /\ \A i \in 1..n : \A c : Awaits(i, c) => Awaits(i, c)' \/ (i = n /\ c = r)
        /\ \A c \in Below[r] : Awaits(n + 1, c)'
    BY FollowFrames
  <1>2. inlined' = inlined \cup {r}
    BY DEF Following
  <1>3. Below' = Below /\ \A s : Ends(s)' <=> Ends(s)
    BY <1>1, SameDocuments
  <1>4. ASSUME NEW s \in inlined'
        PROVE  Ends(s)' \/ \E i \in DOMAIN stack' : i # 1 /\ s = At(i)'
    <2>1. CASE s = r
      <3>1. n + 1 \in DOMAIN stack' /\ n + 1 # 1 /\ s = At(n + 1)'
        BY <1>1, <2>1
      <3>2. QED
        BY <3>1
    <2>2. CASE s \in inlined
      <3>1. Ends(s) \/ \E i \in 1..n : i # 1 /\ s = At(i)
        BY <1>1, <2>2 DEF EndingOK
      <3>2. CASE Ends(s)
        BY <1>3, <3>2
      <3>3. CASE \E i \in 1..n : i # 1 /\ s = At(i)
        <4>1. PICK i \in 1..n : i # 1 /\ s = At(i)
          BY <3>3
        <4>2. i \in DOMAIN stack' /\ s = At(i)'
          BY <1>1, <4>1
        <4>3. QED
          BY <4>1, <4>2
      <3>4. QED
        BY <3>1, <3>2, <3>3
    <2>3. QED
      BY <1>2, <2>1, <2>2
  <1>5. ASSUME NEW i \in DOMAIN stack', i # 1, NEW c \in Below'[At(i)']
        PROVE  \/ Awaits(i, c)'
               \/ i + 1 \in DOMAIN stack' /\ c = At(i + 1)'
               \/ Ends(c)'
    <2>1. CASE i = n + 1
      BY <1>1, <1>3, <1>5, <2>1
    <2>2. CASE i \in 1..n
      <3>1. c \in Below[At(i)] /\ i \in DOMAIN stack
        BY <1>1, <1>3, <1>5, <2>2
      <3>2. \/ Awaits(i, c)
            \/ i + 1 \in DOMAIN stack /\ c = At(i + 1)
            \/ Ends(c)
        BY <1>5, <3>1 DEF EndingOK
      <3>3. CASE Awaits(i, c)
        <4>1. Awaits(i, c)' \/ (i = n /\ c = r)
          BY <1>1, <2>2, <3>3
        <4>2. i = n => i + 1 \in DOMAIN stack' /\ At(i + 1)' = r
          BY <1>1
        <4>3. QED
          BY <4>1, <4>2
      <3>4. CASE i + 1 \in DOMAIN stack /\ c = At(i + 1)
        <4>1. i + 1 \in 1..n /\ i + 1 \in DOMAIN stack'
          BY <1>1, <3>4
        <4>2. QED
          BY <1>1, <3>4, <4>1
      <3>5. QED
        BY <1>3, <3>2, <3>3, <3>4
    <2>3. QED
      BY <1>1, <2>1, <2>2
  <1>6. QED
    BY <1>4, <1>5 DEF EndingOK

\* A ref all of whose refs have been resolved ends.
LEMMA ReturnEnding ==
  ASSUME StateOK, EndingOK, Return
  PROVE  EndingOK'
  <1> SUFFICES ASSUME NEW n, n = Len(stack) PROVE EndingOK'
    OBVIOUS
  <1>1. /\ UNCHANGED <<docs, inlined>> /\ n \in Nat \ {0}
        /\ DOMAIN stack = 1..n /\ DOMAIN stack' = 1..(n - 1)
        /\ \A i \in 1..(n - 1) : At(i)' = At(i)
        /\ \A i \in 1..(n - 1) : \A c : Awaits(i, c)' <=> Awaits(i, c)
        /\ \A c : ~Awaits(n, c)
    BY ReturnFrames
  <1>2. Below' = Below /\ \A s : Ends(s)' <=> Ends(s)
    BY <1>1, SameDocuments
  <1>3. n # 1 => Ends(At(n))
    <2> SUFFICES ASSUME n # 1 PROVE Ends(At(n))
      OBVIOUS
    <2>1. n \in DOMAIN stack /\ n + 1 \notin DOMAIN stack
      BY <1>1
    <2>2. \A c \in Below[At(n)] : Ends(c)
      BY <1>1, <2>1 DEF EndingOK
    <2>3. At(n) \in Ref
      BY <2>1, AtFacts
    <2>4. QED
      BY <2>2, <2>3, EndsFromChildren
  <1>4. ASSUME NEW s \in inlined'
        PROVE  Ends(s)' \/ \E i \in DOMAIN stack' : i # 1 /\ s = At(i)'
    <2>1. Ends(s) \/ \E i \in 1..n : i # 1 /\ s = At(i)
      BY <1>1 DEF EndingOK
    <2>2. CASE \E i \in 1..n : i # 1 /\ s = At(i)
      <3>1. PICK i \in 1..n : i # 1 /\ s = At(i)
        BY <2>2
      <3>2. CASE i = n
        BY <1>2, <1>3, <3>1, <3>2
      <3>3. CASE i # n
        <4>1. i \in 1..(n - 1)
          BY <1>1, <3>3
        <4>2. i \in DOMAIN stack' /\ s = At(i)'
          BY <1>1, <3>1, <4>1
        <4>3. QED
          BY <3>1, <4>2
      <3>4. QED
        BY <3>2, <3>3
    <2>3. QED
      BY <1>2, <2>1, <2>2
  <1>5. ASSUME NEW i \in DOMAIN stack', i # 1, NEW c \in Below'[At(i)']
        PROVE  \/ Awaits(i, c)'
               \/ i + 1 \in DOMAIN stack' /\ c = At(i + 1)'
               \/ Ends(c)'
    <2>1. i \in 1..(n - 1) /\ i \in DOMAIN stack
      BY <1>1
    <2>2. c \in Below[At(i)]
      BY <1>1, <1>2, <1>5, <2>1
    <2>3. \/ Awaits(i, c)
          \/ i + 1 \in DOMAIN stack /\ c = At(i + 1)
          \/ Ends(c)
      BY <1>5, <2>1, <2>2 DEF EndingOK
    <2>4. CASE i + 1 \in DOMAIN stack /\ c = At(i + 1)
      <3>1. CASE i + 1 = n
        BY <1>1, <1>2, <1>3, <1>5, <2>4, <3>1
      <3>2. CASE i + 1 # n
        <4>1. i + 1 \in 1..(n - 1)
          BY <1>1, <2>4, <3>2
        <4>2. QED
          BY <1>1, <2>4, <4>1
      <3>3. QED
        BY <3>1, <3>2
    <2>5. QED
      BY <1>1, <1>2, <2>1, <2>3, <2>4
  <1>6. QED
    BY <1>4, <1>5 DEF EndingOK

\* At first nothing has been inlined.
LEMMA LoadingEnding ==
  ASSUME StateOK, Loading
  PROVE  EndingOK'
  <1>1. DOMAIN stack' = {1} /\ UNCHANGED inlined /\ stage = "idle"
    BY DEF Loading
  <1>2. inlined' = {}
    BY <1>1 DEF StateOK
  <1>3. QED
    BY <1>1, <1>2 DEF EndingOK

-----------------------------------------------------------------------------
(* The operations of the paths.                                            *)

\* Which paths wait for which refs, before and after a ref is followed: in the frames below
\* the last nothing changes, in the last the first item goes, and the new frame has an item
\* for a path only if a $ref stands alone where the ref points to.
LEMMA FollowPending ==
  ASSUME StateOK, Following, NEW n, n = Len(stack), NEW r, r = Item.ref, NEW p \in Path
  PROVE  /\ PendingFor(p, n, 1) <=> p = Item.path
         /\ \A i \in 1..(n - 1) : \A j :
              /\ PendingFor(p, i, j)' <=> PendingFor(p, i, j)
              /\ stack'[i] = stack[i]
         /\ \A j : PendingFor(p, n, j)' =>
              /\ j \in Nat \ {0} /\ PendingFor(p, n, j + 1)
              /\ stack'[n].todo[j] = stack[n].todo[j + 1]
         /\ \A j : PendingFor(p, n, j) /\ j # 1 => PendingFor(p, n, j - 1)'
  <1>0. Entering
    BY DEF Following
  <1>1. /\ n \in Nat \ {0} /\ Item = stack[n].todo[1] /\ 1 \in DOMAIN stack[n].todo
        /\ DOMAIN stack = 1..n /\ DOMAIN stack' = 1..(n + 1)
        /\ \A i \in 1..(n - 1) : stack'[i] = stack[i]
        /\ DOMAIN stack'[n].todo = 1..(Len(stack[n].todo) - 1)
        /\ \A j \in DOMAIN stack'[n].todo :
             j + 1 \in DOMAIN stack[n].todo /\ stack'[n].todo[j] = stack[n].todo[j + 1]
        /\ \A j \in DOMAIN stack[n].todo :
             j # 1 => j - 1 \in DOMAIN stack'[n].todo /\ stack'[n].todo[j - 1] = stack[n].todo[j]
    BY <1>0, EnterShape
  <1>2. PendingFor(p, n, 1) <=> p = Item.path
    <2>1. n \in DOMAIN stack
      BY <1>1
    <2>2. QED
      BY <1>1, <2>1 DEF PendingFor
  <1>3. ASSUME NEW i \in 1..(n - 1), NEW j PROVE PendingFor(p, i, j)' <=> PendingFor(p, i, j)
    <2>1. i \in DOMAIN stack /\ i \in DOMAIN stack' /\ stack'[i] = stack[i]
      BY <1>1
    <2>2. QED
      BY <2>1 DEF PendingFor
  <1>4. ASSUME NEW j, PendingFor(p, n, j)'
        PROVE  /\ j \in Nat \ {0} /\ PendingFor(p, n, j + 1)
               /\ stack'[n].todo[j] = stack[n].todo[j + 1]
    <2>1. j \in DOMAIN stack'[n].todo /\ stack'[n].todo[j].path = p
      BY <1>4 DEF PendingFor
    <2>2. /\ j + 1 \in DOMAIN stack[n].todo /\ stack'[n].todo[j] = stack[n].todo[j + 1]
          /\ n \in DOMAIN stack
      BY <1>1, <2>1
    <2>3. j \in Nat \ {0}
      <3>1. j \in 1..(Len(stack[n].todo) - 1)
        BY <1>1, <2>1
      <3>2. QED
        BY <3>1
    <2>4. QED
      BY <2>1, <2>2, <2>3 DEF PendingFor
  <1>5. ASSUME NEW j, PendingFor(p, n, j), j # 1 PROVE PendingFor(p, n, j - 1)'
    <2>1. j \in DOMAIN stack[n].todo /\ stack[n].todo[j].path = p
      BY <1>5 DEF PendingFor
    <2>2. /\ j - 1 \in DOMAIN stack'[n].todo /\ stack'[n].todo[j - 1] = stack[n].todo[j]
          /\ n \in DOMAIN stack'
      BY <1>1, <1>5, <2>1
    <2>3. QED
      BY <2>1, <2>2 DEF PendingFor
  <1>6. QED
    BY <1>1, <1>2, <1>3, <1>4, <1>5

\* Where a todo leads depends on the documents and on its ref.
LEMMA LeadsSame ==
  ASSUME UNCHANGED docs, NEW p, NEW i, NEW j, NEW x, x = stack'[i].todo[j].ref,
         Documented(p) = OperationsFrom(x)
  PROVE  LeadsTo(p, i, j)'
  <1>1. Documented(p)' = Documented(p) /\ OperationsFrom(x)' = OperationsFrom(x)
    BY SameDocuments
  <1>2. LeadsTo(p, i, j)' <=> Documented(p)' = OperationsFrom(x)'
    BY DEF LeadsTo, OperationsFrom, Operations, Closure
  <1>3. QED
    BY <1>1, <1>2

\* A path stays pending for the call that follows its ref, if that leads to one more ref.
LEMMA FollowPendingNew ==
  ASSUME StateOK, Following, NEW n, n = Len(stack), NEW r, r = Item.ref, NEW p \in Path
  PROVE  /\ \A j : PendingFor(p, n + 1, j)' <=> /\ Content(r.doc, r.frag).isRef
                                                /\ j = 1 /\ p = Item.path
         /\ Content(r.doc, r.frag).isRef =>
              stack'[n + 1].todo[1].ref = Content(r.doc, r.frag).refs[1]
  <1> DEFINE c == Content(r.doc, r.frag)
  <1>0. Entering
    BY DEF Following
  <1>1. n \in Nat \ {0} /\ n + 1 \in DOMAIN stack'
    <2>1. n \in Nat \ {0} /\ DOMAIN stack' = 1..(n + 1)
      BY <1>0, EnterShape
    <2>2. QED
      BY <2>1
  <1>2. /\ c.isRef =>
             /\ DOMAIN stack'[n + 1].todo = {1}
             /\ stack'[n + 1].todo[1] = [ref |-> c.refs[1], path |-> Item.path]
        /\ ~c.isRef => \A j \in DOMAIN stack'[n + 1].todo : stack'[n + 1].todo[j].path = NoPath
    BY <1>0, NewFramePaths
  <1>3. p # NoPath
    BY RootAssumption
  <1>4. QED
    BY <1>1, <1>2, <1>3 DEF PendingFor

\* Following the ref that a path waits for: either the path has its operations, or it waits
\* for the ref that stands alone in that place.
LEMMA FollowingItsPath ==
  ASSUME StateOK, Following, PathsOK, NEW p \in Path, p = Item.path
  PROVE  PathOK(p)'
  <1> SUFFICES ASSUME NEW n, n = Len(stack), NEW r, r = Item.ref,
                      NEW c, c = Content(r.doc, r.frag)
               PROVE  PathOK(p)'
    OBVIOUS
  <1>1. /\ UNCHANGED docs /\ n \in Nat \ {0} /\ r \in Ref /\ Present(r)
        /\ DOMAIN stack = 1..n /\ DOMAIN stack' = 1..(n + 1)
    BY FollowFrames
  <1>2. /\ \A q : Documented(q)' = Documented(q)
        /\ \A s : OperationsFrom(s)' = OperationsFrom(s)
    BY <1>1, SameDocuments
  <1>3. /\ PendingFor(p, n, 1)
        /\ \A i \in 1..(n - 1) : \A j : PendingFor(p, i, j)' <=> PendingFor(p, i, j)
        /\ \A j : PendingFor(p, n, j)' => j \in Nat \ {0} /\ PendingFor(p, n, j + 1)
    BY FollowPending
  <1>4. /\ p \in DOMAIN found /\ Documented(p) = OperationsFrom(stack[n].todo[1].ref)
        /\ \A k, l : PendingFor(p, k, l) => k = n /\ l = 1
    BY <1>3 DEF PathsOK, PathOK, LeadsTo
  <1>5. stack[n].todo[1].ref = r
    <2>1. Item = stack[n].todo[1]
      BY EnterShape DEF Following
    <2>2. QED
      BY <2>1
  <1>6. /\ \A j : PendingFor(p, n + 1, j)' <=> c.isRef /\ j = 1
        /\ c.isRef => stack'[n + 1].todo[1].ref = c.refs[1]
    <2>1. /\ \A j : PendingFor(p, n + 1, j)' <=> /\ Content(r.doc, r.frag).isRef
                                                 /\ j = 1 /\ p = Item.path
          /\ Content(r.doc, r.frag).isRef =>
               stack'[n + 1].todo[1].ref = Content(r.doc, r.frag).refs[1]
      BY FollowPendingNew
    <2>2. QED
      BY <2>1
  <1>7. ASSUME NEW i, NEW j, PendingFor(p, i, j)' PROVE i = n + 1 /\ c.isRef /\ j = 1
    <2>1. i \in 1..(n + 1)
      BY <1>1, <1>7 DEF PendingFor
    <2>2. i # n
      BY <1>3, <1>4, <1>7
    <2>3. i \notin 1..(n - 1)
      BY <1>1, <1>3, <1>4, <1>7
    <2>4. i = n + 1
      BY <1>1, <2>1, <2>2, <2>3
    <2>5. QED
      BY <1>6, <1>7, <2>4
  <1>8. DOMAIN found' = DOMAIN found /\ found'[p] = c.ops
    BY <1>4 DEF Following
  <1>9. c.isRef => Documented(p) = OperationsFrom(c.refs[1])
    BY <1>1, <1>4, <1>5, OperationsAlong
  <1>10. ~c.isRef => Documented(p) = c.ops
    BY <1>1, <1>4, <1>5, OperationsHere
  <1>11. ASSUME NEW i, NEW j, PendingFor(p, i, j)'
         PROVE  /\ p \in DOMAIN found'
                /\ LeadsTo(p, i, j)'
                /\ \A k, l : PendingFor(p, k, l)' => k = i /\ l = j
    <2>1. i = n + 1 /\ c.isRef /\ j = 1
      BY <1>7, <1>11
    <2>2. stack'[i].todo[j].ref = c.refs[1]
      BY <1>6, <2>1
    <2>3. LeadsTo(p, i, j)'
      <3>1. PICK x : x = c.refs[1]
        OBVIOUS
      <3>2. x = stack'[i].todo[j].ref /\ Documented(p) = OperationsFrom(x)
        BY <1>9, <2>1, <2>2, <3>1
      <3>3. QED
        BY <1>1, <3>2, LeadsSame
    <2>4. QED
      BY <1>4, <1>7, <1>8, <2>1, <2>3
  <1>12. \/ \E i, j : PendingFor(p, i, j)'
         \/ found'[p] = Documented(p)'
    <2>1. CASE c.isRef
      BY <1>6, <2>1
    <2>2. CASE ~c.isRef
      BY <1>2, <1>8, <1>10, <2>2
    <2>3. QED
      BY <2>1, <2>2
  <1>13. QED
    BY <1>11, <1>12 DEF PathOK

\* For the other paths nothing changes.
LEMMA FollowingOtherPath ==
  ASSUME StateOK, Following, PathsOK, NEW p \in Path, p # Item.path
  PROVE  PathOK(p)'
  <1> SUFFICES ASSUME NEW n, n = Len(stack), NEW r, r = Item.ref
               PROVE  PathOK(p)'
    OBVIOUS
  <1>1. /\ UNCHANGED docs /\ n \in Nat \ {0}
        /\ DOMAIN stack = 1..n /\ DOMAIN stack' = 1..(n + 1)
    BY FollowFrames
  <1>2. /\ \A q : Documented(q)' = Documented(q)
        /\ \A s : OperationsFrom(s)' = OperationsFrom(s)
    BY <1>1, SameDocuments
  <1>3. /\ ~PendingFor(p, n, 1)
        /\ \A i \in 1..(n - 1) : \A j :
             /\ PendingFor(p, i, j)' <=> PendingFor(p, i, j)
             /\ stack'[i] = stack[i]
        /\ \A j : PendingFor(p, n, j)' =>
             /\ j \in Nat \ {0} /\ PendingFor(p, n, j + 1)
             /\ stack'[n].todo[j] = stack[n].todo[j + 1]
        /\ \A j : PendingFor(p, n, j) /\ j # 1 => PendingFor(p, n, j - 1)'
    <2>1. /\ PendingFor(p, n, 1) <=> p = Item.path
          /\ \A i \in 1..(n - 1) : \A j :
               /\ PendingFor(p, i, j)' <=> PendingFor(p, i, j)
               /\ stack'[i] = stack[i]
          /\ \A j : PendingFor(p, n, j)' =>
               /\ j \in Nat \ {0} /\ PendingFor(p, n, j + 1)
               /\ stack'[n].todo[j] = stack[n].todo[j + 1]
          /\ \A j : PendingFor(p, n, j) /\ j # 1 => PendingFor(p, n, j - 1)'
      BY FollowPending
    <2>2. QED
      BY <2>1, Zenon
  <1>4. \A j : ~PendingFor(p, n + 1, j)'
    BY FollowPendingNew
  <1>5. ASSUME NEW i, NEW j, PendingFor(p, i, j)'
        PROVE  \/ /\ i \in 1..(n - 1) /\ PendingFor(p, i, j)
                  /\ stack'[i].todo[j] = stack[i].todo[j]
               \/ /\ i = n /\ j \in Nat \ {0} /\ PendingFor(p, i, j + 1)
                  /\ stack'[i].todo[j] = stack[i].todo[j + 1]
    <2>1. i \in 1..(n + 1) /\ i # n + 1
      BY <1>1, <1>4, <1>5 DEF PendingFor
    <2>2. i = n \/ i \in 1..(n - 1)
      BY <1>1, <2>1
    <2>3. QED
      BY <1>3, <1>5, <2>2
  <1>6. /\ DOMAIN found' = DOMAIN found
        /\ p \in DOMAIN found => found'[p] = found[p]
    BY DEF Following
  <1>7. ASSUME NEW i, NEW j, PendingFor(p, i, j)'
        PROVE  /\ p \in DOMAIN found'
               /\ LeadsTo(p, i, j)'
               /\ \A k, l : PendingFor(p, k, l)' => k = i /\ l = j
    <2>1. CASE /\ i \in 1..(n - 1) /\ PendingFor(p, i, j)
               /\ stack'[i].todo[j] = stack[i].todo[j]
      <3>1. /\ p \in DOMAIN found /\ Documented(p) = OperationsFrom(stack[i].todo[j].ref)
            /\ \A k, l : PendingFor(p, k, l) => k = i /\ l = j
        BY <2>1 DEF PathsOK, PathOK, LeadsTo
      <3>2. ASSUME NEW k, NEW l, PendingFor(p, k, l)' PROVE k = i /\ l = j
        <4>1. PendingFor(p, k, l) \/ (k = n /\ PendingFor(p, k, l + 1))
          BY <1>5, <3>2
        <4>2. i # n
          BY <1>1, <2>1
        <4>3. QED
          BY <3>1, <4>1, <4>2
      <3>3. LeadsTo(p, i, j)'
        <4>1. PICK x : x = stack[i].todo[j].ref
          OBVIOUS
        <4>2. x = stack'[i].todo[j].ref /\ Documented(p) = OperationsFrom(x)
          BY <2>1, <3>1, <4>1
        <4>3. QED
          BY <1>1, <4>2, LeadsSame
      <3>4. QED
        BY <1>6, <3>1, <3>2, <3>3
    <2>2. CASE /\ i = n /\ j \in Nat \ {0} /\ PendingFor(p, i, j + 1)
               /\ stack'[i].todo[j] = stack[i].todo[j + 1]
      <3>1. /\ p \in DOMAIN found /\ Documented(p) = OperationsFrom(stack[i].todo[j + 1].ref)
            /\ \A k, l : PendingFor(p, k, l) => k = i /\ l = j + 1
        BY <2>2 DEF PathsOK, PathOK, LeadsTo
      <3>2. ASSUME NEW k, NEW l, PendingFor(p, k, l)' PROVE k = i /\ l = j
        <4>1. \/ k \in 1..(n - 1) /\ PendingFor(p, k, l)
              \/ k = n /\ l \in Nat \ {0} /\ PendingFor(p, k, l + 1)
          BY <1>5, <3>2
        <4>2. CASE k \in 1..(n - 1) /\ PendingFor(p, k, l)
          BY <1>1, <2>2, <3>1, <4>2
        <4>3. CASE k = n /\ l \in Nat \ {0} /\ PendingFor(p, k, l + 1)
          <5>1. l + 1 = j + 1
            BY <3>1, <4>3
          <5>2. QED
            BY <2>2, <4>3, <5>1
        <4>4. QED
          BY <4>1, <4>2, <4>3
      <3>3. LeadsTo(p, i, j)'
        <4>1. PICK x : x = stack[i].todo[j + 1].ref
          OBVIOUS
        <4>2. x = stack'[i].todo[j].ref /\ Documented(p) = OperationsFrom(x)
          BY <2>2, <3>1, <4>1
        <4>3. QED
          BY <1>1, <4>2, LeadsSame
      <3>4. QED
        BY <1>6, <3>1, <3>2, <3>3
    <2>3. QED
      BY <1>5, <1>7, <2>1, <2>2
  <1>8. ASSUME p \in DOMAIN found'
        PROVE  \/ \E i, j : PendingFor(p, i, j)'
               \/ found'[p] = Documented(p)'
    <2>1. (\E i, j : PendingFor(p, i, j)) \/ found[p] = Documented(p)
      BY <1>6, <1>8 DEF PathsOK, PathOK, LeadsTo
    <2>2. CASE \E i, j : PendingFor(p, i, j)
      <3>1. PICK i, j : PendingFor(p, i, j)
        BY <2>2
      <3>2. i \in 1..n
        BY <1>1, <3>1 DEF PendingFor
      <3>3. CASE i = n
        BY <1>3, <3>1, <3>3
      <3>4. CASE i # n
        <4>1. i \in 1..(n - 1)
          BY <1>1, <3>2, <3>4
        <4>2. QED
          BY <1>3, <3>1, <4>1
      <3>5. QED
        BY <3>3, <3>4
    <2>3. CASE found[p] = Documented(p)
      BY <1>2, <1>6, <1>8, <2>3
    <2>4. QED
      BY <2>1, <2>2, <2>3
  <1>9. QED
    BY <1>7, <1>8 DEF PathOK

\* Following a ref keeps or settles the operations of the path it belongs to.
LEMMA FollowingPaths ==
  ASSUME StateOK, Following, PathsOK
  PROVE  PathsOK'
  BY FollowingItsPath, FollowingOtherPath DEF PathsOK

\* Returning from a call settles no path differently.
LEMMA ReturnPaths ==
  ASSUME StateOK, Return, PathsOK
  PROVE  PathsOK'
  <1> SUFFICES ASSUME NEW n, n = Len(stack) PROVE PathsOK'
    OBVIOUS
  <1>1. /\ UNCHANGED docs /\ n \in Nat \ {0}
        /\ DOMAIN stack = 1..n /\ DOMAIN stack' = 1..(n - 1)
        /\ \A i \in 1..(n - 1) : stack'[i] = stack[i]
        /\ DOMAIN stack[n].todo = {}
    BY ReturnFrames
  <1>2. /\ \A q : Documented(q)' = Documented(q)
        /\ \A s : OperationsFrom(s)' = OperationsFrom(s)
    BY <1>1, SameDocuments
  <1>3. UNCHANGED found
    BY DEF Return
  <1>4. ASSUME NEW p, NEW i, NEW j
        PROVE  /\ PendingFor(p, i, j)' <=> PendingFor(p, i, j)
               /\ PendingFor(p, i, j) => stack'[i] = stack[i]
    <2>1. ASSUME PendingFor(p, i, j) PROVE i \in 1..(n - 1)
      <3>1. i \in 1..n /\ i # n
        BY <1>1, <2>1 DEF PendingFor
      <3>2. QED
        BY <1>1, <3>1
    <2>2. ASSUME PendingFor(p, i, j)' PROVE i \in 1..(n - 1)
      BY <1>1, <2>2 DEF PendingFor
    <2>3. ASSUME i \in 1..(n - 1) PROVE stack'[i] = stack[i] /\ i \in DOMAIN stack /\ i \in DOMAIN stack'
      BY <1>1, <2>3
    <2>4. QED
      BY <2>1, <2>2, <2>3 DEF PendingFor
  <1>5. QED
    BY <1>2, <1>3, <1>4 DEF PathsOK, PathOK, LeadsTo

\* At first a path has its own operations, or is pending in the root document's todo.
LEMMA LoadingPaths ==
  ASSUME StateOK, Loading
  PROVE  PathsOK' /\ DOMAIN found' = PathsOf(Root)'
  <1>1. /\ DOMAIN stack' = {1} /\ stack'[1].todo = RootTodo /\ UNCHANGED docs
        /\ DOMAIN found' = PathsOf(Root)
        /\ \A p \in PathsOf(Root) : found'[p] = docs[Root][p].ops
    BY DEF Loading
  <1>2. /\ \A q : Documented(q)' = Documented(q)
        /\ \A s : OperationsFrom(s)' = OperationsFrom(s)
        /\ PathsOf(Root)' = PathsOf(Root)
    BY <1>1, SameDocuments
  <1>3. \A p, i, j : PendingFor(p, i, j)' <=> i = 1 /\ j \in DOMAIN RootTodo /\ RootTodo[j].path = p
    BY <1>1 DEF PendingFor
  <1>4. ASSUME NEW p \in Path, NEW i, NEW j, PendingFor(p, i, j)'
        PROVE  /\ p \in DOMAIN found'
               /\ LeadsTo(p, i, j)'
               /\ \A k, l : PendingFor(p, k, l)' => k = i /\ l = j
    <2>1. i = 1 /\ j \in DOMAIN RootTodo /\ RootTodo[j].path = p
      BY <1>3, <1>4
    <2>2. /\ p \in PathsOf(Root) /\ docs[Root][p].isRef
          /\ docs[Root][p].refs = <<RootTodo[j].ref>>
      BY <2>1, RootTodoLists
    <2>3. docs[Root][p].refs[1] = RootTodo[j].ref
      BY <2>2
    <2>4. Documented(p) = OperationsFrom(RootTodo[j].ref)
      BY <2>2, <2>3, DocumentedFrom
    <2>5. \A k, l : PendingFor(p, k, l)' => k = i /\ l = j
      BY <1>3, <2>1, RootTodoLists
    <2>6. LeadsTo(p, i, j)'
      <3>1. PICK x : x = RootTodo[j].ref
        OBVIOUS
      <3>2. x = stack'[i].todo[j].ref /\ Documented(p) = OperationsFrom(x)
        BY <1>1, <2>1, <2>4, <3>1
      <3>3. QED
        BY <1>1, <3>2, LeadsSame
    <2>7. QED
      BY <1>1, <2>2, <2>5, <2>6
  <1>5. ASSUME NEW p \in Path, p \in DOMAIN found'
        PROVE  (\E i, j : PendingFor(p, i, j)') \/ found'[p] = Documented(p)'
    <2>1. CASE docs[Root][p].isRef
      <3>1. p \in PathsOf(Root)
        BY <1>1, <1>5
      <3>2. \E j \in DOMAIN RootTodo : RootTodo[j].path = p
        BY <2>1, <3>1, RootTodoLists
      <3>3. QED
        BY <1>3, <3>2
    <2>2. CASE ~docs[Root][p].isRef
      BY <1>1, <1>2, <1>5, <2>2, DocumentedFrom
    <2>3. QED
      BY <2>1, <2>2
  <1>6. QED
    BY <1>1, <1>2, <1>4, <1>5 DEF PathsOK, PathOK, LeadsTo

-----------------------------------------------------------------------------
(* The end of a load.                                                      *)

\* With nothing left to follow, everything reachable is inlined, without a circle.
LEMMA CountingLoaded ==
  ASSUME StateOK, ResolvingOK, Counting
  PROVE  LoadedOK'
  <1>1. stack = <<>> /\ UNCHANGED <<docs, found, inlined>>
    BY DEF Counting
  <1>2. DOMAIN stack = {} /\ Pending = {}
    BY <1>1 DEF Pending
  <1>3. inlined = Reachable /\ ~Cyclic
    <2>1. /\ inlined \subseteq Reachable /\ RootRefs \subseteq inlined
          /\ \A r \in inlined : Below[r] \subseteq inlined
      BY <1>2 DEF ResolvingOK, CoverageOK
    <2>2. \A r \in inlined : Ends(r)
      BY <1>2 DEF ResolvingOK, EndingOK
    <2>3. QED
      BY <2>1, <2>2, AllEnd
  <1>4. \A p, i, j : ~PendingFor(p, i, j)
    BY <1>2 DEF PendingFor
  <1>5. \A p \in DOMAIN found : found[p] = Documented(p)
    BY <1>4 DEF ResolvingOK, PathsOK, PathOK, StateOK
  <1>6. DOMAIN found = PathsOf(Root)
    BY DEF ResolvingOK
  <1>7. QED
    BY <1>1, <1>3, <1>5, <1>6, SameDocuments DEF LoadedOK

\* A load that is refused has met what it reports.
LEMMA RefusingRefused ==
  ASSUME StateOK, stage = "resolving" => ResolvingOK, Refusing
  PROVE  RefusedOK'
  <1>1. UNCHANGED docs
    BY DEF Refusing, Fail
  <1>2. ASSUME stage = "resolving", stack # <<>>, Top.todo # <<>>, Circular PROVE Cyclic
    <2>1. PICK n : n = Len(stack)
      OBVIOUS
    <2>2. Top = stack[n]
      BY <1>2, <2>1, TopFacts
    <2>3. PICK a \in DOMAIN stack[n].seen : Item.ref = stack[n].seen[a]
      BY <1>2, <2>2 DEF Circular, Range
    <2>4. Item.ref \in Reachable /\ Item.ref \in Under(stack[n].seen[a])
      BY <1>2, <2>1, <2>3, ItemFacts DEF ResolvingOK
    <2>5. QED
      BY <2>3, <2>4 DEF Cyclic
  <1>3. ASSUME stage = "resolving", stack # <<>>, Top.todo # <<>>, ~Present(Item.ref)
        PROVE  \E r \in Reachable : ~Present(r)
    <2>1. PICK n : n = Len(stack)
      OBVIOUS
    <2>2. Item.ref \in Reachable
      BY <1>3, <2>1, ItemFacts DEF ResolvingOK
    <2>3. QED
      BY <1>3, <2>2
  <1>4. ASSUME stage = "resolving", stack = <<>>, \A p \in DOMAIN found : found[p] = {}
        PROVE  \A p \in PathsOf(Root) : Documented(p) = {}
    <2>1. DOMAIN stack = {}
      BY <1>4
    <2>2. \A p, i, j : ~PendingFor(p, i, j)
      BY <2>1 DEF PendingFor
    <2>3. \A p \in DOMAIN found : found[p] = Documented(p)
      BY <1>4, <2>2 DEF ResolvingOK, PathsOK, PathOK, StateOK
    <2>4. QED
      BY <1>4, <2>3 DEF ResolvingOK
  <1>5. error' = "circular" => Cyclic
    BY <1>2 DEF Refusing, Fail
  <1>6. error' = "fragment" => \E r \in Reachable : ~Present(r)
    BY <1>3 DEF Refusing, Fail
  <1>7. error' = "no operations" => \A p \in PathsOf(Root) : Documented(p) = {}
    BY <1>4 DEF Refusing, Fail
  <1>8. QED
    BY <1>1, <1>5, <1>6, <1>7, SameDocuments DEF RefusedOK

\* Nothing but these variables matters for what is resolved.
LEMMA SameResolving ==
  ASSUME UNCHANGED <<docs, stack, found, inlined>>, ResolvingOK
  PROVE  ResolvingOK'
  <1>1. /\ Below' = Below /\ RootRefs' = RootRefs /\ Reachable' = Reachable
        /\ \A r : Present(r)' <=> Present(r)
        /\ \A r : Under(r)' = Under(r)
        /\ \A r : Ends(r)' <=> Ends(r)
        /\ \A r : OperationsFrom(r)' = OperationsFrom(r)
        /\ \A p : Documented(p)' = Documented(p)
        /\ PathsOf(Root)' = PathsOf(Root)
    BY SameDocuments
  <1>2. /\ \A i : At(i)' = At(i) /\ RefsOf(i)' = RefsOf(i)
        /\ \A i, c : Awaits(i, c)' <=> Awaits(i, c)
        /\ \A p, i, j : PendingFor(p, i, j)' <=> PendingFor(p, i, j)
    BY <1>1 DEF At, RefsOf, Awaits, PendingFor, Last
  <1>3. Pending' = Pending
    BY <1>2 DEF Pending
  <1>4. ChainOK'
    BY <1>1, <1>2 DEF ResolvingOK, ChainOK
  <1>5. CoverageOK'
    BY <1>1, <1>3 DEF ResolvingOK, CoverageOK
  <1>6. EndingOK'
    BY <1>1, <1>2 DEF ResolvingOK, EndingOK
  <1>7. ASSUME NEW p, NEW i, NEW j, LeadsTo(p, i, j) PROVE LeadsTo(p, i, j)'
    <2>1. PICK x : x = stack[i].todo[j].ref
      OBVIOUS
    <2>2. x = stack'[i].todo[j].ref /\ Documented(p) = OperationsFrom(x)
      BY <1>7, <2>1 DEF LeadsTo
    <2>3. QED
      BY <2>2, LeadsSame
  <1>8. PathsOK'
    BY <1>1, <1>2, <1>7 DEF ResolvingOK, PathsOK, PathOK
  <1>9. QED
    BY <1>1, <1>4, <1>5, <1>6, <1>8 DEF ResolvingOK

\* No step of the source disturbs what is known of a load, nor of its outcome.
LEMMA NextSettled ==
  ASSUME StateOK, SettledOK, [Next]_vars
  PROVE  SettledOK'
  <1> SUFFICES ASSUME edits' = 0
               PROVE  /\ (stage = "resolving")' => ResolvingOK'
                      /\ (stage \in {"loaded", "served"})' => LoadedOK'
                      /\ RefusedOK'
    BY DEF SettledOK
  <1>1. CASE Loading
    <2>1. ResolvingOK'
      BY <1>1, LoadingChain, LoadingCoverage, LoadingEnding, LoadingPaths DEF ResolvingOK
    <2>2. stage' = "resolving" /\ error' = "none"
      BY <1>1 DEF Loading, StateOK
    <2>3. QED
      BY <2>1, <2>2 DEF RefusedOK
  <1>2. CASE Following
    <2>1. /\ stage = "resolving" /\ edits = 0 /\ stage' = "resolving" /\ error' = "none"
          /\ UNCHANGED docs /\ DOMAIN found' = DOMAIN found
      BY <1>2 DEF Following, Entering, StateOK
    <2>2. ResolvingOK
      BY <2>1 DEF SettledOK
    <2>3. ChainOK' /\ CoverageOK' /\ EndingOK' /\ PathsOK'
      BY <1>2, <2>2, FollowingChain, FollowingCoverage, FollowingEnding, FollowingPaths
         DEF ResolvingOK
    <2>4. DOMAIN found' = PathsOf(Root)'
      BY <2>1, <2>2, SameDocuments DEF ResolvingOK
    <2>5. QED
      BY <2>1, <2>3, <2>4 DEF ResolvingOK, RefusedOK
  <1>3. CASE Return
    <2>1. /\ stage = "resolving" /\ edits = 0 /\ stage' = "resolving" /\ error' = "none"
          /\ UNCHANGED <<docs, found>>
      BY <1>3 DEF Return, StateOK
    <2>2. ResolvingOK
      BY <2>1 DEF SettledOK
    <2>3. ChainOK' /\ CoverageOK' /\ EndingOK' /\ PathsOK'
      BY <1>3, <2>2, ReturnChain, ReturnCoverage, ReturnEnding, ReturnPaths DEF ResolvingOK
    <2>4. DOMAIN found' = PathsOf(Root)'
      BY <2>1, <2>2, SameDocuments DEF ResolvingOK
    <2>5. QED
      BY <2>1, <2>3, <2>4 DEF ResolvingOK, RefusedOK
  <1>4. CASE Counting
    <2>1. stage = "resolving" /\ edits = 0 /\ stage' = "loaded" /\ error' = "none"
      BY <1>4 DEF Counting, StateOK
    <2>2. LoadedOK'
      BY <1>4, <2>1, CountingLoaded DEF SettledOK
    <2>3. QED
      BY <2>1, <2>2 DEF RefusedOK
  <1>5. CASE Constructing
    <2>1. /\ stage = "loaded" /\ edits = 0 /\ stage' = "served" /\ error' = "none"
          /\ UNCHANGED <<docs, found, inlined>>
      BY <1>5 DEF Constructing, StateOK
    <2>2. LoadedOK
      BY <2>1 DEF SettledOK
    <2>3. LoadedOK'
      BY <2>1, <2>2, SameDocuments DEF LoadedOK
    <2>4. QED
      BY <2>1, <2>3 DEF RefusedOK
  <1>6. CASE Refusing
    <2>1. stage' = "failed" /\ edits = 0
      BY <1>6 DEF Refusing, Fail
    <2>2. stage = "resolving" => ResolvingOK
      BY <2>1 DEF SettledOK
    <2>3. QED
      BY <1>6, <2>1, <2>2, RefusingRefused
  <1>7. CASE \E d \in Doc : Publish(d)
    BY <1>7 DEF Publish, StateOK
  <1>8. CASE UNCHANGED vars
    <2>1. UNCHANGED <<docs, edits, stage, error, stack, found, inlined>>
      BY <1>8 DEF vars
    <2>2. stage = "resolving" => ResolvingOK'
      BY <2>1, SameResolving DEF SettledOK
    <2>3. stage \in {"loaded", "served"} => LoadedOK'
      BY <2>1, SameDocuments DEF SettledOK, LoadedOK
    <2>4. RefusedOK'
      BY <2>1, SameDocuments DEF SettledOK, RefusedOK
    <2>5. QED
      BY <2>1, <2>2, <2>3, <2>4
  <1>9. QED
    BY <1>1, <1>2, <1>3, <1>4, <1>5, <1>6, <1>7, <1>8, StepCases

\* The tools are named by what was found and how the profile is.
LEMMA SameNames ==
  ASSUME UNCHANGED <<found, config>>
  PROVE  NormalizeSpec' = NormalizeSpec /\ \A paths : NamesMap(paths)' = NamesMap(paths)
  <1>1. \A p : Normal(p)' = Normal(p)
    BY DEF Normal
  <1>2. \A p : Namesakes(p)' = Namesakes(p)
    BY <1>1 DEF Namesakes, Normal
  <1>3. \A k : Holder(k)' = Holder(k) /\ Rank(k)' = Rank(k)
    BY <1>1, <1>2 DEF Holder, Rank
  <1>4. NormalizeSpec' = NormalizeSpec
    BY <1>1, <1>3 DEF NormalizeSpec
  <1>5. ASSUME NEW paths PROVE NamesMap(paths)' = NamesMap(paths)
    BY DEF NamesMap, OperationsOf, OverrideOf, Override, NoLater, Rank, Normal, VerbRank
  <1>6. QED
    BY <1>4, <1>5

\* Construct serves what the load found, under the profile's names.
LEMMA NextServed ==
  ASSUME StateOK, ServedOK, [Next]_vars
  PROVE  ServedOK'
  <1> SUFFICES ASSUME stage' = "served"
               PROVE  served' = NormalizeSpec' /\ names' = NamesMap(served)'
    BY DEF ServedOK
  <1>1. CASE Constructing
    <2>1. /\ served' = NormalizeSpec /\ names' = NamesMap(NormalizeSpec)
          /\ UNCHANGED <<found, config>>
      BY <1>1 DEF Constructing
    <2>2. NormalizeSpec' = NormalizeSpec /\ \A paths : NamesMap(paths)' = NamesMap(paths)
      BY <2>1, SameNames
    <2>3. QED
      BY <2>1, <2>2
  <1>2. CASE UNCHANGED vars
    <2>1. UNCHANGED <<found, config, stage, served, names>>
      BY <1>2 DEF vars
    <2>2. NormalizeSpec' = NormalizeSpec /\ \A paths : NamesMap(paths)' = NamesMap(paths)
      BY <2>1, SameNames
    <2>3. QED
      BY <2>1, <2>2 DEF ServedOK
  <1>3. CASE \/ Loading \/ Following \/ Return \/ Counting \/ Refusing
             \/ \E d \in Doc : Publish(d)
    BY <1>3 DEF Loading, Following, Entering, Return, Counting, Refusing, Fail, Publish
  <1>4. QED
    BY <1>1, <1>2, <1>3, StepCases

\* The strengthened invariant holds in every reachable state of the source: the chains of the
\* recursion, what it has inlined and has still to follow, and what it found for each path.
THEOREM InvariantHolds == Spec => []IInv
  <1>1. Init => IInv
    BY InitIInv
  <1>2. IInv /\ [Next]_vars => IInv'
    BY NextStateOK, NextSettled, NextServed DEF IInv
  <1>3. QED
    BY <1>1, <1>2, PTL DEF Spec

-----------------------------------------------------------------------------
(* What the runs check.                                                    *)

\* Documents, stack, findings, outcome and served tools stay what they are meant to be, with a
\* stack no deeper than there are refs (loader.py:106-165).
THEOREM TypeCorrect == Spec => []SourceTypeOK
  <1>1. ASSUME StateOK PROVE SourceTypeOK
    <2>1. \A i \in DOMAIN stack :
            /\ \A j \in DOMAIN stack[i].todo :
                 stack[i].todo[j] \in [ref : Ref, path : Path \cup {NoPath}]
            /\ stack[i].seen \in Seq(Ref) /\ Len(stack[i].seen) = i - 1
      <3>1. stack \in Seq(Frame)
        BY <1>1 DEF StateOK
      <3>2. ASSUME NEW i \in DOMAIN stack
            PROVE  /\ \A j \in DOMAIN stack[i].todo : stack[i].todo[j] \in TodoItem
                   /\ stack[i].seen \in Seq(Ref) /\ Len(stack[i].seen) = i - 1
        <4>1. stack[i] \in Frame
          BY <3>1
        <4>2. stack[i].todo \in Seq(TodoItem) /\ stack[i].seen \in Seq(Ref)
          BY <4>1 DEF Frame
        <4>3. \A j \in DOMAIN stack[i].todo : stack[i].todo[j] \in TodoItem
          BY <4>2
        <4>4. Len(stack[i].seen) = i - 1
          BY <1>1 DEF StateOK
        <4>5. QED
          BY <4>2, <4>3, <4>4
      <3>3. QED
        BY <3>2 DEF TodoItem
    <2>2. Len(stack) <= Cardinality(Ref) + 1
      <3>1. CASE stack = <<>>
        BY <3>1, RefIsFinite
      <3>2. CASE stack # <<>>
        <4>1. PICK n : n = Len(stack)
          OBVIOUS
        <4>2. n \in Nat \ {0} /\ n \in DOMAIN stack
          BY <1>1, <3>2, <4>1, TopFacts
        <4>3. PICK s : s = stack[n].seen
          OBVIOUS
        <4>4. s \in Seq(Ref) /\ Len(s) = n - 1 /\ \A a, b \in DOMAIN s : s[a] = s[b] => a = b
          BY <1>1, <2>1, <4>2, <4>3 DEF StateOK
        <4>5. n - 1 <= Cardinality(Ref)
          BY <4>4, RefIsFinite, DistinctBound
        <4>6. QED
          BY <4>1, <4>2, <4>5, RefIsFinite
      <3>3. QED
        BY <3>1, <3>2
    <2>3. \A p \in DOMAIN found : p \in Path /\ found[p] \subseteq Operation
      BY <1>1 DEF StateOK
    <2>4. QED
      BY <1>1, <2>1, <2>2, <2>3 DEF StateOK, SourceTypeOK
  <1>2. IInv => SourceTypeOK
    BY <1>1 DEF IInv
  <1>3. QED
    BY <1>2, InvariantHolds, PTL

\* Unless a document is republished meanwhile, a load succeeds exactly on documents whose refs can
\* all be followed and end, with all of them and with every path's operations; and each refusal has
\* the cause that it reports (loader.py:106-165, 60-65).
THEOREM OutcomesAreExact == Spec => []OutcomeExact
  <1>1. IInv => OutcomeExact
    BY DEF IInv, SettledOK, LoadedOK, RefusedOK, OutcomeExact
  <1>2. QED
    BY <1>1, InvariantHolds, PTL

\* Every path has its position in the order of the document.
LEMMA PositionOf ==
  ASSUME NEW p \in Path
  PROVE  Position(p) \in DOMAIN PathOrder /\ PathOrder[Position(p)] = p
  BY DEF Path, Position

\* Among the paths that become one there is a last one.
LEMMA HolderExists ==
  ASSUME StateOK, NEW p \in DOMAIN found
  PROVE  Holder(Normal(p)) \in Namesakes(p)
  <1> DEFINE T == {Position(q) : q \in Namesakes(p)}
  <1>1. Len(PathOrder) \in Nat /\ DOMAIN PathOrder = 1..Len(PathOrder)
    BY PathsInOrder
  <1>2. p \in Namesakes(p) /\ Namesakes(p) \subseteq DOMAIN found /\ DOMAIN found \subseteq Path
    BY DEF Namesakes, StateOK
  <1>3. T # {} /\ T \subseteq 0..Len(PathOrder)
    <2>1. \A q \in Namesakes(p) : Position(q) \in 1..Len(PathOrder)
      BY <1>1, <1>2, PositionOf
    <2>2. QED
      BY <1>1, <1>2, <2>1
  <1>4. PICK x \in T : \A y \in T : y <= x
    <2> HIDE DEF T
    <2> QED BY <1>1, <1>3, GreatestNatural
  <1>5. PICK q \in Namesakes(p) : x = Position(q)
    BY <1>4
  <1>6. \A s \in Namesakes(p) : Position(s) <= Position(q)
    BY <1>4, <1>5
  <1>7. Normal(q) = Normal(p) /\ q \in DOMAIN found /\ Namesakes(q) = Namesakes(p)
    BY <1>5 DEF Namesakes
  <1>8. \E h \in DOMAIN found :
          Normal(h) = Normal(p) /\ \A s \in Namesakes(h) : Position(s) <= Position(h)
    BY <1>6, <1>7
  <1>9. Holder(Normal(p)) \in DOMAIN found /\ Normal(Holder(Normal(p))) = Normal(p)
    BY <1>8 DEF Holder
  <1>10. QED
    BY <1>9 DEF Namesakes

\* The path served under a normalised path is one of its namesakes.
LEMMA ServedPath ==
  ASSUME StateOK, served = NormalizeSpec, NEW p \in DOMAIN found
  PROVE  Normal(p) \in DOMAIN served /\ served[Normal(p)] \in Namesakes(p)
  <1>1. DOMAIN served = {Normal(q) : q \in DOMAIN found}
    BY DEF NormalizeSpec
  <1>2. served[Normal(p)] = Holder(Normal(p))
    BY <1>1 DEF NormalizeSpec
  <1>3. QED
    BY <1>1, <1>2, HolderExists

\* A path that no other path is normalised to is served with its documented operations; where
\* several are, the one served is one of them (tool_provider.py:59-95).
THEOREM PathsServedAsDocumented == Spec => []ServedAsDocumented
  <1>1. ASSUME IInv, stage = "served", edits = 0, NEW p \in PathsOf(Root)
        PROVE  /\ Normal(p) \in DOMAIN served /\ served[Normal(p)] \in Namesakes(p)
               /\ Namesakes(p) = {p} => found[served[Normal(p)]] = Documented(p)
    <2>1. StateOK /\ LoadedOK /\ served = NormalizeSpec
      BY <1>1 DEF IInv, SettledOK, ServedOK
    <2>2. p \in DOMAIN found /\ found[p] = Documented(p)
      BY <1>1, <2>1 DEF LoadedOK
    <2>3. Normal(p) \in DOMAIN served /\ served[Normal(p)] \in Namesakes(p)
      BY <2>1, <2>2, ServedPath
    <2>4. Namesakes(p) = {p} => served[Normal(p)] = p
      BY <2>3
    <2>5. QED
      BY <2>2, <2>3, <2>4
  <1>2. IInv => ServedAsDocumented
    BY <1>1 DEF ServedAsDocumented
  <1>3. QED
    BY <1>2, InvariantHolds, PTL

\* Every path of the served spec has its place among them.
LEMMA RankExists ==
  ASSUME StateOK, served = NormalizeSpec, NEW k \in DOMAIN served
  PROVE  Rank(k) \in 0..Len(PathOrder) /\ served[k] \in DOMAIN found /\ Normal(served[k]) = k
  <1>1. PICK p \in DOMAIN found : k = Normal(p)
    BY DEF NormalizeSpec
  <1>2. served[k] \in DOMAIN found /\ Normal(served[k]) = k
    BY <1>1, ServedPath DEF Namesakes
  <1> DEFINE T == {i \in DOMAIN PathOrder : PathOrder[i] \in DOMAIN found /\ Normal(PathOrder[i]) = k}
  <1>3. DOMAIN PathOrder = 1..Len(PathOrder) /\ Len(PathOrder) \in Nat
    BY PathsInOrder
  <1>4. Position(p) \in T /\ T \subseteq Nat
    <2>1. p \in Path
      BY <1>1 DEF StateOK
    <2>2. Position(p) \in DOMAIN PathOrder /\ PathOrder[Position(p)] = p
      BY <2>1, PositionOf
    <2>3. Position(p) \in T
      BY <1>1, <2>2
    <2>4. QED
      BY <1>3, <2>3
  <1>5. PICK i \in T : \A j \in T : i <= j
    <2> HIDE DEF T
    <2> QED BY <1>4, LeastNatural
  <1>6. ASSUME NEW j \in 1..(i - 1), PathOrder[j] \in DOMAIN found PROVE Normal(PathOrder[j]) # k
    <2>1. j \in DOMAIN PathOrder /\ j < i
      BY <1>3, <1>5
    <2>2. j \notin T
      BY <1>3, <1>5, <2>1
    <2>3. QED
      BY <1>6, <2>1, <2>2
  <1>7. Rank(k) \in DOMAIN PathOrder
    BY <1>5, <1>6 DEF Rank
  <1>8. QED
    BY <1>2, <1>3, <1>7

\* Of operations that share an id there is a last one in the order of the spec.
LEMMA LastOperation ==
  ASSUME StateOK, served = NormalizeSpec, NEW S, S # {}, S \subseteq OperationsOf(served)
  PROVE  \E x \in S : \A y \in S : NoLater(y, x)
  <1> DEFINE R == {Rank(x[1]) : x \in S}
  <1>1. \A x \in S : x[1] \in DOMAIN served /\ x[2] \in Operation
    <2> SUFFICES ASSUME NEW x \in S PROVE x[1] \in DOMAIN served /\ x[2] \in Operation
      OBVIOUS
    <2>1. PICK k \in DOMAIN served : x \in {k} \X found[served[k]]
      BY DEF OperationsOf
    <2>2. x[1] = k /\ x[2] \in found[served[k]]
      BY <2>1
    <2>3. found[served[k]] \subseteq Operation
      BY RankExists DEF StateOK
    <2>4. QED
      BY <2>2, <2>3
  <1>2. R # {} /\ R \subseteq 0..Len(PathOrder) /\ Len(PathOrder) \in Nat
    BY <1>1, RankExists, PathsInOrder
  <1>3. PICK r \in R : \A q \in R : q <= r
    <2> HIDE DEF R
    <2> QED BY <1>2, GreatestNatural
  <1> DEFINE T == {x \in S : Rank(x[1]) = r}
             V == {VerbRank(x[2].verb) : x \in T}
  <1>4. V # {} /\ V \subseteq 0..Len(VerbOrder) /\ Len(VerbOrder) \in Nat
    <2>1. DOMAIN VerbOrder = 1..Len(VerbOrder) /\ Len(VerbOrder) \in Nat
      BY VerbAssumption
    <2>2. \A v \in Verb : VerbRank(v) \in DOMAIN VerbOrder
      BY DEF VerbRank, Verb
    <2>3. \A x \in T : x[2].verb \in Verb
      BY <1>1 DEF Operation
    <2>4. T # {}
      BY <1>3
    <2>5. QED
      BY <2>1, <2>2, <2>3, <2>4
  <1>5. PICK m \in V : \A n \in V : n <= m
    <2> HIDE DEF V
    <2> QED BY <1>4, GreatestNatural
  <1>6. PICK x \in T : VerbRank(x[2].verb) = m
    BY <1>5
  <1>7. ASSUME NEW y \in S PROVE NoLater(y, x)
    <2>1. Rank(y[1]) \in Int /\ r \in Int /\ Rank(y[1]) <= r /\ Rank(x[1]) = r
      BY <1>2, <1>3, <1>6, <1>7
    <2>2. CASE Rank(y[1]) = r
      <3>1. VerbRank(y[2].verb) \in V
        BY <1>7, <2>2
      <3>2. VerbRank(y[2].verb) <= VerbRank(x[2].verb)
        BY <1>5, <1>6, <3>1
      <3>3. QED
        BY <2>1, <2>2, <3>2 DEF NoLater
    <2>3. CASE Rank(y[1]) # r
      BY <2>1, <2>3 DEF NoLater
    <2>4. QED
      BY <2>2, <2>3
  <1>8. QED
    BY <1>6, <1>7

\* An operation id that is renamed has the name that the profile gives a documented operation with
\* that id, by its verb and stripped path, so its own if no other has the id; and every override of
\* a served operation counts, if the operation has an id (tool_provider.py:105-131).
THEOREM NamesAsProfiled == Spec => []NamesFollowOverrides
  <1>1. ASSUME IInv, stage = "served", edits = 0
        PROVE  /\ \A id \in DOMAIN names : \E p \in PathsOf(Root) : \E o \in Overridden(p) :
                    /\ served[Normal(p)] = p /\ o.id = id
                    /\ names[id] = Override(o.verb, Normal(Normal(p)))
               /\ \A p \in PathsOf(Root) : \A o \in Overridden(p) :
                    served[Normal(p)] = p => o.id \in DOMAIN names
    <2> DEFINE named == {x \in OperationsOf(served) : x[2].id # NoId /\ OverrideOf(served, x) # ""}
               IsLast(i, x) == x[2].id = i /\ \A y \in named : y[2].id = i => NoLater(y, x)
    <2>1. StateOK /\ LoadedOK /\ served = NormalizeSpec /\ names = NamesMap(served)
      BY <1>1 DEF IInv, ServedOK, SettledOK
    <2>2. /\ DOMAIN names = {x[2].id : x \in named}
          /\ \A i \in DOMAIN names :
               names[i] = OverrideOf(served, CHOOSE x \in named : IsLast(i, x))
      BY <2>1 DEF NamesMap
    <2>3. ASSUME NEW id \in DOMAIN names
          PROVE  \E p \in PathsOf(Root) : \E o \in Overridden(p) :
                   /\ served[Normal(p)] = p /\ o.id = id
                   /\ names[id] = Override(o.verb, Normal(Normal(p)))
      <3> DEFINE S == {x \in named : x[2].id = id}
      <3>1. S # {} /\ S \subseteq OperationsOf(served)
        BY <2>2
      <3>2. \E x \in named : IsLast(id, x)
        <4>1. PICK x \in S : \A y \in S : NoLater(y, x)
          <5> HIDE DEF S
          <5> QED BY <2>1, <3>1, LastOperation
        <4>2. QED
          BY <4>1
      <3>3. PICK x \in named : x[2].id = id /\ names[id] = OverrideOf(served, x)
        <4>1. PICK z : z = CHOOSE x \in named : IsLast(id, x)
          OBVIOUS
        <4>2. z \in named /\ IsLast(id, z)
          <5> HIDE DEF named, IsLast
          <5> QED BY <3>2, <4>1
        <4>3. QED
          BY <2>2, <4>1, <4>2
      <3>4. PICK k \in DOMAIN served : x[1] = k /\ x[2] \in found[served[k]]
        <4>1. PICK k \in DOMAIN served : x \in {k} \X found[served[k]]
          BY DEF OperationsOf
        <4>2. QED
          BY <4>1
      <3>5. served[k] \in PathsOf(Root) /\ found[served[k]] = Documented(served[k])
            /\ Normal(served[k]) = k
        BY <2>1, <3>4, RankExists DEF LoadedOK
      <3>6. x[2] \in Overridden(served[k])
        BY <3>3, <3>4, <3>5 DEF Overridden, OverrideOf
      <3>7. QED
        BY <3>3, <3>4, <3>5, <3>6 DEF OverrideOf
    <2>4. ASSUME NEW p \in PathsOf(Root), NEW o \in Overridden(p), served[Normal(p)] = p
          PROVE  o.id \in DOMAIN names
      <3>1. p \in DOMAIN found /\ o \in found[p] /\ Normal(p) \in DOMAIN served
        BY <2>1, <2>4, ServedPath DEF LoadedOK, Overridden
      <3>2. <<Normal(p), o>> \in OperationsOf(served)
        BY <2>4, <3>1 DEF OperationsOf
      <3>3. o.id # NoId /\ Override(o.verb, Normal(Normal(p))) # ""
        BY DEF Overridden
      <3>4. PICK x : x = <<Normal(p), o>>
        OBVIOUS
      <3>5. x \in named /\ x[2].id = o.id
        BY <3>2, <3>3, <3>4 DEF OverrideOf
      <3>6. QED
        BY <2>2, <3>5
    <2>5. QED
      BY <2>3, <2>4
  <1>2. IInv => NamesFollowOverrides
    BY <1>1 DEF NamesFollowOverrides
  <1>3. QED
    BY <1>2, InvariantHolds, PTL

-----------------------------------------------------------------------------
(* SpecCache: the lock and what is cached.                                 *)

\* The part of CacheTypeOK that the properties depend on.
CacheOK ==
  /\ version \in Version
  /\ current \in LoadedSpec \cup {NoSpec}
  /\ lock \in Task \cup {NoTask}
  /\ pc \in [Task -> {"idle"} \cup Active \cup Ended]
  /\ loading \in [Task -> LoadedSpec]

\* Only initial_load waits to hold the lock across its awaits.
EntersAsLoader == \A t \in Task : pc[t] = "enter" => t \in Loader

CacheInv == CacheOK /\ EntersAsLoader /\ LockNotLeaked /\ SuccessMeansReadable

\* Nothing is cached and nobody is loading at first.
LEMMA InitCacheInv == CacheInit => CacheInv
  <1> SUFFICES ASSUME CacheInit PROVE CacheInv
    OBVIOUS
  <1>1. CacheOK
    BY BoundAssumption DEF CacheInit, CacheOK, Version, LoadedSpec
  <1>2. EntersAsLoader /\ LockNotLeaked /\ SuccessMeansReadable
    BY DEF CacheInit, EntersAsLoader, LockNotLeaked, SuccessMeansReadable
  <1>3. QED
    BY <1>1, <1>2 DEF CacheInv

-----------------------------------------------------------------------------
(* Every step of the cache keeps the invariant.                            *)

\* A load that starts, waits for the lock or gets it keeps the invariant (loader.py:236-256).
LEMMA StartCacheInv ==
  ASSUME CacheInv, NEW t \in Task, InitialLoad(t) \/ RefreshOnce(t) \/ EnterInitialLoad(t)
  PROVE  CacheInv'
  <1>1. CacheOK'
    BY DEF CacheInv, CacheOK, InitialLoad, RefreshOnce, EnterInitialLoad, Goto, Active
  <1>2. EntersAsLoader'
    BY DEF CacheInv, CacheOK, EntersAsLoader, InitialLoad, RefreshOnce, EnterInitialLoad, Goto
  <1>3. LockNotLeaked'
    BY TaskAssumption DEF CacheInv, CacheOK, EntersAsLoader, LockNotLeaked, InitialLoad,
       RefreshOnce, EnterInitialLoad, Goto, Task
  <1>4. SuccessMeansReadable'
    BY DEF CacheInv, CacheOK, SuccessMeansReadable, InitialLoad, RefreshOnce, EnterInitialLoad, Goto
  <1>5. QED
    BY <1>1, <1>2, <1>3, <1>4 DEF CacheInv

\* The refresh loop holds no lock while it sleeps (loader.py:258-277).
LEMMA LoopCacheInv ==
  ASSUME CacheInv, RunRefreshLoop \/ LoopWakes
  PROVE  CacheInv'
  <1>1. CacheOK'
    BY DEF CacheInv, CacheOK, RunRefreshLoop, LoopWakes, Goto, Active, Ended
  <1>2. EntersAsLoader'
    BY DEF CacheInv, CacheOK, EntersAsLoader, RunRefreshLoop, LoopWakes, Goto
  <1>3. LockNotLeaked'
    BY TaskAssumption DEF CacheInv, CacheOK, LockNotLeaked, RunRefreshLoop, LoopWakes, Goto, Task
  <1>4. SuccessMeansReadable'
    BY DEF CacheInv, CacheOK, SuccessMeansReadable, RunRefreshLoop, LoopWakes, Goto
  <1>5. QED
    BY <1>1, <1>2, <1>3, <1>4 DEF CacheInv

\* A document that arrives changes what its own task is loading, and no lock.
LEMMA FetchCacheInv ==
  ASSUME CacheInv, NEW t \in Task, RootFetched(t) \/ RefFetched(t)
  PROVE  CacheInv'
  <1>1. CacheOK'
    BY DEF CacheInv, CacheOK, RootFetched, RefFetched, Release, Goto, Active, Ended, LoadedSpec
  <1>2. EntersAsLoader'
    BY DEF CacheInv, CacheOK, EntersAsLoader, RootFetched, RefFetched, Goto
  <1>3. LockNotLeaked'
    BY TaskAssumption DEF CacheInv, CacheOK, LockNotLeaked, RootFetched, RefFetched, Release,
       Goto, Task
  <1>4. SuccessMeansReadable'
    <2>1. current # NoSpec => current' # NoSpec
      BY <1>1, NoSpecAssumption DEF CacheInv, CacheOK, RootFetched, RefFetched
    <2>2. pc'[t] \in {"loaded", "refreshed", "raised"} => current' # NoSpec
      BY <1>1, NoSpecAssumption DEF CacheInv, CacheOK, RootFetched, RefFetched, Goto
    <2>3. \A u \in Task \ {t} : pc'[u] = pc[u]
      BY DEF CacheInv, CacheOK, RootFetched, RefFetched, Goto
    <2>4. QED
      BY <2>1, <2>2, <2>3 DEF CacheInv, SuccessMeansReadable
  <1>5. QED
    BY <1>1, <1>2, <1>3, <1>4 DEF CacheInv

\* A load that fails leaves the cache and gives the lock back (loader.py:236-256).
LEMMA LoadFailedCacheInv ==
  ASSUME CacheInv, NEW t \in Task, LoadFailed(t)
  PROVE  CacheInv'
  <1>1. PICK l \in {"SpecLoadError", "OtherError", "notrefreshed", "sleep"} :
          pc' = [pc EXCEPT ![t] = l]
    BY DEF LoadFailed, Goto, AfterFailure, Raised
  <1>2. CacheOK'
    BY <1>1 DEF CacheInv, CacheOK, LoadFailed, Release, Active, Ended
  <1>3. EntersAsLoader'
    BY <1>1 DEF CacheInv, CacheOK, EntersAsLoader
  <1>4. LockNotLeaked'
    BY <1>1, TaskAssumption DEF CacheInv, CacheOK, LockNotLeaked, LoadFailed, Release, Task
  <1>5. SuccessMeansReadable'
    BY <1>1 DEF CacheInv, CacheOK, SuccessMeansReadable, LoadFailed
  <1>6. QED
    BY <1>2, <1>3, <1>4, <1>5 DEF CacheInv

\* A load that is installed or cancelled gives the lock back (loader.py:236-256).
LEMMA EndCacheInv ==
  ASSUME CacheInv, NEW t \in Task, Install(t) \/ Cancel(t)
  PROVE  CacheInv'
  <1>1. PICK l \in {"sleep", "errsleep", "refreshed", "raised", "cancelled"} :
          pc' = [pc EXCEPT ![t] = l]
    BY DEF Install, Cancel, Goto
  <1>2. CacheOK'
    BY <1>1 DEF CacheInv, CacheOK, Install, Cancel, Release, Active, Ended
  <1>3. EntersAsLoader'
    BY <1>1 DEF CacheInv, CacheOK, EntersAsLoader
  <1>4. LockNotLeaked'
    BY <1>1, TaskAssumption DEF CacheInv, CacheOK, LockNotLeaked, Install, Cancel, MayAcquire,
       Release, Task
  <1>5. SuccessMeansReadable'
    <2>1. CASE Install(t)
      BY <2>1, NoSpecAssumption DEF CacheInv, CacheOK, SuccessMeansReadable, Install
    <2>2. CASE Cancel(t)
      BY <2>2 DEF CacheInv, CacheOK, SuccessMeansReadable, Cancel, Goto
    <2>3. QED
      BY <2>1, <2>2
  <1>6. QED
    BY <1>2, <1>3, <1>4, <1>5 DEF CacheInv

\* No step of the cache disturbs its invariant.
LEMMA NextCacheInv == CacheInv /\ [CacheNext]_cacheVars => CacheInv'
  <1> SUFFICES ASSUME CacheInv, [CacheNext]_cacheVars PROVE CacheInv'
    OBVIOUS
  <1>1. ASSUME NEW t \in Task, InitialLoad(t) \/ RefreshOnce(t) \/ TaskProgress(t) \/ Cancel(t)
        PROVE  CacheInv'
    BY <1>1, StartCacheInv, LoopCacheInv, FetchCacheInv, LoadFailedCacheInv, EndCacheInv DEF TaskProgress
  <1>2. CASE RunRefreshLoop
    BY <1>2, LoopCacheInv
  <1>3. CASE Republish
    BY <1>3, BoundAssumption DEF CacheInv, CacheOK, EntersAsLoader, LockNotLeaked,
       SuccessMeansReadable, Republish, Version
  <1>4. CASE UNCHANGED cacheVars
    BY <1>4 DEF CacheInv, CacheOK, EntersAsLoader, LockNotLeaked, SuccessMeansReadable, cacheVars
  <1>5. QED
    BY <1>1, <1>2, <1>3, <1>4 DEF CacheNext

-----------------------------------------------------------------------------
(* The theorems about the cache.                                           *)

\* The strengthened invariant holds in every reachable state of the cache.
THEOREM CacheInvHolds == CacheSpec => []CacheInv
  BY InitCacheInv, NextCacheInv, PTL DEF CacheSpec

\* The waiters of the lock.
LEMMA QueueType ==
  ASSUME queue \in Seq(Task), [CacheNext]_cacheVars
  PROVE  queue' \in Seq(Task)
  <1>1. ASSUME NEW t \in Task, InitialLoad(t) \/ RefFetched(t)
        PROVE  queue' \in Seq(Task)
    BY <1>1 DEF InitialLoad, RefFetched
  <1>2. ASSUME NEW t \in Task, EnterInitialLoad(t) \/ Install(t)
        PROVE  queue' \in Seq(Task)
    BY <1>2 DEF EnterInitialLoad, Install, MayAcquire
  <1>3. ASSUME NEW t \in Task, Cancel(t)
        PROVE  queue' \in Seq(Task)
    BY <1>3, RemoveFirstType DEF Cancel
  <1>4. ASSUME NEW t \in Task, RefreshOnce(t) \/ RootFetched(t) \/ LoadFailed(t)
        PROVE  queue' \in Seq(Task)
    BY <1>4 DEF RefreshOnce, RootFetched, LoadFailed
  <1>5. CASE RunRefreshLoop \/ LoopWakes \/ Republish \/ UNCHANGED cacheVars
    BY <1>5 DEF RunRefreshLoop, LoopWakes, Republish, cacheVars
  <1>6. QED
    BY <1>1, <1>2, <1>3, <1>4, <1>5 DEF CacheNext, TaskProgress

\* The cache, its lock, the lock's waiters and every task's place stay what they are meant
\* to be, whatever is republished, fails or is cancelled (loader.py:221-277).
THEOREM CacheTypeCorrect == CacheSpec => []CacheTypeOK
  <1>1. CacheInit => queue \in Seq(Task)
    BY DEF CacheInit
  <1>2. queue \in Seq(Task) /\ [CacheNext]_cacheVars => (queue \in Seq(Task))'
    BY QueueType
  <1>3. CacheInv /\ queue \in Seq(Task) => CacheTypeOK
    BY DEF CacheInv, CacheOK, CacheTypeOK
  <1>4. QED
    BY <1>1, <1>2, <1>3, CacheInvHolds, PTL DEF CacheSpec

\* The lock is never leaked, whatever fails or is cancelled (loader.py:236-256).
THEOREM LockIsNotLeaked == CacheSpec => []LockNotLeaked
  <1>1. CacheInv => LockNotLeaked
    BY DEF CacheInv
  <1>2. QED
    BY <1>1, CacheInvHolds, PTL

\* After any reported success, reading `current` does not raise (loader.py:230-234).
THEOREM SuccessIsReadable == CacheSpec => []SuccessMeansReadable
  <1>1. CacheInv => SuccessMeansReadable
    BY DEF CacheInv
  <1>2. QED
    BY <1>1, CacheInvHolds, PTL

\* What is served changes only to a spec that the changing task has loaded to the end;
\* no failure and no cancellation touches it (loader.py:3-5).
THEOREM SpecIsNeverTornDown == CacheSpec => NeverTornDown
  <1> DEFINE Stored ==
        \E t \in Task : /\ pc[t] \in {"ref", "install"}
                        /\ current' = loading'[t]
                        /\ pc'[t] \notin {"ref", "install"}
  <1>1. CacheInv /\ [CacheNext]_cacheVars => [Stored]_current
    <2> SUFFICES ASSUME CacheInv, [CacheNext]_cacheVars, current' # current PROVE Stored
      OBVIOUS
    <2>1. PICK t \in Task : RefFetched(t) \/ Install(t)
      BY DEF CacheNext, TaskProgress, InitialLoad, RefreshOnce, EnterInitialLoad, LoopWakes,
         RootFetched, LoadFailed, Cancel, RunRefreshLoop, Republish, cacheVars
    <2>2. CASE RefFetched(t)
      BY <2>2 DEF RefFetched, Goto, CacheInv, CacheOK
    <2>3. CASE Install(t)
      BY <2>3 DEF Install, Goto, CacheInv, CacheOK
    <2>4. QED
      BY <2>1, <2>2, <2>3
  <1>2. QED
    BY <1>1, CacheInvHolds, PTL DEF CacheSpec, NeverTornDown
=============================================================================
