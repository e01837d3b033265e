------------------------- MODULE ExportPaginatorProofs -------------------------
(***************************************************************************)
(* Theorems about ExportPaginator, for any lists, pages and changes.       *)
(***************************************************************************)
EXTENDS ExportPaginator, SequenceTheorems, FiniteSetTheorems, TLAPS

-----------------------------------------------------------------------------
(* Pages, and how the list changes.                                        *)

\* A page holds the items at its positions of the list, and no others.
LEMMA PageShape ==
  ASSUME NEW l \in Seq(Item), NEW p \in Nat \ {0}
  PROVE  /\ PageOf(l, p) \in Seq(Item) /\ Len(PageOf(l, p)) \in Nat
         /\ (p - 1) * PageSize \in Nat /\ p * PageSize = (p - 1) * PageSize + PageSize
         /\ \A i \in 1..Len(PageOf(l, p)) :
              /\ (p - 1) * PageSize + i \in 1..Len(l)
              /\ (p - 1) * PageSize + i <= p * PageSize
              /\ PageOf(l, p)[i] = l[(p - 1) * PageSize + i]
         /\ \A j \in 1..Len(l) : (p - 1) * PageSize < j /\ j <= p * PageSize =>
              /\ j - (p - 1) * PageSize \in 1..Len(PageOf(l, p))
              /\ PageOf(l, p)[j - (p - 1) * PageSize] = l[j]
  <1>1. PICK k : k = (p - 1) * PageSize
    OBVIOUS
  <1>2. k \in Nat /\ p * PageSize = k + PageSize /\ PageSize \in Nat \ {0}
    <2>1. PageSize \in Nat \ {0}
      BY PageAssumption
    <2>2. QED
      BY <1>1, <2>1
  <1>3. PICK n : n = Least(p * PageSize, Len(l))
    OBVIOUS
  <1>4. /\ Len(l) \in Nat /\ n \in Nat /\ n <= Len(l) /\ n <= k + PageSize
        /\ n = k + PageSize \/ n = Len(l)
        /\ \A i \in 1..Len(l) : l[i] \in Item
    BY <1>2, <1>3, LenProperties, ElementOfSeq DEF Least
  <1>5. PageOf(l, p) = SubSeq(l, k + 1, n)
    BY <1>1, <1>3 DEF PageOf
  <1>6. \A i \in (k + 1)..n : l[i] \in Item
    BY <1>2, <1>4
  <1>7. /\ SubSeq(l, k + 1, n) \in Seq(Item)
        /\ Len(SubSeq(l, k + 1, n)) = IF k + 1 <= n THEN n - (k + 1) + 1 ELSE 0
        /\ \A i \in 1..(n - (k + 1) + 1) : SubSeq(l, k + 1, n)[i] = l[(k + 1) + i - 1]
    BY <1>2, <1>4, <1>6, SubSeqProperties
  <1>8. PICK d : d = PageOf(l, p)
    OBVIOUS
  <1>9. /\ d \in Seq(Item) /\ Len(d) = IF k + 1 <= n THEN n - k ELSE 0
        /\ \A i \in 1..(n - k) : d[i] = l[k + i]
    BY <1>2, <1>4, <1>5, <1>7, <1>8
  <1>10. /\ \A i \in 1..Len(d) : k + i \in 1..Len(l) /\ k + i <= k + PageSize /\ d[i] = l[k + i]
         /\ Len(d) \in Nat
    <2>1. CASE k + 1 <= n
      <3>1. Len(d) = n - k /\ n - k \in Nat
        BY <1>2, <1>4, <1>9, <2>1
      <3>2. QED
        BY <1>2, <1>4, <1>9, <2>1, <3>1
    <2>2. CASE ~(k + 1 <= n)
      <3>1. Len(d) = 0
        BY <1>9, <2>2
      <3>2. QED
        BY <3>1
    <2>3. QED
      BY <2>1, <2>2
  <1>11. \A j \in 1..Len(l) : k < j /\ j <= k + PageSize =>
           j - k \in 1..Len(d) /\ d[j - k] = l[j]
    <2> SUFFICES ASSUME NEW j \in 1..Len(l), k < j, j <= k + PageSize
                 PROVE  j - k \in 1..Len(d) /\ d[j - k] = l[j]
      OBVIOUS
    <2>1. j - k \in 1..(n - k) /\ k + (j - k) = j /\ k + 1 <= n
      BY <1>2, <1>4
    <2>2. QED
      BY <1>9, <2>1
  <1>12. QED
    BY <1>1, <1>2, <1>8, <1>9, <1>10, <1>11

\* What removing the i-th item leaves.
LEMMA RemovedShape ==
  ASSUME NEW l \in Seq(Item), NEW i \in 1..Len(l),
         NEW m, m = SubSeq(l, 1, i - 1) \o SubSeq(l, i + 1, Len(l))
  PROVE  /\ m \in Seq(Item) /\ Len(m) = Len(l) - 1
         /\ \A j \in 1..Len(m) : m[j] = IF j < i THEN l[j] ELSE l[j + 1]
  <1>1. Len(l) \in Nat /\ \A j \in 1..Len(l) : l[j] \in Item
    BY LenProperties, ElementOfSeq
  <1>2. PICK a : a = SubSeq(l, 1, i - 1)
    OBVIOUS
  <1>3. PICK b : b = SubSeq(l, i + 1, Len(l))
    OBVIOUS
  <1>4. /\ a \in Seq(Item) /\ Len(a) = i - 1
        /\ \A j \in 1..(i - 1) : a[j] = l[j]
    <2>1. i - 1 \in Int /\ \A j \in 1..(i - 1) : l[j] \in Item
      BY <1>1
    <2>2. /\ SubSeq(l, 1, i - 1) \in Seq(Item)
          /\ Len(SubSeq(l, 1, i - 1)) = IF 1 <= i - 1 THEN i - 1 - 1 + 1 ELSE 0
          /\ \A j \in 1..(i - 1 - 1 + 1) : SubSeq(l, 1, i - 1)[j] = l[1 + j - 1]
      BY <2>1, SubSeqProperties
    <2>3. QED
      BY <1>1, <1>2, <2>2
  <1>5. /\ b \in Seq(Item) /\ Len(b) = Len(l) - i
        /\ \A j \in 1..(Len(l) - i) : b[j] = l[i + j]
    <2>1. i + 1 \in Int /\ Len(l) \in Int /\ \A j \in (i + 1)..Len(l) : l[j] \in Item
      BY <1>1
    <2>2. /\ SubSeq(l, i + 1, Len(l)) \in Seq(Item)
          /\ Len(SubSeq(l, i + 1, Len(l))) =
               IF i + 1 <= Len(l) THEN Len(l) - (i + 1) + 1 ELSE 0
          /\ \A j \in 1..(Len(l) - (i + 1) + 1) :
               SubSeq(l, i + 1, Len(l))[j] = l[i + 1 + j - 1]
      BY <2>1, SubSeqProperties
    <2>3. QED
      BY <1>1, <1>3, <2>2
  <1>6. m = a \o b
    BY <1>2, <1>3
  <1>7. /\ a \o b \in Seq(Item) /\ Len(a \o b) = Len(a) + Len(b)
        /\ \A j \in 1..(Len(a) + Len(b)) :
             (a \o b)[j] = IF j <= Len(a) THEN a[j] ELSE b[j - Len(a)]
    <2>1. a \in Seq(Item) /\ b \in Seq(Item)
      BY <1>4, <1>5
    <2>2. QED
      BY <2>1, ConcatProperties
  <1>8. m \in Seq(Item) /\ Len(m) = Len(l) - 1
    <2>1. m \in Seq(Item) /\ Len(m) = Len(a) + Len(b)
      BY <1>6, <1>7
    <2>2. Len(a) + Len(b) = Len(l) - 1
      BY <1>1, <1>4, <1>5
    <2>3. QED
      BY <2>1, <2>2
  <1>i. i \in Nat /\ i <= Len(l)
    BY <1>1
  <1>9. ASSUME NEW j \in 1..Len(m) PROVE m[j] = IF j < i THEN l[j] ELSE l[j + 1]
    <2>1. j \in Nat /\ 1 <= j /\ j <= Len(l) - 1
      <3>1. j \in 1..(Len(l) - 1)
        BY <1>8
      <3>2. QED
        BY <1>1, <3>1
    <2>2. m[j] = IF j <= i - 1 THEN a[j] ELSE b[j - (i - 1)]
      BY <1>1, <1>4, <1>5, <1>6, <1>7, <1>8
    <2>3. CASE j < i
      BY <1>1, <1>i, <1>4, <2>1, <2>2, <2>3
    <2>4. CASE i <= j
      <3>1. j - (i - 1) \in 1..(Len(l) - i) /\ i + (j - (i - 1)) = j + 1
        BY <1>1, <1>i, <2>1, <2>4
      <3>2. m[j] = b[j - (i - 1)]
        BY <1>i, <2>1, <2>2, <2>4
      <3>3. b[j - (i - 1)] = l[j + 1]
        BY <1>5, <3>1
      <3>4. QED
        BY <1>i, <2>1, <2>4, <3>2, <3>3
    <2>5. QED
      BY <1>i, <2>1, <2>3, <2>4
  <1>10. QED
    BY <1>8, <1>9

-----------------------------------------------------------------------------
(* Types.                                                                  *)

LEMMA NoBodyTyped == NoBody \in Body /\ <<>> \in Seq(Item)
  <1>1. <<>> \in Seq(Item)
    BY EmptySeq
  <1>2. QED
    BY <1>1 DEF Body, NoBody

LEMMA TypeInit == Init => TypeOK
  <1> SUFFICES ASSUME Init PROVE TypeOK
    OBVIOUS
  <1>1. initial \in Nat
    BY LengthsAssumption DEF Init
  <1>2. listed \in Seq(Item)
    <2>1. listed \in [1..initial -> Item]
      BY <1>1 DEF Init, Item
    <2>2. QED
      BY <1>1, <2>1, SeqDef
  <1>3. body \in Body /\ items \in Seq(Item)
    BY NoBodyTyped DEF Init
  <1>4. page \in 1..MaxPages
    BY PageAssumption DEF Init
  <1>5. disturbed \subseteq {"prepended", "malformed"} /\ truncated \in BOOLEAN
    BY DEF Init
  <1>6. /\ counters \in BOOLEAN /\ pc = "idle" /\ initial \in Lengths
        /\ added \in Nat /\ removed \in Nat
    BY DEF Init
  <1>7. QED
    BY <1>2, <1>3, <1>4, <1>5, <1>6 DEF TypeOK

\* What a step of the collection does to the list.
LEMMA AddShape ==
  ASSUME TypeOK, AddItem
  PROVE  /\ pc \in {"requesting", "answered"} /\ added' = added + 1
         /\ UNCHANGED <<counters, pc, page, body, items, truncated, initial, removed>>
         /\ listed' \in Seq(Item) /\ Len(listed') = Len(listed) + 1
         /\ \/ /\ \A j \in 1..Len(listed) : listed'[j] = listed[j]
               /\ listed'[Len(listed) + 1] = initial + added + 1
               /\ UNCHANGED disturbed
            \/ /\ \A j \in 2..(Len(listed) + 1) : listed'[j] = listed[j - 1]
               /\ listed'[1] = initial + added + 1
               /\ disturbed' = disturbed \cup {"prepended"}
  <1>1. PICK x : x = initial + added + 1
    OBVIOUS
  <1>2. x \in Item /\ added \in Nat /\ initial \in Nat /\ listed \in Seq(Item)
    BY <1>1, LengthsAssumption DEF TypeOK, Item
  <1>3. /\ pc \in {"requesting", "answered"} /\ added' = added + 1
        /\ UNCHANGED <<counters, pc, page, body, items, truncated, initial, removed>>
        /\ \/ listed' = Append(listed, x) /\ UNCHANGED disturbed
           \/ listed' = <<x>> \o listed /\ disturbed' = disturbed \cup {"prepended"}
    BY <1>1, <1>2 DEF AddItem, Changed
  <1>4. Len(listed) \in Nat
    BY <1>2, LenProperties
  <1>5. CASE listed' = Append(listed, x) /\ UNCHANGED disturbed
    BY <1>1, <1>2, <1>3, <1>4, <1>5, AppendProperties
  <1>6. CASE listed' = <<x>> \o listed /\ disturbed' = disturbed \cup {"prepended"}
    <2>1. <<x>> \in Seq(Item) /\ Len(<<x>>) = 1 /\ <<x>>[1] = x
      BY <1>2
    <2>2. /\ listed' \in Seq(Item) /\ Len(listed') = 1 + Len(listed)
          /\ \A j \in 1..(1 + Len(listed)) :
               listed'[j] = IF j <= 1 THEN <<x>>[j] ELSE listed[j - 1]
      BY <1>2, <1>6, <2>1, ConcatProperties
    <2>3. QED
      BY <1>1, <1>3, <1>4, <1>6, <2>1, <2>2
  <1>7. QED
    BY <1>3, <1>5, <1>6

LEMMA RemoveShape ==
  ASSUME TypeOK, RemoveItem
  PROVE  /\ pc \in {"requesting", "answered"} /\ removed' = removed + 1
         /\ UNCHANGED <<counters, pc, page, body, items, truncated, initial, added, disturbed>>
         /\ listed' \in Seq(Item) /\ Len(listed') = Len(listed) - 1
         /\ \E i \in 1..Len(listed) :
              \A j \in 1..Len(listed') : listed'[j] = IF j < i THEN listed[j] ELSE listed[j + 1]
  <1>1. listed \in Seq(Item) /\ DOMAIN listed = 1..Len(listed)
    BY LenProperties DEF TypeOK
  <1>2. PICK i \in 1..Len(listed) :
          Changed(SubSeq(listed, 1, i - 1) \o SubSeq(listed, i + 1, Len(listed)))
    BY <1>1 DEF RemoveItem
  <1>3. listed' = SubSeq(listed, 1, i - 1) \o SubSeq(listed, i + 1, Len(listed))
    BY <1>2 DEF Changed
  <1>4. /\ listed' \in Seq(Item) /\ Len(listed') = Len(listed) - 1
        /\ \A j \in 1..Len(listed') : listed'[j] = IF j < i THEN listed[j] ELSE listed[j + 1]
    BY <1>1, <1>3, RemovedShape
  <1>5. QED
    BY <1>2, <1>4 DEF RemoveItem, Changed

\* What a pass of the loop does.
LEMMA ReceiveShape ==
  ASSUME TypeOK, Receive
  PROVE  /\ pc = "answered" /\ pc' \in {"done", "requesting"} /\ body' = NoBody
         /\ items' \in Seq(Item)
         /\ body.list => items' = items \o body.data
         /\ ~body.list => items' = items
         /\ pc' = "done" =>
              /\ page' = page
              /\ body.data = <<>> \/ LastPage(body, page) \/ page = MaxPages
              /\ ~truncated' => body.data = <<>> \/ LastPage(body, page)
         /\ pc' = "requesting" => page' = page + 1 /\ page + 1 <= MaxPages
         /\ truncated' \in BOOLEAN
         /\ UNCHANGED <<counters, listed, initial, added, removed, disturbed>>
  <1>1. /\ items \in Seq(Item) /\ body.data \in Seq(Item) /\ page \in Nat /\ page <= MaxPages
        /\ MaxPages \in Nat /\ truncated \in BOOLEAN
    BY PageAssumption DEF TypeOK, Body
  <1>2. items \o body.data \in Seq(Item)
    BY <1>1, ConcatProperties
  <1>3. items' = IF body.list THEN items \o body.data ELSE items
    BY DEF Receive
  <1>4. /\ pc = "answered" /\ pc' \in {"done", "requesting"} /\ body' = NoBody
        /\ UNCHANGED <<counters, listed, initial, added, removed, disturbed>>
    BY DEF Receive, history
  <1>5. items' \in Seq(Item) /\ truncated' \in BOOLEAN
    BY <1>1, <1>2, <1>3 DEF Receive
  <1>6. pc' = "done" =>
          /\ page' = page
          /\ body.data = <<>> \/ LastPage(body, page) \/ page = MaxPages
          /\ ~truncated' => body.data = <<>> \/ LastPage(body, page)
    BY <1>1 DEF Receive
  <1>7. pc' = "requesting" => page' = page + 1 /\ page + 1 <= MaxPages
    BY DEF Receive
  <1>8. QED
    BY <1>3, <1>4, <1>5, <1>6, <1>7

LEMMA TypeNext == TypeOK /\ [Next]_vars => TypeOK'
  <1> SUFFICES ASSUME TypeOK, [Next]_vars PROVE TypeOK'
    OBVIOUS
  <1>1. CASE Begin
    BY <1>1 DEF Begin, history, TypeOK
  <1>2. CASE Answer
    <2>1. PICK list \in BOOLEAN, counted \in BOOLEAN :
            body' = [data  |-> PageOf(listed, page), list |-> list,
                     total |-> IF counted THEN PageCount(listed) ELSE 0]
      BY <1>2 DEF Answer
    <2>2. PageOf(listed, page) \in Seq(Item)
      BY PageShape, PageAssumption DEF TypeOK
    <2>3. PageCount(listed) \in Nat
      <3>1. Len(listed) \in Nat
        BY LenProperties DEF TypeOK
      <3>2. QED
        BY <3>1, PageAssumption DEF PageCount
    <2>4. body' \in Body
      BY <2>1, <2>2, <2>3 DEF Body
    <2>5. disturbed' \subseteq {"prepended", "malformed"}
      BY <1>2 DEF Answer, TypeOK
    <2>6. QED
      BY <1>2, <2>4, <2>5 DEF Answer, TypeOK
  <1>3. CASE Receive
    <2>1. page' \in 1..MaxPages
      BY <1>3, ReceiveShape, PageAssumption DEF TypeOK
    <2>2. body' \in Body
      BY <1>3, NoBodyTyped, ReceiveShape
    <2>3. QED
      BY <1>3, <2>1, <2>2, ReceiveShape DEF TypeOK
  <1>4. CASE Fail
    BY <1>4, NoBodyTyped DEF Fail, history, TypeOK
  <1>5. CASE AddItem
    <2>1. added' \in Nat /\ disturbed' \subseteq {"prepended", "malformed"}
      <3>1. /\ added' = added + 1
            /\ disturbed' = disturbed \/ disturbed' = disturbed \cup {"prepended"}
        BY <1>5, AddShape
      <3>2. added \in Nat /\ disturbed \subseteq {"prepended", "malformed"}
        BY DEF TypeOK
      <3>3. added' \in Nat
        BY <3>1, <3>2
      <3>4. disturbed' \subseteq {"prepended", "malformed"}
        BY <3>1, <3>2
      <3>5. QED
        BY <3>3, <3>4
    <2>2. /\ listed' \in Seq(Item)
          /\ UNCHANGED <<counters, pc, page, body, items, truncated, initial, removed>>
      BY <1>5, AddShape
    <2>3. QED
      BY <2>1, <2>2 DEF TypeOK
  <1>6. CASE RemoveItem
    <2>1. /\ listed' \in Seq(Item) /\ removed' = removed + 1
          /\ UNCHANGED <<counters, pc, page, body, items, truncated, initial, added, disturbed>>
      BY <1>6, RemoveShape
    <2>2. QED
      BY <2>1 DEF TypeOK
  <1>7. CASE UNCHANGED vars
    BY <1>7 DEF vars, history, TypeOK
  <1>8. QED
    BY <1>1, <1>2, <1>3, <1>4, <1>5, <1>6, <1>7 DEF Next

\* Every reachable state is well typed; in particular the page never passes max_pages
\* (export.py:108-134).
THEOREM TypeCorrect == Spec => []TypeOK
  <1>1. QED
    BY TypeInit, TypeNext, PTL DEF Spec

-----------------------------------------------------------------------------
(* Nothing is exported twice.                                              *)

Increasing(s) == \A i, j \in 1..Len(s) : i < j => s[i] < s[j]

\* All of s comes before what the list has past its k-th position.
Precedes(s, l, k) == \A i \in 1..Len(s), j \in 1..Len(l) : k < j => s[i] < l[j]

\* None of s was added later than the n-th.
AtMost(s, n) == \A i \in 1..Len(s) : s[i] <= n

\* What is collected comes before what the next page begins with, which the list keeps
\* as long as nobody adds in front: removals only move later items up.
OrderInv ==
  "prepended" \notin disturbed =>
    /\ Increasing(listed) /\ AtMost(listed, initial + added)
    /\ Increasing(items) /\ AtMost(items, initial + added)
    /\ pc \in {"idle", "requesting", "answered"} => Precedes(items, listed, (page - 1) * PageSize)
    /\ pc = "answered" => /\ Increasing(body.data) /\ AtMost(body.data, initial + added)
                          /\ Precedes(body.data, listed, page * PageSize)
                          /\ Precedes(items, body.data, 0)

LEMMA OrderInit == Init => OrderInv
  <1> SUFFICES ASSUME Init PROVE OrderInv
    OBVIOUS
  <1>1. initial \in Nat /\ listed = [i \in 1..initial |-> i]
    BY LengthsAssumption DEF Init
  <1>2. Len(listed) = initial
    BY <1>1
  <1>3. Increasing(listed) /\ AtMost(listed, initial + added)
    BY <1>1, <1>2 DEF Init, Increasing, AtMost
  <1>4. items = <<>> /\ Len(<<>>) = 0 /\ pc = "idle"
    BY DEF Init
  <1>5. QED
    BY <1>3, <1>4 DEF OrderInv, Increasing, AtMost, Precedes

\* Sequences of items are sequences of numbers.
LEMMA ItemsTyped ==
  ASSUME NEW s \in Seq(Item)
  PROVE  Len(s) \in Nat /\ \A i \in 1..Len(s) : s[i] \in Nat /\ s[i] # 0
  <1>1. Len(s) \in Nat /\ \A i \in 1..Len(s) : s[i] \in Item
    BY LenProperties, ElementOfSeq
  <1>2. QED
    BY <1>1 DEF Item

LEMMA AnswerOrder ==
  ASSUME TypeOK, OrderInv, Answer
  PROVE  OrderInv'
  <1> SUFFICES ASSUME "prepended" \notin disturbed' PROVE OrderInv'
    BY DEF OrderInv
  <1>k. PICK k : k = (page - 1) * PageSize
    OBVIOUS
  <1>1. /\ pc = "requesting" /\ pc' = "answered" /\ body'.data = PageOf(listed, page)
        /\ UNCHANGED <<listed, page, items, initial, added>>
        /\ "prepended" \notin disturbed
    BY DEF Answer
  <1>2. listed \in Seq(Item) /\ items \in Seq(Item) /\ page \in Nat \ {0}
    BY PageAssumption DEF TypeOK
  <1>3. PICK d : d = PageOf(listed, page)
    OBVIOUS
  <1>4. /\ d \in Seq(Item) /\ k \in Nat /\ page * PageSize = k + PageSize
        /\ \A i \in 1..Len(d) :
             k + i \in 1..Len(listed) /\ k + i <= k + PageSize /\ d[i] = listed[k + i]
    <2>1. d \in Seq(Item) /\ k \in Nat /\ page * PageSize = k + PageSize
      BY <1>k, <1>2, <1>3, PageShape
    <2>2. \A i \in 1..Len(d) :
            k + i \in 1..Len(listed) /\ k + i <= page * PageSize /\ d[i] = listed[k + i]
      BY <1>k, <1>2, <1>3, PageShape
    <2>3. QED
      BY <2>1, <2>2
  <1>5. /\ Len(d) \in Nat /\ Len(listed) \in Nat /\ PageSize \in Nat
        /\ Increasing(listed) /\ AtMost(listed, initial + added) /\ Precedes(items, listed, k)
    BY <1>k, <1>1, <1>2, <1>4, ItemsTyped, PageAssumption DEF OrderInv
  <1>6. Increasing(d)
    BY <1>4, <1>5 DEF Increasing
  <1>7. Precedes(d, listed, k + PageSize)
    BY <1>4, <1>5 DEF Increasing, Precedes
  <1>8. Precedes(items, d, 0)
    BY <1>4, <1>5 DEF Precedes
  <1>9. AtMost(d, initial + added)
    BY <1>4, <1>5 DEF AtMost
  <1>10. QED
    BY <1>k, <1>1, <1>3, <1>4, <1>6, <1>7, <1>8, <1>9 DEF OrderInv, Increasing, AtMost, Precedes

LEMMA AppendOrder ==
  ASSUME NEW s \in Seq(Item), NEW d \in Seq(Item), Increasing(s), Increasing(d),
         Precedes(s, d, 0), NEW n, AtMost(s, n), AtMost(d, n)
  PROVE  Increasing(s \o d) /\ AtMost(s \o d, n)
  <1>1. Len(s) \in Nat /\ Len(d) \in Nat
    BY ItemsTyped
  <1>2. /\ Len(s \o d) = Len(s) + Len(d)
        /\ \A i \in 1..(Len(s) + Len(d)) : (s \o d)[i] = IF i <= Len(s) THEN s[i] ELSE d[i - Len(s)]
    BY ConcatProperties
  <1>3. PICK t : t = s \o d
    OBVIOUS
  <1>a. AtMost(s \o d, n)
    <2>1. ASSUME NEW i \in 1..(Len(s) + Len(d)) PROVE t[i] <= n
      <3>1. CASE i <= Len(s)
        BY <1>1, <1>2, <1>3, <3>1 DEF AtMost
      <3>2. CASE ~(i <= Len(s))
        <4>1. i - Len(s) \in 1..Len(d)
          BY <1>1, <3>2
        <4>2. QED
          BY <1>2, <1>3, <3>2, <4>1 DEF AtMost
      <3>3. QED
        BY <3>1, <3>2
    <2>2. QED
      BY <1>2, <1>3, <2>1 DEF AtMost
  <1>4. SUFFICES ASSUME NEW i \in 1..(Len(s) + Len(d)), NEW j \in 1..(Len(s) + Len(d)), i < j
                 PROVE  t[i] < t[j]
    BY <1>2, <1>3, <1>a DEF Increasing
  <1>5. CASE j <= Len(s)
    BY <1>1, <1>2, <1>3, <1>5, <1>4 DEF Increasing
  <1>6. CASE i <= Len(s) /\ ~(j <= Len(s))
    <2>1. j - Len(s) \in 1..Len(d) /\ 0 < j - Len(s) /\ i \in 1..Len(s)
      BY <1>1, <1>4, <1>6
    <2>2. t[i] = s[i] /\ t[j] = d[j - Len(s)]
      BY <1>2, <1>3, <1>6
    <2>3. QED
      BY <2>1, <2>2 DEF Precedes
  <1>7. CASE ~(i <= Len(s))
    <2>1. i - Len(s) \in 1..Len(d) /\ j - Len(s) \in 1..Len(d) /\ i - Len(s) < j - Len(s)
      BY <1>1, <1>4, <1>7
    <2>2. t[i] = d[i - Len(s)] /\ t[j] = d[j - Len(s)]
      BY <1>1, <1>2, <1>3, <1>4, <1>7
    <2>3. QED
      BY <2>1, <2>2 DEF Increasing
  <1>8. QED
    BY <1>1, <1>5, <1>6, <1>7

LEMMA ReceiveOrder ==
  ASSUME TypeOK, OrderInv, Receive
  PROVE  OrderInv'
  <1> SUFFICES ASSUME "prepended" \notin disturbed' PROVE OrderInv'
    BY DEF OrderInv
  <1>k. PICK k : k = (page - 1) * PageSize
    OBVIOUS
  <1>1. /\ pc = "answered" /\ pc' \in {"done", "requesting"}
        /\ items' = items \o body.data \/ items' = items
        /\ pc' = "requesting" => page' = page + 1
        /\ UNCHANGED <<listed, initial, added, disturbed>>
        /\ "prepended" \notin disturbed
    BY ReceiveShape DEF TypeOK, Body
  <1>2. /\ listed \in Seq(Item) /\ items \in Seq(Item) /\ page \in Nat \ {0}
        /\ body.data \in Seq(Item)
    BY PageAssumption DEF TypeOK, Body
  <1>3. k \in Nat /\ page * PageSize = k + PageSize /\ PageSize \in Nat
    BY <1>k, <1>2, PageShape, PageAssumption
  <1>4. /\ Increasing(listed) /\ Increasing(items) /\ Increasing(body.data)
        /\ Precedes(items, listed, k) /\ Precedes(body.data, listed, k + PageSize)
        /\ Precedes(items, body.data, 0)
        /\ AtMost(listed, initial + added) /\ AtMost(items, initial + added)
        /\ AtMost(body.data, initial + added)
    BY <1>k, <1>1, <1>3 DEF OrderInv
  <1>5. Increasing(items') /\ AtMost(items', initial + added)
    BY <1>1, <1>2, <1>4, AppendOrder
  <1>6. Precedes(items', listed, k + PageSize)
    <2>1. Len(listed) \in Nat /\ Len(items) \in Nat /\ Len(body.data) \in Nat
      BY <1>2, ItemsTyped
    <2>2. CASE items' = items
      BY <1>3, <1>4, <2>1, <2>2 DEF Precedes
    <2>3. CASE items' = items \o body.data
      <3>1. /\ Len(items') = Len(items) + Len(body.data)
            /\ \A i \in 1..(Len(items) + Len(body.data)) :
                 items'[i] = IF i <= Len(items) THEN items[i] ELSE body.data[i - Len(items)]
        BY <1>2, <2>3, ConcatProperties
      <3>2. ASSUME NEW i \in 1..Len(items'), NEW j \in 1..Len(listed), k + PageSize < j
            PROVE  items'[i] < listed[j]
        <4>1. i \in 1..(Len(items) + Len(body.data))
          BY <3>1
        <4>2. CASE i <= Len(items)
          BY <1>3, <1>4, <2>1, <3>1, <3>2, <4>1, <4>2 DEF Precedes
        <4>3. CASE ~(i <= Len(items))
          <5>1. i - Len(items) \in 1..Len(body.data)
            BY <2>1, <4>1, <4>3
          <5>2. QED
            BY <1>4, <3>1, <3>2, <4>1, <4>3, <5>1 DEF Precedes
        <4>4. QED
          BY <4>2, <4>3
      <3>3. QED
        BY <3>2 DEF Precedes
    <2>4. QED
      BY <1>1, <2>2, <2>3
  <1>7. pc' = "requesting" => (page' - 1) * PageSize = k + PageSize
    <2> SUFFICES ASSUME pc' = "requesting" PROVE (page' - 1) * PageSize = k + PageSize
      OBVIOUS
    <2>1. page' - 1 = page
      BY <1>1, <1>2
    <2>2. PICK q : q = page' - 1
      OBVIOUS
    <2>3. q * PageSize = k + PageSize
      BY <1>3, <2>1, <2>2
    <2>4. QED
      BY <2>2, <2>3
  <1>8. /\ Increasing(listed)' /\ AtMost(listed, initial + added)'
        /\ Increasing(items)' /\ AtMost(items, initial + added)'
    BY <1>1, <1>4, <1>5 DEF Increasing, AtMost
  <1>9. pc' = "requesting" => Precedes(items, listed, (page - 1) * PageSize)'
    BY <1>1, <1>6, <1>7 DEF Precedes
  <1>10. QED
    BY <1>1, <1>8, <1>9 DEF OrderInv

LEMMA AddOrder ==
  ASSUME TypeOK, OrderInv, AddItem
  PROVE  OrderInv'
  <1> SUFFICES ASSUME "prepended" \notin disturbed' PROVE OrderInv'
    BY DEF OrderInv
  <1>1. /\ UNCHANGED <<pc, page, body, items, initial>> /\ added' = added + 1
        /\ Len(listed') = Len(listed) + 1
        /\ \A j \in 1..Len(listed) : listed'[j] = listed[j]
        /\ listed'[Len(listed) + 1] = initial + added + 1
        /\ "prepended" \notin disturbed
    BY AddShape
  <1>2. /\ listed \in Seq(Item) /\ items \in Seq(Item) /\ initial + added \in Nat
        /\ page \in Nat \ {0} /\ body.data \in Seq(Item)
    BY LengthsAssumption, PageAssumption DEF TypeOK, Body
  <1>3. Len(listed) \in Nat /\ \A i \in 1..Len(listed) : listed[i] \in Nat
    BY <1>2, ItemsTyped
  <1>4. PICK n : n = initial + added
    OBVIOUS
  <1>5. n \in Nat /\ n + 1 = initial' + added'
    <2>1. initial \in Nat /\ added \in Nat
      BY LengthsAssumption DEF TypeOK
    <2>2. QED
      BY <1>1, <1>4, <2>1
  <1>6. \A j \in 1..Len(listed') :
          \/ j \in 1..Len(listed) /\ listed'[j] = listed[j]
          \/ j = Len(listed) + 1 /\ listed'[j] = n + 1
    BY <1>1, <1>3, <1>4
  <1>7. AtMost(listed, n) /\ AtMost(items, n) /\ Increasing(listed) /\ Increasing(items)
    BY <1>1, <1>4 DEF OrderInv
  <1>8. AtMost(listed', n + 1)
    BY <1>3, <1>5, <1>6, <1>7 DEF AtMost
  <1>9. Increasing(listed')
    BY <1>1, <1>3, <1>5, <1>6, <1>7 DEF AtMost, Increasing
  <1>10. ASSUME NEW s \in Seq(Item), NEW k, AtMost(s, n)
         PROVE  /\ AtMost(s, n + 1)
                /\ Precedes(s, listed, k) => Precedes(s, listed', k)
    <2>1. Len(s) \in Nat /\ \A i \in 1..Len(s) : s[i] \in Nat
      BY ItemsTyped
    <2>2. QED
      BY <1>5, <1>6, <1>10, <2>1 DEF AtMost, Precedes
  <1>11. /\ AtMost(items, n + 1)
         /\ Precedes(items, listed, (page - 1) * PageSize)
              => Precedes(items, listed', (page - 1) * PageSize)
    BY <1>2, <1>7, <1>10
  <1>12. pc = "answered" =>
           /\ AtMost(body.data, n + 1)
           /\ Precedes(body.data, listed', page * PageSize)
    BY <1>1, <1>2, <1>4, <1>10 DEF OrderInv
  <1>13. QED
    BY <1>1, <1>4, <1>5, <1>7, <1>8, <1>9, <1>11, <1>12 DEF OrderInv, Increasing, AtMost, Precedes

LEMMA RemoveOrder ==
  ASSUME TypeOK, OrderInv, RemoveItem
  PROVE  OrderInv'
  <1> SUFFICES ASSUME "prepended" \notin disturbed' PROVE OrderInv'
    BY DEF OrderInv
  <1>1. /\ UNCHANGED <<pc, page, body, items, initial, added, disturbed>>
        /\ Len(listed') = Len(listed) - 1
    BY RemoveShape
  <1>2. PICK i \in 1..Len(listed) :
          \A j \in 1..Len(listed') : listed'[j] = IF j < i THEN listed[j] ELSE listed[j + 1]
    BY RemoveShape
  <1>3. Len(listed) \in Nat /\ \A j \in 1..Len(listed) : listed[j] \in Nat
    BY ItemsTyped DEF TypeOK
  <1>5. Increasing(listed) /\ AtMost(listed, initial + added)
    BY <1>1 DEF OrderInv
  <1>p. PICK p \in [1..Len(listed') -> 1..Len(listed)] :
          \A j \in 1..Len(listed') : p[j] = IF j < i THEN j ELSE j + 1
    <2>1. \A j \in 1..Len(listed') : (IF j < i THEN j ELSE j + 1) \in 1..Len(listed)
      BY <1>1, <1>3
    <2>2. [j \in 1..Len(listed') |-> IF j < i THEN j ELSE j + 1]
            \in [1..Len(listed') -> 1..Len(listed)]
      BY <2>1
    <2>3. QED
      BY <2>2
  <1>q. \A j \in 1..Len(listed') : listed'[j] = listed[p[j]] /\ p[j] \in 1..Len(listed) /\ j <= p[j]
    BY <1>1, <1>2, <1>3, <1>p
  <1>r. \A j, l \in 1..Len(listed') : j < l => p[j] < p[l]
    BY <1>1, <1>3, <1>p
  <1>6. Increasing(listed') /\ AtMost(listed', initial + added)
    BY <1>5, <1>q, <1>r DEF Increasing, AtMost
  <1>7. ASSUME NEW s, NEW k \in Int, Precedes(s, listed, k) PROVE Precedes(s, listed', k)
    <2>1. \A j \in 1..Len(listed') : k < j => k < p[j]
      BY <1>1, <1>3, <1>q
    <2>2. QED
      BY <1>q, <1>7, <2>1 DEF Precedes
  <1>8. (page - 1) * PageSize \in Int /\ page * PageSize \in Int
    BY PageAssumption DEF TypeOK
  <1>9. /\ Precedes(items, listed, (page - 1) * PageSize)
             => Precedes(items, listed', (page - 1) * PageSize)
        /\ Precedes(body.data, listed, page * PageSize)
             => Precedes(body.data, listed', page * PageSize)
    BY <1>7, <1>8
  <1>10. QED
    BY <1>1, <1>6, <1>9 DEF OrderInv, Increasing, AtMost, Precedes

LEMMA OrderNext == TypeOK /\ OrderInv /\ [Next]_vars => OrderInv'
  <1> SUFFICES ASSUME TypeOK, OrderInv, [Next]_vars PROVE OrderInv'
    OBVIOUS
  <1>1. CASE Begin
    BY <1>1 DEF Begin, history, OrderInv, Increasing, AtMost, Precedes
  <1>2. CASE Fail
    <2>1. items' = <<>> /\ Len(<<>>) = 0
      BY <1>2 DEF Fail
    <2>2. QED
      BY <1>2, <2>1 DEF Fail, history, OrderInv, Increasing, AtMost, Precedes
  <1>3. CASE UNCHANGED vars
    BY <1>3 DEF vars, history, OrderInv, Increasing, AtMost, Precedes
  <1>4. QED
    BY <1>1, <1>2, <1>3, AnswerOrder, ReceiveOrder, AddOrder, RemoveOrder DEF Next

\* Nobody's additions behind, nor any removals, make the export list an item twice
\* (export.py:119-121).
THEOREM NothingTwice == Spec => []NoDuplicates
  <1>1. TypeOK /\ OrderInv => NoDuplicates
    <2> SUFFICES ASSUME TypeOK, Increasing(items) PROVE \A i, j \in DOMAIN items : items[i] = items[j] => i = j
      BY DEF OrderInv, NoDuplicates
    <2>1. /\ DOMAIN items = 1..Len(items) /\ Len(items) \in Nat
          /\ \A i \in 1..Len(items) : items[i] \in Nat
      BY ItemsTyped, LenProperties DEF TypeOK
    <2>2. QED
      BY <2>1 DEF Increasing
  <1>2. QED
    BY <1>1, TypeInit, TypeNext, OrderInit, OrderNext, PTL DEF Spec

-----------------------------------------------------------------------------
(* The loss is bounded.                                                    *)

\* Of the first n items ever listed, those that l has at its first k places, and got lacks.
Missed(l, n, k, got) ==
  {x \in 1..n : x \notin got /\ \E j \in 1..Len(l) : j <= k /\ l[j] = x}

Got == ToSet(items) \cup ToSet(body.data)

\* Behind the pages that were fetched, no more is missed than was removed; an answer that
\* ends the paging covered all that was listed.
LossInv ==
  "malformed" \notin disturbed =>
    /\ pc \in {"idle", "requesting"} =>
         Cardinality(Missed(listed, initial, (page - 1) * PageSize, ToSet(items))) <= removed
    /\ pc = "answered" =>
         /\ body.list
         /\ Cardinality(Missed(listed, initial, page * PageSize, Got)) <= removed
         /\ body.data = <<>> \/ LastPage(body, page) =>
              Cardinality(Missed(listed, initial, Len(listed), Got)) <= removed
    /\ Complete => Cardinality(Missed(listed, initial, Len(listed), ToSet(items))) <= removed

LEMMA MissedFinite ==
  ASSUME NEW l, NEW n \in Nat, NEW k, NEW got
  PROVE  /\ IsFiniteSet(Missed(l, n, k, got)) /\ Cardinality(Missed(l, n, k, got)) \in Nat
  <1>1. IsFiniteSet(1..n)
    BY FS_Interval
  <1>2. Missed(l, n, k, got) \subseteq 1..n
    BY DEF Missed
  <1>3. QED
    BY <1>1, <1>2, FS_Subset, FS_CardinalityType

LEMMA MissedLess ==
  ASSUME NEW A, NEW l, NEW n \in Nat, NEW k, NEW got, A \subseteq Missed(l, n, k, got),
         NEW r \in Nat, Cardinality(Missed(l, n, k, got)) <= r
  PROVE  Cardinality(A) <= r
  <1>1. Cardinality(A) <= Cardinality(Missed(l, n, k, got)) /\ IsFiniteSet(A)
    BY MissedFinite, FS_Subset
  <1>2. Cardinality(A) \in Nat /\ Cardinality(Missed(l, n, k, got)) \in Nat
    BY <1>1, MissedFinite, FS_CardinalityType
  <1>3. QED
    BY <1>1, <1>2

LEMMA MissedOneMore ==
  ASSUME NEW A, NEW x, NEW l, NEW n \in Nat, NEW k, NEW got,
         A \subseteq Missed(l, n, k, got) \cup {x},
         NEW r \in Nat, Cardinality(Missed(l, n, k, got)) <= r
  PROVE  Cardinality(A) <= r + 1
  <1> DEFINE M == Missed(l, n, k, got)
  <1>1. IsFiniteSet(M) /\ Cardinality(M) \in Nat
    BY MissedFinite
  <1>2. /\ IsFiniteSet(M \cup {x})
        /\ Cardinality(M \cup {x}) = Cardinality(M) \/ Cardinality(M \cup {x}) = Cardinality(M) + 1
    BY <1>1, FS_AddElement
  <1>3. IsFiniteSet(A) /\ Cardinality(A) <= Cardinality(M \cup {x})
    BY <1>2, FS_Subset
  <1>4. Cardinality(A) \in Nat
    BY <1>3, FS_CardinalityType
  <1>5. QED
    BY <1>1, <1>2, <1>3, <1>4

\* As many pages as are counted hold the whole list.
LEMMA PageCountCovers ==
  ASSUME NEW l \in Seq(Item), NEW p \in Nat \ {0}, p >= PageCount(l)
  PROVE  PageCount(l) \in Nat /\ Len(l) <= p * PageSize
  <1>1. Len(l) \in Nat /\ PageSize \in Nat \ {0}
    BY LenProperties, PageAssumption
  <1>2. PICK s \in Nat : s = Len(l) + PageSize - 1
    <2>1. Len(l) + PageSize - 1 \in Nat
      BY <1>1
    <2>2. QED
      BY <2>1
  <1>3. PICK c : c = s \div PageSize
    OBVIOUS
  <1>4. c = PageCount(l)
    BY <1>2, <1>3 DEF PageCount
  <1>5. c \in Nat /\ c * PageSize + PageSize > s
    BY <1>1, <1>2, <1>3
  <1>6. c * PageSize <= p * PageSize
    BY <1>1, <1>4, <1>5
  <1>7. c * PageSize \in Nat /\ p * PageSize \in Nat
    BY <1>1, <1>5
  <1>8. QED
    BY <1>1, <1>2, <1>4, <1>5, <1>6, <1>7

LEMMA LossInit == Init => LossInv
  <1> SUFFICES ASSUME Init PROVE LossInv
    OBVIOUS
  <1>1. (page - 1) * PageSize = 0
    <2>1. page - 1 = 0
      BY DEF Init
    <2>2. QED
      BY <2>1, PageAssumption
  <1>2. Missed(listed, initial, 0, ToSet(items)) = {}
    <2>1. Len(listed) \in Nat
      BY TypeInit, ItemsTyped DEF TypeOK
    <2>2. QED
      BY <2>1 DEF Missed
  <1>3. Cardinality({}) = 0
    BY FS_EmptySet
  <1>4. Cardinality(Missed(listed, initial, (page - 1) * PageSize, ToSet(items))) = 0
    BY <1>1, <1>2, <1>3
  <1>5. pc = "idle" /\ removed = 0
    BY DEF Init
  <1>6. QED
    BY <1>4, <1>5 DEF LossInv, Complete

LEMMA AnswerLoss ==
  ASSUME TypeOK, LossInv, Answer
  PROVE  LossInv'
  <1> SUFFICES ASSUME "malformed" \notin disturbed' PROVE LossInv'
    BY DEF LossInv
  <1>1. PICK list \in BOOLEAN, counted \in BOOLEAN :
          /\ body' = [data  |-> PageOf(listed, page), list |-> list,
                      total |-> IF counted THEN PageCount(listed) ELSE 0]
          /\ disturbed' = IF list /\ (counted \/ ~counters) THEN disturbed
                          ELSE disturbed \cup {"malformed"}
    BY DEF Answer
  <1>2. list /\ (counted \/ ~counters) /\ "malformed" \notin disturbed
    BY <1>1
  <1>3. /\ pc = "requesting" /\ pc' = "answered"
        /\ UNCHANGED <<counters, listed, page, items, initial, removed>>
    BY DEF Answer
  <1>4. /\ listed \in Seq(Item) /\ page \in Nat \ {0} /\ initial \in Nat /\ removed \in Nat
        /\ Len(listed) \in Nat
    BY LengthsAssumption, PageAssumption, LenProperties DEF TypeOK
  <1>5. PICK k \in Nat : k = (page - 1) * PageSize
    BY <1>4, PageShape
  <1>6. PICK d \in Seq(Item) : d = PageOf(listed, page)
    BY <1>4, PageShape
  <1>7. PICK e \in Nat : e = page * PageSize /\ e = k + PageSize
    BY <1>4, <1>5, PageShape, PageAssumption
  <1>8. \A j \in 1..Len(listed) : k < j /\ j <= e => j - k \in 1..Len(d) /\ d[j - k] = listed[j]
    <2>1. \A j \in 1..Len(listed) : k < j /\ j <= page * PageSize =>
            j - k \in 1..Len(d) /\ d[j - k] = listed[j]
      BY <1>4, <1>5, <1>6, PageShape
    <2>2. QED
      BY <1>7, <2>1
  <1>9. DOMAIN d = 1..Len(d)
    BY LenProperties
  <1>10. PICK g : g = ToSet(items) \cup ToSet(d)
    OBVIOUS
  <1>11. Missed(listed, initial, e, g) \subseteq Missed(listed, initial, k, ToSet(items))
    <2> SUFFICES ASSUME NEW x \in Missed(listed, initial, e, g)
                 PROVE  x \in Missed(listed, initial, k, ToSet(items))
      OBVIOUS
    <2>1. PICK j \in 1..Len(listed) : j <= e /\ listed[j] = x
      BY DEF Missed
    <2>2. x \in 1..initial /\ x \notin ToSet(items) /\ x \notin ToSet(d)
      BY <1>10 DEF Missed
    <2>3. j <= k
      <3>1. k < j => x \in ToSet(d)
        BY <1>8, <1>9, <2>1 DEF ToSet
      <3>2. QED
        BY <1>4, <2>1, <2>2, <3>1
    <2>4. QED
      BY <2>1, <2>2, <2>3 DEF Missed
  <1>12. Cardinality(Missed(listed, initial, k, ToSet(items))) <= removed
    BY <1>2, <1>3, <1>5 DEF LossInv
  <1>13. Cardinality(Missed(listed, initial, e, g)) <= removed
    BY <1>4, <1>11, <1>12, MissedLess
  <1>14. d = <<>> \/ LastPage(body', page) => Len(listed) <= e
    <2>1. CASE d = <<>>
      <3>1. Len(d) = 0
        BY <2>1
      <3>2. Len(listed) <= k
        BY <1>4, <1>7, <1>8, <3>1, PageAssumption
      <3>3. QED
        BY <1>4, <1>7, <3>2, PageAssumption
    <2>2. CASE LastPage(body', page)
      <3>1. counters /\ body'.total = PageCount(listed)
        BY <1>1, <1>2, <2>2 DEF LastPage
      <3>2. PageCount(listed) \in Nat
        BY <1>4, PageAssumption DEF PageCount
      <3>3. page >= PageCount(listed)
        BY <1>4, <2>2, <3>1, <3>2 DEF LastPage
      <3>4. QED
        BY <1>4, <1>7, <3>3, PageCountCovers
    <2>3. QED
      BY <2>1, <2>2
  <1>15. Len(listed) <= e => Cardinality(Missed(listed, initial, Len(listed), g)) <= removed
    <2> SUFFICES ASSUME Len(listed) <= e
                 PROVE  Cardinality(Missed(listed, initial, Len(listed), g)) <= removed
      OBVIOUS
    <2>1. Missed(listed, initial, Len(listed), g) \subseteq Missed(listed, initial, e, g)
      BY <1>4 DEF Missed
    <2>2. QED
      BY <1>4, <1>13, <2>1, MissedLess
  <1>16. Got' = g /\ body'.data = d /\ body'.list
    BY <1>1, <1>2, <1>3, <1>6, <1>10 DEF Got
  <1>17. QED
    <2>1. pc' = "answered" /\ body'.list
      BY <1>3, <1>16
    <2>2. (Cardinality(Missed(listed, initial, page * PageSize, Got)) <= removed)'
      BY <1>3, <1>7, <1>13, <1>16
    <2>3. (body.data = <<>> \/ LastPage(body, page))' => d = <<>> \/ LastPage(body', page)
      BY <1>3, <1>16 DEF LastPage
    <2>4. (body.data = <<>> \/ LastPage(body, page) =>
              Cardinality(Missed(listed, initial, Len(listed), Got)) <= removed)'
      BY <1>3, <1>14, <1>15, <1>16, <2>3
    <2>5. QED
      BY <2>1, <2>2, <2>4 DEF LossInv, Complete

LEMMA ReceiveLoss ==
  ASSUME TypeOK, LossInv, Receive
  PROVE  LossInv'
  <1> SUFFICES ASSUME "malformed" \notin disturbed' PROVE LossInv'
    BY DEF LossInv
  <1>1. /\ pc = "answered" /\ pc' \in {"done", "requesting"} /\ "malformed" \notin disturbed
        /\ UNCHANGED <<counters, listed, initial, removed>>
    BY ReceiveShape
  <1>2. /\ body.list
        /\ Cardinality(Missed(listed, initial, page * PageSize, Got)) <= removed
        /\ body.data = <<>> \/ LastPage(body, page) =>
             Cardinality(Missed(listed, initial, Len(listed), Got)) <= removed
    BY <1>1 DEF LossInv
  <1>3. items \in Seq(Item) /\ body.data \in Seq(Item) /\ page \in Nat \ {0}
    BY PageAssumption DEF TypeOK, Body
  <1>4. ToSet(items') = Got
    <2>1. items' = items \o body.data
      BY <1>2, ReceiveShape
    <2>2. PICK d \in Seq(Item) : d = body.data
      BY <1>3
    <2>3. /\ Len(items) \in Nat /\ Len(d) \in Nat
          /\ DOMAIN items = 1..Len(items) /\ DOMAIN d = 1..Len(d)
      BY <1>3, <2>2, LenProperties
    <2>4. PICK t : t = items \o d
      OBVIOUS
    <2>5. /\ DOMAIN t = 1..(Len(items) + Len(d))
          /\ \A i \in 1..(Len(items) + Len(d)) :
               t[i] = IF i <= Len(items) THEN items[i] ELSE d[i - Len(items)]
      <3>1. t \in Seq(Item) /\ Len(t) = Len(items) + Len(d)
        BY <1>3, <2>2, <2>4, ConcatProperties
      <3>2. DOMAIN t = 1..Len(t)
        BY <3>1, LenProperties
      <3>3. QED
        BY <1>3, <2>2, <2>4, <3>1, <3>2, ConcatProperties
    <2>6. ASSUME NEW x \in ToSet(t) PROVE x \in ToSet(items) \cup ToSet(d)
      <3>1. PICK i \in 1..(Len(items) + Len(d)) : x = t[i]
        BY <2>5 DEF ToSet
      <3>2. CASE i <= Len(items)
        BY <2>3, <2>5, <3>1, <3>2 DEF ToSet
      <3>3. CASE ~(i <= Len(items))
        <4>1. i - Len(items) \in 1..Len(d)
          BY <2>3, <3>3
        <4>2. QED
          BY <2>3, <2>5, <3>1, <3>3, <4>1 DEF ToSet
      <3>4. QED
        BY <3>2, <3>3
    <2>7. ASSUME NEW x \in ToSet(items) PROVE x \in ToSet(t)
      <3>1. PICK i \in 1..Len(items) : x = items[i]
        BY <2>3 DEF ToSet
      <3>2. i \in 1..(Len(items) + Len(d)) /\ t[i] = x
        BY <2>3, <2>5, <3>1
      <3>3. QED
        BY <2>5, <3>2 DEF ToSet
    <2>8. ASSUME NEW x \in ToSet(d) PROVE x \in ToSet(t)
      <3>1. PICK i \in 1..Len(d) : x = d[i]
        BY <2>3 DEF ToSet
      <3>2. /\ Len(items) + i \in 1..(Len(items) + Len(d)) /\ ~(Len(items) + i <= Len(items))
            /\ Len(items) + i - Len(items) = i
        BY <2>3
      <3>3. t[Len(items) + i] = x
        BY <2>5, <3>1, <3>2
      <3>4. QED
        BY <2>5, <3>2, <3>3 DEF ToSet
    <2>9. QED
      BY <2>1, <2>2, <2>4, <2>6, <2>7, <2>8 DEF Got
  <1>5. CASE pc' = "requesting"
    <2>1. page' - 1 = page
      BY <1>3, <1>5, ReceiveShape
    <2>2. PICK q : q = page' - 1
      OBVIOUS
    <2>3. q * PageSize = page * PageSize
      BY <2>1, <2>2
    <2>4. Cardinality(Missed(listed, initial, q * PageSize, ToSet(items'))) <= removed
      BY <1>2, <1>4, <2>3
    <2>5. (Cardinality(Missed(listed, initial, (page - 1) * PageSize, ToSet(items))) <= removed)'
      BY <1>1, <2>2, <2>4 DEF ToSet
    <2>6. QED
      BY <1>5, <2>5 DEF LossInv, Complete
  <1>6. CASE pc' = "done"
    <2>1. ~truncated' => body.data = <<>> \/ LastPage(body, page)
      BY <1>6, ReceiveShape
    <2>2. ~truncated' => (Cardinality(Missed(listed, initial, Len(listed), ToSet(items))) <= removed)'
      BY <1>1, <1>2, <1>4, <2>1 DEF ToSet
    <2>3. QED
      BY <1>6, <2>2 DEF LossInv, Complete
  <1>7. QED
    BY <1>1, <1>5, <1>6

\* While an item is added or removed, a page is asked for or on its way.
LEMMA ChangeLoss ==
  ASSUME TypeOK, LossInv, UNCHANGED <<counters, pc, page, body, items, truncated, initial>>,
         pc \in {"requesting", "answered"}, "malformed" \notin disturbed,
         \A k \in Int : \A got : Cardinality(Missed(listed, initial, k, got)) <= removed =>
           Cardinality(Missed(listed', initial, k, got)) <= removed',
         \A got : Cardinality(Missed(listed, initial, Len(listed), got)) <= removed =>
           Cardinality(Missed(listed', initial, Len(listed'), got)) <= removed'
  PROVE  LossInv'
  <1>1. (page - 1) * PageSize \in Int /\ page * PageSize \in Int
    BY PageAssumption DEF TypeOK
  <1>2. Got' = Got /\ ToSet(items)' = ToSet(items)
    BY DEF Got, ToSet
  <1>3. pc = "requesting" =>
          (Cardinality(Missed(listed, initial, (page - 1) * PageSize, ToSet(items))) <= removed)'
    BY <1>1, <1>2 DEF LossInv
  <1>4. pc = "answered" =>
          (Cardinality(Missed(listed, initial, page * PageSize, Got)) <= removed)'
    BY <1>1, <1>2 DEF LossInv
  <1>5. pc = "answered" =>
          (body.data = <<>> \/ LastPage(body, page) =>
             Cardinality(Missed(listed, initial, Len(listed), Got)) <= removed)'
    BY <1>2 DEF LossInv, LastPage
  <1>6. pc = "answered" => body'.list
    BY DEF LossInv
  <1>7. QED
    BY <1>3, <1>4, <1>5, <1>6 DEF LossInv, Complete

LEMMA AddLoss ==
  ASSUME TypeOK, LossInv, AddItem
  PROVE  LossInv'
  <1> SUFFICES ASSUME "malformed" \notin disturbed' PROVE LossInv'
    BY DEF LossInv
  <1>1. /\ pc \in {"requesting", "answered"} /\ "malformed" \notin disturbed
        /\ UNCHANGED <<counters, pc, page, body, items, truncated, initial, removed>>
        /\ Len(listed') = Len(listed) + 1
    BY AddShape
  <1>2. /\ initial \in Nat /\ added \in Nat /\ removed \in Nat /\ Len(listed) \in Nat
    BY LengthsAssumption, LenProperties DEF TypeOK
  <1>3. ASSUME NEW j \in 1..Len(listed'), listed'[j] \in 1..initial
        PROVE  \E i \in 1..Len(listed) : i <= j /\ listed[i] = listed'[j]
    <2>1. CASE /\ \A i \in 1..Len(listed) : listed'[i] = listed[i]
               /\ listed'[Len(listed) + 1] = initial + added + 1
      <3>1. j \in 1..Len(listed)
        BY <1>1, <1>2, <1>3, <2>1
      <3>2. QED
        BY <1>2, <2>1, <3>1
    <2>2. CASE /\ \A i \in 2..(Len(listed) + 1) : listed'[i] = listed[i - 1]
               /\ listed'[1] = initial + added + 1
      <3>1. j - 1 \in 1..Len(listed) /\ j - 1 <= j /\ j \in 2..(Len(listed) + 1)
        BY <1>1, <1>2, <1>3, <2>2
      <3>2. QED
        BY <2>2, <3>1
    <2>3. QED
      BY <2>1, <2>2, AddShape
  <1>4. ASSUME NEW k \in Int, NEW got
        PROVE  Missed(listed', initial, k, got) \subseteq Missed(listed, initial, k, got)
    BY <1>1, <1>2, <1>3 DEF Missed
  <1>5. ASSUME NEW got
        PROVE  Missed(listed', initial, Len(listed'), got)
                 \subseteq Missed(listed, initial, Len(listed), got)
    BY <1>1, <1>2, <1>3 DEF Missed
  <1>6. \A k \in Int : \A got : Cardinality(Missed(listed, initial, k, got)) <= removed =>
          Cardinality(Missed(listed', initial, k, got)) <= removed'
    BY <1>1, <1>2, <1>4, MissedLess
  <1>7. \A got : Cardinality(Missed(listed, initial, Len(listed), got)) <= removed =>
          Cardinality(Missed(listed', initial, Len(listed'), got)) <= removed'
    BY <1>1, <1>2, <1>5, MissedLess
  <1>8. QED
    BY <1>1, <1>6, <1>7, ChangeLoss

LEMMA RemoveLoss ==
  ASSUME TypeOK, LossInv, RemoveItem
  PROVE  LossInv'
  <1> SUFFICES ASSUME "malformed" \notin disturbed' PROVE LossInv'
    BY DEF LossInv
  <1>1. /\ pc \in {"requesting", "answered"} /\ "malformed" \notin disturbed
        /\ UNCHANGED <<counters, pc, page, body, items, truncated, initial>>
        /\ Len(listed') = Len(listed) - 1 /\ removed' = removed + 1
    BY RemoveShape
  <1>2. /\ initial \in Nat /\ removed \in Nat /\ Len(listed) \in Nat
    BY LengthsAssumption, LenProperties DEF TypeOK
  <1>3. ASSUME NEW j \in 1..Len(listed')
        PROVE  \E i \in 1..Len(listed) : (i = j \/ i = j + 1) /\ listed[i] = listed'[j]
    <2>1. PICK i \in 1..Len(listed) :
            \A h \in 1..Len(listed') : listed'[h] = IF h < i THEN listed[h] ELSE listed[h + 1]
      BY RemoveShape
    <2>2. j \in 1..Len(listed) /\ j + 1 \in 1..Len(listed)
      BY <1>1, <1>2
    <2>3. QED
      BY <2>1, <2>2
  <1>4. ASSUME NEW k \in Int, NEW got
        PROVE  Missed(listed', initial, k, got)
                 \subseteq Missed(listed, initial, k, got) \cup {listed[k + 1]}
    <2> SUFFICES ASSUME NEW x \in Missed(listed', initial, k, got), x # listed[k + 1]
                 PROVE  x \in Missed(listed, initial, k, got)
      OBVIOUS
    <2>1. PICK j \in 1..Len(listed') : j <= k /\ listed'[j] = x
      BY DEF Missed
    <2>2. PICK i \in 1..Len(listed) : (i = j \/ i = j + 1) /\ listed[i] = x
      BY <1>3, <2>1
    <2>3. i <= k
      <3>1. i # k + 1
        BY <2>2
      <3>2. QED
        BY <1>1, <1>2, <2>1, <2>2, <3>1
    <2>4. QED
      BY <2>2, <2>3 DEF Missed
  <1>5. ASSUME NEW got
        PROVE  Missed(listed', initial, Len(listed'), got)
                 \subseteq Missed(listed, initial, Len(listed), got)
    BY <1>1, <1>2, <1>3 DEF Missed
  <1>6. \A k \in Int : \A got : Cardinality(Missed(listed, initial, k, got)) <= removed =>
          Cardinality(Missed(listed', initial, k, got)) <= removed'
    BY <1>1, <1>2, <1>4, MissedOneMore
  <1>7. \A got : Cardinality(Missed(listed, initial, Len(listed), got)) <= removed =>
          Cardinality(Missed(listed', initial, Len(listed'), got)) <= removed'
    <2> SUFFICES ASSUME NEW got,
                        Cardinality(Missed(listed, initial, Len(listed), got)) <= removed
                 PROVE  Cardinality(Missed(listed', initial, Len(listed'), got)) <= removed'
      OBVIOUS
    <2>1. Cardinality(Missed(listed', initial, Len(listed'), got)) <= removed
      BY <1>2, <1>5, MissedLess
    <2>2. Cardinality(Missed(listed', initial, Len(listed'), got)) \in Nat
      BY <1>2, MissedFinite
    <2>3. QED
      BY <1>1, <1>2, <2>1, <2>2
  <1>8. QED
    BY <1>1, <1>6, <1>7, ChangeLoss

LEMMA LossNext == TypeOK /\ LossInv /\ [Next]_vars => LossInv'
  <1> SUFFICES ASSUME TypeOK, LossInv, [Next]_vars PROVE LossInv'
    OBVIOUS
  <1>1. CASE Begin
    <2>1. pc = "idle" /\ pc' = "requesting"
          /\ UNCHANGED <<listed, page, items, initial, removed, disturbed>>
      BY <1>1 DEF Begin, history
    <2>2. QED
      BY <2>1 DEF LossInv, Complete, ToSet
  <1>2. CASE Fail
    BY <1>2 DEF Fail, history, LossInv, Complete
  <1>3. CASE UNCHANGED vars
    BY <1>3 DEF vars, history, LossInv, Complete, LastPage, Got, ToSet
  <1>4. QED
    BY <1>1, <1>2, <1>3, AnswerLoss, ReceiveLoss, AddLoss, RemoveLoss DEF Next

\* A complete export misses no more of what was listed when it began, and still is, than
\* was removed meanwhile, for any list, page size and changes (export.py:108-134).
THEOREM LossIsBounded == Spec => []LossBoundedByRemovals
  <1>1. TypeOK /\ LossInv => LossBoundedByRemovals
    <2> SUFFICES ASSUME TypeOK, LossInv, Complete, "malformed" \notin disturbed
                 PROVE  Cardinality(Survivors \ ToSet(items)) <= removed
      BY DEF LossBoundedByRemovals
    <2>1. /\ DOMAIN listed = 1..Len(listed) /\ Len(listed) \in Nat
          /\ \A j \in 1..Len(listed) : listed[j] \in Nat /\ listed[j] # 0
          /\ initial \in Nat /\ removed \in Nat
      BY ItemsTyped, LenProperties, LengthsAssumption DEF TypeOK
    <2>2. Survivors \ ToSet(items) \subseteq Missed(listed, initial, Len(listed), ToSet(items))
      <3> SUFFICES ASSUME NEW x \in Survivors \ ToSet(items)
                   PROVE  x \in Missed(listed, initial, Len(listed), ToSet(items))
        OBVIOUS
      <3>1. PICK j \in 1..Len(listed) : listed[j] = x
        BY <2>1 DEF Survivors, ToSet
      <3>2. x <= initial /\ x \notin ToSet(items) /\ x \in Nat /\ x # 0
        BY <2>1, <3>1 DEF Survivors
      <3>3. x \in 1..initial /\ j <= Len(listed)
        BY <2>1, <3>2
      <3>4. QED
        BY <3>1, <3>2, <3>3 DEF Missed
    <2>3. QED
      BY <2>1, <2>2, MissedLess DEF LossInv
  <1>2. QED
    BY <1>1, TypeInit, TypeNext, LossInit, LossNext, PTL DEF Spec

-----------------------------------------------------------------------------
(* A collection that nobody touches is exported as it is.                  *)

Quiet == disturbed = {} /\ added + removed = 0

\* The list's first pages.
Pages(l, n) == SubSeq(l, 1, Least(n * PageSize, Len(l)))

QuietInv ==
  Quiet =>
    /\ pc \in {"idle", "requesting", "answered"} => items = Pages(listed, page - 1)
    /\ pc = "answered" =>
         /\ body.list /\ body.data = PageOf(listed, page)
         /\ body.data = <<>> \/ LastPage(body, page) => Len(listed) <= page * PageSize
    /\ pc = "done" => items = Pages(listed, MaxPages)

\* The next page goes on where the pages before it end.
LEMMA PagesGoOn ==
  ASSUME NEW l \in Seq(Item), NEW p \in Nat \ {0}
  PROVE  Pages(l, p - 1) \o PageOf(l, p) = Pages(l, p)
  <1>1. PICK k \in Nat : k = (p - 1) * PageSize /\ p * PageSize = k + PageSize
    BY PageShape
  <1>2. PageSize \in Nat \ {0} /\ Len(l) \in Nat
    BY PageAssumption, LenProperties
  <1>3. Pages(l, p - 1) = SubSeq(l, 1, Least(k, Len(l)))
    BY <1>1 DEF Pages
  <1>4. PICK e \in Nat : e = p * PageSize /\ e = k + PageSize
    BY <1>1, <1>2
  <1>5. Pages(l, p) = SubSeq(l, 1, Least(e, Len(l)))
    BY <1>4 DEF Pages
  <1>6. PageOf(l, p) = SubSeq(l, k + 1, Least(e, Len(l)))
    BY <1>1, <1>4 DEF PageOf
  <1>7. CASE k <= Len(l)
    <2>1. Least(k, Len(l)) = k
      BY <1>1, <1>2, <1>7 DEF Least
    <2>2. PICK n : n = Least(e, Len(l))
      OBVIOUS
    <2>3. n \in k..Len(l) /\ k \in 0..Len(l)
      BY <1>1, <1>2, <1>4, <1>7, <2>2 DEF Least
    <2>4. SubSeq(l, 1, k) \o SubSeq(l, k + 1, n) = SubSeq(l, 1, n)
      <3>1. 1 \in 1..(Len(l) + 1) /\ k \in (1 - 1)..Len(l)
        BY <1>2, <2>3
      <3>2. QED
        BY <2>3, <3>1, ConcatAdjacentSubSeq
    <2>5. QED
      BY <1>3, <1>5, <1>6, <2>1, <2>2, <2>4
  <1>8. CASE ~(k <= Len(l))
    <2>1. Least(k, Len(l)) = Len(l) /\ Least(e, Len(l)) = Len(l)
      BY <1>1, <1>2, <1>4, <1>8 DEF Least
    <2>2. SubSeq(l, k + 1, Len(l)) = <<>>
      BY <1>1, <1>2, <1>8, SubSeqEmpty
    <2>3. SubSeq(l, 1, Len(l)) = l /\ l \o <<>> = l
      BY SubSeqFull, ConcatEmptySeq
    <2>4. QED
      BY <1>3, <1>5, <1>6, <2>1, <2>2, <2>3
  <1>9. QED
    BY <1>7, <1>8

LEMMA QuietInit == Init => QuietInv
  <1> SUFFICES ASSUME Init PROVE items = Pages(listed, page - 1) /\ pc = "idle"
    BY DEF QuietInv
  <1>1. listed \in Seq(Item) /\ Len(listed) \in Nat
    BY TypeInit, ItemsTyped DEF TypeOK
  <1>2. (page - 1) * PageSize = 0
    <2>1. page - 1 = 0
      BY DEF Init
    <2>2. QED
      BY <2>1, PageAssumption
  <1>3. Least(0, Len(listed)) = 0
    BY <1>1 DEF Least
  <1>4. SubSeq(listed, 1, 0) = <<>>
    BY SubSeqEmpty
  <1>5. QED
    BY <1>2, <1>3, <1>4 DEF Init, Pages

LEMMA AnswerQuiet ==
  ASSUME TypeOK, QuietInv, Answer
  PROVE  QuietInv'
  <1> SUFFICES ASSUME Quiet' PROVE QuietInv'
    BY DEF QuietInv
  <1>1. PICK list \in BOOLEAN, counted \in BOOLEAN :
          /\ body' = [data  |-> PageOf(listed, page), list |-> list,
                      total |-> IF counted THEN PageCount(listed) ELSE 0]
          /\ disturbed' = IF list /\ (counted \/ ~counters) THEN disturbed
                          ELSE disturbed \cup {"malformed"}
    BY DEF Answer
  <1>2. /\ pc = "requesting" /\ pc' = "answered"
        /\ UNCHANGED <<counters, listed, page, items, added, removed>>
    BY DEF Answer
  <1>3. list /\ (counted \/ ~counters) /\ Quiet
    BY <1>1, <1>2 DEF Quiet
  <1>4. /\ listed \in Seq(Item) /\ page \in Nat \ {0} /\ Len(listed) \in Nat
    BY PageAssumption, LenProperties DEF TypeOK
  <1>5. PICK d \in Seq(Item) : d = PageOf(listed, page)
    BY <1>4, PageShape
  <1>6. body'.data = d /\ body'.list
    BY <1>1, <1>3, <1>5
  <1>7. d = <<>> => Len(listed) <= page * PageSize
    <2> SUFFICES ASSUME d = <<>>, ~(Len(listed) <= page * PageSize) PROVE FALSE
      BY DEF Quiet
    <2>1. PICK k \in Nat : k = (page - 1) * PageSize /\ page * PageSize = k + PageSize
      BY <1>4, PageShape
    <2>2. k + 1 \in 1..Len(listed) /\ k < k + 1 /\ k + 1 <= page * PageSize
      BY <1>4, <2>1, PageAssumption
    <2>3. k + 1 - k \in 1..Len(d)
      BY <1>4, <1>5, <2>1, <2>2, PageShape
    <2>4. QED
      BY <2>1, <2>3
  <1>8. LastPage(body, page)' => Len(listed) <= page * PageSize
    <2> SUFFICES ASSUME LastPage(body, page)' PROVE Len(listed) <= page * PageSize
      OBVIOUS
    <2>1. counters /\ body'.total = PageCount(listed)
      BY <1>1, <1>2, <1>3 DEF LastPage
    <2>2. PageCount(listed) \in Nat
      BY <1>4, PageAssumption DEF PageCount
    <2>3. page >= PageCount(listed)
      BY <1>2, <1>4, <2>1, <2>2 DEF LastPage
    <2>4. QED
      BY <1>4, <2>3, PageCountCovers
  <1>9. items = Pages(listed, page - 1)
    BY <1>2, <1>3 DEF QuietInv
  <1>10. QED
    BY <1>2, <1>5, <1>6, <1>7, <1>8, <1>9 DEF QuietInv, Pages, PageOf

LEMMA ReceiveQuiet ==
  ASSUME TypeOK, QuietInv, Receive
  PROVE  QuietInv'
  <1> SUFFICES ASSUME Quiet' PROVE QuietInv'
    BY DEF QuietInv
  <1>1. /\ pc = "answered" /\ pc' \in {"done", "requesting"}
        /\ UNCHANGED <<listed, added, removed, disturbed>>
    BY ReceiveShape
  <1>2. Quiet
    BY <1>1 DEF Quiet
  <1>3. /\ listed \in Seq(Item) /\ page \in Nat \ {0} /\ page <= MaxPages /\ Len(listed) \in Nat
        /\ MaxPages \in Nat /\ PageSize \in Nat
    BY PageAssumption, LenProperties DEF TypeOK
  <1>4. items' = Pages(listed, page)
    BY <1>1, <1>2, <1>3, ReceiveShape, PagesGoOn DEF QuietInv
  <1>5. CASE pc' = "requesting"
    <2>1. page' - 1 = page
      BY <1>3, <1>5, ReceiveShape
    <2>2. items' = Pages(listed, page' - 1)
      BY <1>4, <2>1
    <2>3. QED
      BY <1>1, <1>5, <2>2 DEF QuietInv, Pages
  <1>6. CASE pc' = "done"
    <2>1. Len(listed) <= page * PageSize \/ page = MaxPages
      BY <1>1, <1>2, <1>6, ReceiveShape DEF QuietInv
    <2>2. items' = Pages(listed, MaxPages)
      <3>1. CASE page = MaxPages
        BY <1>4, <3>1
      <3>2. CASE Len(listed) <= page * PageSize
        <4>1. PICK e \in Nat : e = page * PageSize
          BY <1>3
        <4>2. PICK f \in Nat : f = MaxPages * PageSize
          BY <1>3
        <4>3. e <= f
          BY <1>3, <4>1, <4>2
        <4>4. Least(e, Len(listed)) = Len(listed) /\ Least(f, Len(listed)) = Len(listed)
          BY <1>3, <3>2, <4>1, <4>3 DEF Least
        <4>5. QED
          BY <1>4, <4>1, <4>2, <4>4 DEF Pages
      <3>3. QED
        BY <2>1, <3>1, <3>2
    <2>3. QED
      BY <1>1, <1>6, <2>2 DEF QuietInv, Pages
  <1>7. QED
    BY <1>1, <1>5, <1>6

LEMMA QuietNext == TypeOK /\ QuietInv /\ [Next]_vars => QuietInv'
  <1> SUFFICES ASSUME TypeOK, QuietInv, [Next]_vars, Quiet' PROVE QuietInv'
    BY DEF QuietInv
  <1>1. CASE Begin
    BY <1>1 DEF Begin, history, QuietInv, Quiet, Pages
  <1>2. CASE Fail
    BY <1>2 DEF Fail, QuietInv
  <1>3. CASE AddItem \/ RemoveItem
    <2>1. added \in Nat /\ removed \in Nat
      BY DEF TypeOK
    <2>2. added' + removed' # 0
      BY <1>3, <2>1, AddShape, RemoveShape
    <2>3. QED
      BY <2>2 DEF Quiet
  <1>4. CASE UNCHANGED vars
    BY <1>4 DEF vars, history, QuietInv, Quiet, Pages, PageOf, LastPage
  <1>5. QED
    BY <1>1, <1>2, <1>3, <1>4, AnswerQuiet, ReceiveQuiet DEF Next

\* If nobody changes the collection, the export is all of it in its order, up to max_pages
\* pages, with and without page counters (export.py:108-134).
THEOREM QuietIsExact == Spec => []ExactWhenQuiet
  <1>1. QuietInv => ExactWhenQuiet
    BY DEF QuietInv, Quiet, Pages, ExactWhenQuiet
  <1>2. QED
    BY <1>1, TypeInit, TypeNext, QuietInit, QuietNext, PTL DEF Spec
=============================================================================
