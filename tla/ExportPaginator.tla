--------------------------- MODULE ExportPaginator ---------------------------
(***************************************************************************)
(* tools/export.py: one run of the export tool.  _fetch_all asks for one   *)
(* page after another, each in a request of its own, while other clients   *)
(* of the upstream add items to the listed collection and remove some.     *)
(***************************************************************************)
EXTENDS Integers, Sequences, FiniteSets

CONSTANTS
  Lengths,    \* how many items a run may find listed when it begins
  MaxChanges, \* bound on the items added and removed while it runs
  PageSize,   \* page_size
  MaxPages    \* max_pages

ASSUME LengthsAssumption == Lengths \subseteq Nat /\ MaxChanges \in Nat
ASSUME PageAssumption == PageSize \in Nat \ {0} /\ MaxPages \in Nat \ {0}

VARIABLES
  counters,   \* whether current_page_path and total_pages_path are both configured
  listed,     \* the collection, in the order the endpoint lists it
  pc,         \* where _fetch_all is
  page,       \* the page it asks for
  body,       \* the response on its way back
  items,      \* what it has collected
  truncated,  \* whether it stopped at max_pages
  initial,    \* history: how many items were listed when the run began
  added,      \* history: how many were added since
  removed,    \* history: how many were removed since
  disturbed   \* history: whether one was added in front, a body was malformed

history == <<initial, added, removed, disturbed>>
vars == <<counters, listed, pc, page, body, items, truncated, history>>

\* Items are named by the order in which they were listed first.
Item == Nat \ {0}

ToSet(s) == {s[i] : i \in DOMAIN s}

\* A body: the list at items_path, or an object there, and the total of pages, 0 when
\* it names none.
Body == [data : Seq(Item), list : BOOLEAN, total : Nat]

NoBody == [data |-> <<>>, list |-> TRUE, total |-> 0]

TypeOK ==
  /\ counters \in BOOLEAN
  /\ listed \in Seq(Item)
  /\ pc \in {"idle", "requesting", "answered", "done", "failed"}
  /\ page \in 1..MaxPages
  /\ body \in Body
  /\ items \in Seq(Item)
  /\ truncated \in BOOLEAN
  /\ initial \in Lengths /\ added \in Nat /\ removed \in Nat
  /\ disturbed \subseteq {"prepended", "malformed"}

Init ==
  /\ counters \in BOOLEAN
  /\ initial \in Lengths
  /\ listed = [i \in 1..initial |-> i]
  /\ pc = "idle"
  /\ page = 1
  /\ body = NoBody
  /\ items = <<>>
  /\ truncated = FALSE
  /\ added = 0
  /\ removed = 0
  /\ disturbed = {}

-----------------------------------------------------------------------------
(* The upstream: pages of what is listed at the moment it answers.         *)

Least(a, b) == IF a < b THEN a ELSE b

PageOf(l, p) == SubSeq(l, (p - 1) * PageSize + 1, Least(p * PageSize, Len(l)))

PageCount(l) == (Len(l) + PageSize - 1) \div PageSize

\* A malformed body has no list at items_path, or lacks the total that is looked for.
Answer ==
  /\ pc = "requesting"
  /\ pc' = "answered"
  /\ \E list, counted \in BOOLEAN :
       /\ body' = [data  |-> PageOf(listed, page),
                   list  |-> list,
                   total |-> IF counted THEN PageCount(listed) ELSE 0]
       /\ disturbed' = IF list /\ (counted \/ ~counters) THEN disturbed
                       ELSE disturbed \cup {"malformed"}
  /\ UNCHANGED <<counters, listed, page, items, truncated, initial, added, removed>>

\* The collection changes while an export runs; an item once removed does not return.
Changed(l) ==
  /\ pc \in {"requesting", "answered"}
  /\ added + removed < MaxChanges
  /\ listed' = l
  /\ UNCHANGED <<counters, pc, page, body, items, truncated, initial>>

AddItem ==
  /\ added' = added + 1
  /\ \/ Changed(Append(listed, initial + added')) /\ UNCHANGED disturbed
     \/ Changed(<<initial + added'>> \o listed) /\ disturbed' = disturbed \cup {"prepended"}
  /\ UNCHANGED removed

RemoveItem ==
  /\ \E i \in DOMAIN listed :
       Changed(SubSeq(listed, 1, i - 1) \o SubSeq(listed, i + 1, Len(listed)))
  /\ removed' = removed + 1
  /\ UNCHANGED <<added, disturbed>>

-----------------------------------------------------------------------------
(* _fetch_all.                                                             *)

Begin ==
  /\ pc = "idle"
  /\ pc' = "requesting"
  /\ UNCHANGED <<counters, listed, page, body, items, truncated, history>>

\* Fault: stops one page short.
LastPageOffByOne(b, p) ==
  /\ counters
  /\ p + 1 >= (IF b.total = 0 THEN p ELSE b.total)

\* The current page comes from the body; a total that is missing or 0 counts as the
\* current page.
LastPage(b, p) ==
  /\ counters
  /\ p >= (IF b.total = 0 THEN p ELSE b.total)

\* Fault: max_pages is compared before the page is counted.
ReceiveOneTooMany ==
  /\ pc = "answered"
  /\ body' = NoBody
  /\ items' = IF body.list THEN items \o body.data ELSE items
  /\ \/ /\ body.data = <<>> \/ LastPage(body, page) \/ page > MaxPages
        /\ pc' = "done"
        /\ truncated' = (page > MaxPages)
        /\ UNCHANGED page
     \/ /\ body.data # <<>> /\ ~LastPage(body, page) /\ page <= MaxPages
        /\ page' = page + 1
        /\ pc' = "requesting"
        /\ UNCHANGED truncated
  /\ UNCHANGED <<counters, listed, history>>

\* Fault: the page is not advanced.
ReceiveSamePage ==
  /\ pc = "answered"
  /\ body' = NoBody
  /\ items' = IF body.list THEN items \o body.data ELSE items
  /\ pc' = IF body.data = <<>> \/ LastPage(body, page) THEN "done" ELSE "requesting"
  /\ UNCHANGED <<counters, listed, page, truncated, history>>

Receive ==
  /\ pc = "answered"
  /\ body' = NoBody
  /\ items' = IF body.list THEN items \o body.data ELSE items
  /\ \/ /\ body.data = <<>> \/ LastPage(body, page)
        /\ pc' = "done"
        /\ UNCHANGED <<page, truncated>>
     \/ /\ body.data # <<>> /\ ~LastPage(body, page)
        /\ page + 1 > MaxPages
        /\ pc' = "done"
        /\ truncated' = TRUE
        /\ UNCHANGED page
     \/ /\ body.data # <<>> /\ ~LastPage(body, page)
        /\ page + 1 <= MaxPages
        /\ page' = page + 1
        /\ pc' = "requesting"
        /\ UNCHANGED truncated
  /\ UNCHANGED <<counters, listed, history>>

\* Fault: a failed page is asked for again, without a bound.
FailRetries ==
  /\ pc \in {"requesting", "answered"}
  /\ pc' = "requesting"
  /\ body' = NoBody
  /\ UNCHANGED <<counters, listed, page, items, truncated, history>>

\* The request raised, or raise_for_status, or decoding: nothing is exported.
Fail ==
  /\ pc \in {"requesting", "answered"}
  /\ pc' = "failed"
  /\ body' = NoBody
  /\ items' = <<>>
  /\ UNCHANGED <<counters, listed, page, truncated, history>>

Next == Begin \/ Answer \/ Receive \/ Fail \/ AddItem \/ RemoveItem

Spec == Init /\ [][Next]_vars

FairSpec == Spec /\ WF_vars(Answer \/ Fail) /\ WF_vars(Receive \/ Fail)

-----------------------------------------------------------------------------
(* Properties.                                                             *)

Complete == pc = "done" /\ ~truncated

Survivors == {x \in ToSet(listed) : x <= initial}

\* The offset of a page moves with what is removed before it, so a complete export can
\* miss an item that was listed all along; but it misses at most one for each item that
\* was removed meanwhile, and none for those that were added (export.py:108-134).
LossBoundedByRemovals ==
  Complete /\ "malformed" \notin disturbed =>
    Cardinality(Survivors \ ToSet(items)) <= removed

\* An item is exported twice only if one was added before it (export.py:119-121).
NoDuplicates ==
  "prepended" \notin disturbed =>
    \A i, j \in DOMAIN items : items[i] = items[j] => i = j

\* On a collection nobody touches, an export is the whole of it in its order, or its
\* first max_pages pages, with and without page counters.
ExactWhenQuiet ==
  pc = "done" /\ disturbed = {} /\ added + removed = 0 =>
    items = SubSeq(listed, 1, Least(MaxPages * PageSize, Len(listed)))

\* An export ends, though the upstream grows, or keeps sending non-empty bodies that
\* are no list: "safety backstop against a non-converging paginator" (export.py:34).
ExportEnds == pc = "requesting" ~> pc \in {"done", "failed"}
=============================================================================
