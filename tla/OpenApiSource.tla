---------------------------- MODULE OpenApiSource ----------------------------
(***************************************************************************)
(* openapi/tool_provider.py over openapi/loader.py: construct() loads a    *)
(* modular OpenAPI document, follows its external $refs one fetch after    *)
(* another, counts its operations, strips the path prefix, names the tools *)
(* and hands the result to FastMCP.from_openapi.  The documents may be     *)
(* republished between two fetches.                                        *)
(***************************************************************************)
EXTENDS Naturals, FiniteSets, SequencesExt

CONSTANTS
  Doc,         \* the documents, by URI
  Root,        \* spec.source
  Fragment,    \* the named parts of a document
  Whole,       \* the empty fragment: all of a document
  NoPath,
  PathOrder,   \* the paths a spec may have, in the order of its "paths" object
  VerbOrder,   \* the methods a path item may have, in their order there
  Id, NoId,    \* operation ids; NoId: the operation has none, or an empty one
  Versions,    \* of each document: what may be published at its URI
  Overrides,   \* name_overrides: from pairs of a verb and a path to a tool's name, or to ""
  MaxEdits

Ref == [doc : Doc, frag : Fragment \cup {Whole}]
Path == {PathOrder[i] : i \in DOMAIN PathOrder}
Verb == {VerbOrder[i] : i \in DOMAIN VerbOrder}
Prefix == {"concrete", "templated"}   \* "/rest/v3" and "/rest/v{version}"

\* One part of a document: a $ref, whose siblings count for nothing, or an object with the
\* external $refs below it, the operations it has if it stands for a path, and the "#/..."
\* pointers below it.
Operation == [verb : Verb, id : Id \cup {NoId}]
Place == [isRef : BOOLEAN, refs : Seq(Ref), ops : SUBSET Operation, locals : SUBSET Fragment]

ASSUME RootAssumption == Root \in Doc /\ Whole \notin Fragment /\ NoPath \notin Path
ASSUME FiniteAssumption == IsFiniteSet(Doc) /\ IsFiniteSet(Fragment) /\ MaxEdits \in Nat
ASSUME PathAssumption ==
  /\ PathOrder \in Seq([prefix : Seq(Prefix), rest : STRING])
  /\ \A i, j \in DOMAIN PathOrder : PathOrder[i] = PathOrder[j] => i = j
  /\ \A i \in DOMAIN PathOrder : PathOrder[i].prefix # <<>> \/ PathOrder[i].rest # ""
ASSUME VerbAssumption ==
  /\ VerbOrder \in Seq(STRING) /\ NoId \notin Id
  /\ \A i, j \in DOMAIN VerbOrder : VerbOrder[i] = VerbOrder[j] => i = j
ASSUME VersionAssumption ==
  \A d \in Doc : \A v \in Versions[d] :
    /\ Whole \in DOMAIN v
    /\ DOMAIN v \subseteq Fragment \cup {Whole} \cup (IF d = Root THEN Path ELSE {})
    /\ \A f \in DOMAIN v :
         /\ v[f] \in Place
         /\ v[f].isRef => f # Whole /\ Len(v[f].refs) = 1 /\ v[f].ops = {}
         /\ \A o1, o2 \in v[f].ops : o1.verb = o2.verb => o1 = o2

VARIABLES
  docs,     \* what each URI serves now
  edits,
  config,   \* the profile: has it a backend, strip_path_prefix, sound route_maps?
  stage, error,
  stack,    \* the frames of _resolve_external_refs: refs still to follow, and `seen`
  found,    \* of each path of the loaded spec: its operations
  inlined,  \* the refs that were replaced by what they point to
  locals,   \* the "#/..." pointers copied into the spec, with the document they stood in
  served,   \* the paths of the spec given to from_openapi
  names     \* mcp_names: from operation ids to tools' names

vars == <<docs, edits, config, stage, error, stack, found, inlined, locals, served, names>>

None == [x \in {} |-> x]

SourceTypeOK ==
  /\ docs \in [Doc -> UNION {Versions[d] : d \in Doc}]
  /\ \A d \in Doc : docs[d] \in Versions[d]
  /\ edits \in 0..MaxEdits
  /\ config \in [client : BOOLEAN, strip : BOOLEAN, routes : BOOLEAN]
  /\ stage \in {"idle", "resolving", "loaded", "served", "failed"}
  /\ error \in {"none", "no backend", "fetch", "no paths", "circular", "fragment",
                "no operations", "route_map"}
  /\ \A i \in DOMAIN stack :
       /\ \A j \in DOMAIN stack[i].todo : stack[i].todo[j] \in [ref : Ref, path : Path \cup {NoPath}]
       /\ stack[i].seen \in Seq(Ref) /\ Len(stack[i].seen) = i - 1
  /\ Len(stack) <= Cardinality(Ref) + 1
  /\ \A p \in DOMAIN found : p \in Path /\ found[p] \subseteq Operation
  /\ inlined \subseteq Ref
  /\ locals \subseteq [doc : Doc, frag : Fragment]

Init ==
  /\ docs \in {f \in [Doc -> UNION {Versions[d] : d \in Doc}] :
                 \A d \in Doc : f[d] \in Versions[d]}
  /\ edits = 0
  /\ config \in [client : BOOLEAN, strip : BOOLEAN, routes : BOOLEAN]
  /\ stage = "idle"
  /\ error = "none"
  /\ stack = <<>>
  /\ found = None
  /\ inlined = {}
  /\ locals = {}
  /\ served = None
  /\ names = None

-----------------------------------------------------------------------------
(* The documents as parsed.                                                *)

\* A fragment is walked down from the document's top; without one, all of it is meant.
Content(d, f) ==
  IF f # Whole
    THEN docs[d][f]
    ELSE LET places == SetToSeq(DOMAIN docs[d])
         IN  [isRef  |-> FALSE,
              refs   |-> FlattenSeq([i \in DOMAIN places |-> docs[d][places[i]].refs]),
              ops    |-> docs[d][Whole].ops,
              locals |-> UNION {docs[d][g].locals : g \in DOMAIN docs[d]}]

Present(r) == r.frag \in DOMAIN docs[r.doc]

\* What is left to follow in a place.  Only a $ref that is itself the value of a path
\* decides what operations the path has.
Todo(place, path) ==
  [i \in DOMAIN place.refs |->
     [ref |-> place.refs[i], path |-> IF place.isRef THEN path ELSE NoPath]]

PathsOf(d) == DOMAIN docs[d] \cap Path

\* The refs of the root document: those of its paths, in their order, then the others.
RootTodo ==
  LET root == docs[Root]
      rest == SetToSeq(DOMAIN root \ Path)
  IN  FlattenSeq([i \in DOMAIN PathOrder |->
                    IF PathOrder[i] \in DOMAIN root THEN Todo(root[PathOrder[i]], PathOrder[i])
                                                   ELSE <<>>])
        \o FlattenSeq([i \in DOMAIN rest |-> Todo(root[rest[i]], NoPath)])

-----------------------------------------------------------------------------
(* load_spec.                                                              *)

Fail(why) ==
  /\ stage' = "failed"
  /\ error' = why
  /\ UNCHANGED <<docs, edits, config, stack, found, inlined, locals, served, names>>

\* construct() asks for a client, then the root document is fetched and parsed.
LoadSpec ==
  /\ stage = "idle"
  /\ \/ ~config.client /\ Fail("no backend")
     \/ config.client /\ Fail("fetch")
     \/ config.client /\ PathsOf(Root) = {} /\ Fail("no paths")
     \/ /\ config.client /\ PathsOf(Root) # {}
        /\ stack' = <<[todo |-> RootTodo, seen |-> <<>>]>>
        /\ found' = [p \in PathsOf(Root) |-> docs[Root][p].ops]
        /\ locals' = [doc : {Root}, frag : Content(Root, Whole).locals]
        /\ stage' = "resolving"
        /\ UNCHANGED <<docs, edits, config, error, inlined, served, names>>

Top == Last(stack)
Item == Head(Top.todo)

\* Fault: only the file of a ref is looked for in the chain.
CircularByFile == \E i \in DOMAIN Top.seen : Top.seen[i].doc = Item.ref.doc

\* Fault: only a ref to itself is noticed.
CircularToItself == Top.seen # <<>> /\ Item.ref = Last(Top.seen)

\* The cycle guard: the same file and fragment further up the chain.
Circular == Item.ref \in Range(Top.seen)

\* Fault: the ref is still there when what it points to has been resolved.
EnterAgain ==
  LET r == Item.ref
  IN  stack' = Append(stack, [todo |-> Todo(Content(r.doc, r.frag), Item.path),
                              seen |-> Append(Top.seen, r)])

\* The nested call on what the ref points to, one key further down.
Enter ==
  LET r == Item.ref
  IN  stack' = Append([stack EXCEPT ![Len(stack)].todo = Tail(@)],
                      [todo |-> Todo(Content(r.doc, r.frag), Item.path),
                       seen |-> Append(Top.seen, r)])

\* The next ref is followed: its document is fetched anew, and its part put in its place.
FollowRef ==
  /\ stage = "resolving" /\ stack # <<>> /\ Top.todo # <<>>
  /\ \/ Circular /\ Fail("circular")
     \/ ~Circular /\ Fail("fetch")
     \/ ~Circular /\ ~Present(Item.ref) /\ Fail("fragment")
     \/ /\ ~Circular /\ Present(Item.ref)
        /\ Enter
        /\ LET r == Item.ref
               c == Content(r.doc, r.frag)
           IN  /\ found' = [p \in DOMAIN found |->
                              IF p = Item.path THEN c.ops ELSE found[p]]
               /\ inlined' = inlined \cup {r}
               /\ locals' = locals \cup [doc : {r.doc}, frag : c.locals]
        /\ UNCHANGED <<docs, edits, config, stage, error, served, names>>

\* A call of _resolve_external_refs returns.
Return ==
  /\ stage = "resolving" /\ stack # <<>> /\ Top.todo = <<>>
  /\ stack' = Front(stack)
  /\ UNCHANGED <<docs, edits, config, stage, error, found, inlined, locals, served, names>>

\* The spec is resolved; one without operations is refused.
CountOperations ==
  /\ stage = "resolving" /\ stack = <<>>
  /\ \/ /\ \A p \in DOMAIN found : found[p] = {}
        /\ Fail("no operations")
     \/ /\ \E p \in DOMAIN found : found[p] # {}
        /\ stage' = "loaded"
        /\ UNCHANGED <<docs, edits, config, error, stack, found, inlined, locals, served, names>>

-----------------------------------------------------------------------------
(* construct.                                                              *)

\* The prefix is stripped once, whether its version is a number or a parameter; nothing
\* left is "/".
Normal(p) ==
  IF ~config.strip \/ p.prefix = <<>> THEN p
  ELSE [prefix |-> Tail(p.prefix),
        rest   |-> IF Len(p.prefix) = 1 /\ p.rest = "" THEN "/" ELSE p.rest]

Namesakes(p) == {q \in DOMAIN found : Normal(q) = Normal(p)}

Position(p) == CHOOSE i \in DOMAIN PathOrder : PathOrder[i] = p

\* The last of the paths that become k gives it its operations ...
Holder(k) ==
  CHOOSE p \in DOMAIN found :
    Normal(p) = k /\ \A q \in Namesakes(p) : Position(q) <= Position(p)

\* Fault: a path whose value was a $ref is passed over.
NormalizeInlineOnly ==
  [k \in {Normal(p) : p \in {q \in DOMAIN found : q \in PathsOf(Root) => ~docs[Root][q].isRef}} |->
     Holder(k)]

NormalizeSpec == [k \in {Normal(p) : p \in DOMAIN found} |-> Holder(k)]

\* ... and the first one its place in the order of the new paths.
Rank(k) ==
  CHOOSE i \in DOMAIN PathOrder :
    /\ PathOrder[i] \in DOMAIN found /\ Normal(PathOrder[i]) = k
    /\ \A j \in 1..(i - 1) : PathOrder[j] \in DOMAIN found => Normal(PathOrder[j]) # k

VerbRank(v) == CHOOSE i \in DOMAIN VerbOrder : VerbOrder[i] = v

\* The operations of a spec, with the path of each.
OperationsOf(paths) == UNION {{k} \X found[paths[k]] : k \in DOMAIN paths}

\* Whether y comes no later than x in the spec.
NoLater(y, x) ==
  \/ Rank(y[1]) < Rank(x[1])
  \/ Rank(y[1]) = Rank(x[1]) /\ VerbRank(y[2].verb) <= VerbRank(x[2].verb)

\* What an override calls a verb of a path; "" if there is none.
Override(v, path) == IF <<v, path>> \in DOMAIN Overrides THEN Overrides[<<v, path>>] ELSE ""

\* Fault: the overrides are looked up by the path as documented.
OverrideRaw(paths, x) == Override(x[2].verb, paths[x[1]])

\* The path is looked up with the prefix stripped once more.
OverrideOf(paths, x) == Override(x[2].verb, Normal(x[1]))

\* One name for each operation id that an override names; operations without an id are
\* skipped, and where several share one, the last wins.
NamesMap(paths) ==
  LET named == {x \in OperationsOf(paths) : x[2].id # NoId /\ OverrideOf(paths, x) # ""}
      LastOf(id) == CHOOSE x \in named :
        x[2].id = id /\ \A y \in named : y[2].id = id => NoLater(y, x)
  IN  [id \in {x[2].id : x \in named} |-> OverrideOf(paths, LastOf(id))]

\* The loaded spec becomes the tools, unless a route map is refused.
Construct ==
  /\ stage = "loaded"
  /\ \/ ~config.routes /\ Fail("route_map")
     \/ /\ config.routes
        /\ served' = NormalizeSpec
        /\ names' = NamesMap(NormalizeSpec)
        /\ stage' = "served"
        /\ UNCHANGED <<docs, edits, config, error, stack, found, inlined, locals>>

\* A document is published anew while it is being loaded.
Publish(d) ==
  /\ stage = "resolving" /\ edits < MaxEdits
  /\ \E v \in Versions[d] \ {docs[d]} : docs' = [docs EXCEPT ![d] = v]
  /\ edits' = edits + 1
  /\ UNCHANGED <<config, stage, error, stack, found, inlined, locals, served, names>>

Progress == LoadSpec \/ FollowRef \/ Return \/ CountOperations \/ Construct

Next == Progress \/ \E d \in Doc : Publish(d)

Spec == Init /\ [][Next]_vars

FairSpec == Spec /\ WF_vars(Progress)

-----------------------------------------------------------------------------
(* What the documents say, by fixed points over the graph of their refs.   *)

\* All that S leads to along succ, a function from refs to sets of them.
Closure(S, succ) ==
  LET upTo[n \in 0..Cardinality(Ref)] ==
        IF n = 0 THEN S ELSE upTo[n - 1] \cup UNION {succ[r] : r \in upTo[n - 1]}
  IN  upTo[Cardinality(Ref)]

Below == [r \in Ref |-> IF Present(r) THEN Range(Content(r.doc, r.frag).refs) ELSE {}]

RootRefs == Range(Content(Root, Whole).refs)

\* All that the root document refers to, and whether it refers to itself without end.
Reachable == Closure(RootRefs, Below)

Under(r) == Closure(Below[r], Below)

Cyclic == \E r \in Reachable : r \in Under(r)

\* Where a $ref points to that is itself all there is in its place.
Forward ==
  [r \in Ref |-> IF Present(r) /\ Content(r.doc, r.frag).isRef THEN Below[r] ELSE {}]

Operations(R) == UNION {Content(r.doc, r.frag).ops : r \in {s \in R : Present(s)}}

\* The operations of a path, however long the chain of refs to them.
Documented(p) ==
  LET place == docs[Root][p]
  IN  place.ops \cup Operations(Closure(IF place.isRef THEN Range(place.refs) ELSE {}, Forward))

-----------------------------------------------------------------------------
(* Properties.                                                             *)

\* Unless a document is republished meanwhile, a load succeeds exactly on documents whose
\* refs can all be followed and end, with all of them and with every path's operations;
\* and each refusal has the cause that it reports (loader.py:106-165, 60-65).
OutcomeExact ==
  edits = 0 =>
    /\ stage \in {"loaded", "served"} =>
         /\ inlined = Reachable
         /\ ~Cyclic
         /\ \A p \in DOMAIN found : found[p] = Documented(p)
    /\ error = "circular" => Cyclic
    /\ error = "fragment" => \E r \in Reachable : ~Present(r)
    /\ error = "no operations" => \A p \in PathsOf(Root) : Documented(p) = {}

\* A path that no other path is normalised to is served with its documented operations;
\* where several are, the one served is one of them (tool_provider.py:59-95).
ServedAsDocumented ==
  stage = "served" /\ edits = 0 =>
    \A p \in PathsOf(Root) :
      /\ Normal(p) \in DOMAIN served /\ served[Normal(p)] \in Namesakes(p)
      /\ Namesakes(p) = {p} => found[served[Normal(p)]] = Documented(p)

\* The operations of a path that have an id and that an override names.
Overridden(p) ==
  {o \in Documented(p) : o.id # NoId /\ Override(o.verb, Normal(Normal(p))) # ""}

\* An operation id that is renamed has the name that the profile gives a documented
\* operation with that id, by its verb and stripped path, so its own if no other has the
\* id; and every override of a served operation counts, if the operation has an id.  The
\* prefix is stripped until twice, and operations without an id are not renamed
\* (tool_provider.py:105-131).
NamesFollowOverrides ==
  stage = "served" /\ edits = 0 =>
    /\ \A id \in DOMAIN names : \E p \in PathsOf(Root) : \E o \in Overridden(p) :
         /\ served[Normal(p)] = p /\ o.id = id
         /\ names[id] = Override(o.verb, Normal(Normal(p)))
    /\ \A p \in PathsOf(Root) : \A o \in Overridden(p) :
         served[Normal(p)] = p => o.id \in DOMAIN names

\* Every load ends, on documents that refer to one another in circles too, and if they
\* are republished under it (loader.py:118-127).
LoadEnds == <>(stage \in {"served", "failed"})

\* "resolves external ``$ref`` pointers so unbundled modular specs work at runtime"
\* (loader.py:5-6): a "#/..." pointer of a document that was inlined still points to what
\* it pointed to in that document.
LocalRefsKeepTheirMeaning ==
  stage = "served" /\ edits = 0 =>
    \A l \in locals : l.frag \in DOMAIN docs[l.doc] =>
      l.frag \in DOMAIN docs[Root] /\ docs[Root][l.frag] = docs[l.doc][l.frag]
=============================================================================
