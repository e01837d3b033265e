--------------------------- MODULE MCOpenApiSource ---------------------------
(* A root document with one or two paths and one component, and a library of *)
(* two parts that refer to one another, to the root or to themselves.         *)
EXTENDS OpenApiSource, TLC

CONSTANTS lib, X, Y

Op(v, id) == [verb |-> v, id |-> id]
Object(rs, os, ls) == [isRef |-> FALSE, refs |-> rs, ops |-> os, locals |-> ls]
Pointer(r) == [isRef |-> TRUE, refs |-> <<r>>, ops |-> {}, locals |-> {}]
To(d, f) == [doc |-> d, frag |-> f]

Concrete == [prefix |-> <<"concrete">>, rest |-> "/urls"]
Templated == [prefix |-> <<"templated">>, rest |-> "/urls"]
Plain == [prefix |-> <<>>, rest |-> "/"]
Bare == [prefix |-> <<"concrete">>, rest |-> ""]
Twice == [prefix |-> <<"concrete", "templated">>, rest |-> "/urls"]
Urls == [prefix |-> <<>>, rest |-> "/urls"]
MCPathOrder == <<Concrete, Bare, Plain, Templated, Twice>>
MCVerbOrder == <<"get", "post">>
MCOverrides ==
  <<"get", Urls>> :> "list" @@ <<"post", Urls>> :> "" @@ <<"get", Plain>> :> "index"
    @@ <<"get", Templated>> :> "versions"

Get == Op("get", "getUrls")
Post == Op("post", "postUrls")
Shared == Op("post", "getUrls")
Nameless == Op("get", NoId)

Empty == Object(<<>>, {}, {})
RootParts == {Whole :> Empty, Whole :> Empty @@ X :> Object(<<To(lib, Y)>>, {}, {})}
RootPaths ==
  {Concrete :> a : a \in {Object(<<>>, {Get}, {}), Object(<<>>, {Nameless, Post}, {}),
                          Pointer(To(lib, X)), Pointer(To(lib, Whole))}}
  \cup {Concrete :> Object(<<To(lib, X), To(lib, Y)>>, {Post}, {})
          @@ Templated :> Pointer(To(lib, X)),
        Twice :> Pointer(To(lib, X)) @@ Plain :> Pointer(To(lib, X)),
        Bare :> Pointer(To(lib, X)) @@ Plain :> Object(<<To(Root, X)>>, {Op("get", "root")}, {X})}
RootVersions == {p @@ q : p \in RootPaths, q \in RootParts} \cup RootParts

LibVersions ==
  {Whole :> Object(<<>>, w, {}) @@ X :> x @@ y :
     w \in {{}, {Get}},
     x \in {Object(<<>>, {Get}, {Y}), Object(<<To(lib, Y)>>, {Nameless}, {}), Pointer(To(lib, Y))},
     y \in {None} \cup [{Y} -> {Object(<<>>, {Get, Shared}, {}), Object(<<To(lib, X)>>, {}, {}),
                                Object(<<To(lib, Whole)>>, {}, {}), Object(<<To(Root, X)>>, {Get}, {})}]}

MCVersions == Root :> RootVersions @@ lib :> LibVersions
=============================================================================
