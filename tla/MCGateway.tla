------------------------------ MODULE MCGateway ------------------------------
(* Gateways of up to three mounts and single servers, started twice in a process by   *)
(* programs with two settings classes.                                              *)
EXTENDS ServeProcess

CONSTANTS a, b, c, ping, extra

Source(kind, tools) == [kind |-> kind, tools |-> tools]
Bare(sources) ==
  [backend |-> FALSE, sources |-> sources, extensions |-> "none", required |-> FALSE]

Spec1 == [Bare(<<Source("openapi", {<<b, c>>, <<c>>})>>)
            EXCEPT !.backend = TRUE, !.extensions = "resources"]
Hand == [Bare(<<Source("python", {<<c>>}), Source("registry", {<<ping>>})>>)
            EXCEPT !.backend = TRUE]
Central == Bare(<<Source("registry", {<<ping>>}), Source("registry", {<<extra>>})>>)
Mixed == [Bare(<<Source("python", {<<ping>>}), Source("openapi", {<<c>>})>>)
            EXCEPT !.backend = TRUE, !.extensions = "prompts"]
Twice == [Bare(<<Source("openapi", {<<c>>}), Source("openapi", {<<b>>})>>)
            EXCEPT !.backend = TRUE]
NoClient == [Bare(<<Source("openapi", {<<c>>})>>) EXCEPT !.extensions = "absent"]
Lost == [Bare(<<Source("registry", {<<ping>>})>>)
            EXCEPT !.extensions = "absent", !.required = TRUE]
NoResource == [Bare(<<Source("registry", {<<ping>>})>>) EXCEPT !.extensions = "resources"]
Optional == [Bare(<<Source("registry", {<<ping>>})>>) EXCEPT !.extensions = "absent"]

Single(p, own) ==
  [gateway |-> FALSE, ownLifespan |-> own, mounts |-> <<[prefix |-> <<>>, profile |-> p]>>]
Several(mounts) == [gateway |-> TRUE, ownLifespan |-> FALSE, mounts |-> mounts]
At(prefix, p) == [prefix |-> prefix, profile |-> p]

MCPlan ==
  {Single(p, own) : p \in {Mixed, Twice, NoClient, Lost, NoResource, Optional}, own \in BOOLEAN}
  \cup
  {Several(<<>>),
   Several(<<At(<<a>>, Hand), At(<<>>, Central)>>),
   Several(<<At(<<a>>, Spec1), At(<<a, b>>, Hand)>>),
   Several(<<At(<<a>>, Spec1), At(<<b>>, Central), At(<<a>>, Hand)>>),
   Several(<<At(<<a, b>>, Hand), At(<<c>>, Spec1), At(<<b>>, Central)>>)}

MCHost == {"", "::", "127.0.0.1"}
MCEnviron == [host |-> "", port |-> 8000, transport |-> "streamable-http"]
Options(cls, host, port, transport, fragments) ==
  [cls |-> cls, host |-> host, port |-> port, transport |-> transport, fragments |-> fragments]
MCCommand ==
  {Options("shlink", NotGiven, NotGiven, NotGiven, {}),
   Options("shlink", NotGiven, 9000, "stdio", {"pat"}),
   Options("zammad", "127.0.0.1", 9000, "sse", {}),
   Options("zammad", "127.0.0.1", NotGiven, NotGiven, {"pin"}),
   Options("zammad", "", 0, "", {})}

MCBuiltin == {<<ping>>}
MCPlugin == {<<extra>>}
=============================================================================
