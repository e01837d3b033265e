------------------------------- MODULE Gateway -------------------------------
(***************************************************************************)
(* Assembly of servers: build_app_from_profile (app.py) with its plugins   *)
(* (plugins.py), the tool registry (tools/registry.py) and the extensions  *)
(* catalogue, alone or once per mount of build_gateway (gateway.py); then  *)
(* serving and shutdown.  Builds follow one another in one process, which  *)
(* keeps the registry and every client that nobody closed.                 *)
(***************************************************************************)
EXTENDS Naturals, Sequences, FiniteSets, SequencesExt

CONSTANTS
  Word,         \* what names consist of, between underscores
  Plan,         \* the builds that may be asked for
  Builtin,      \* the registry's own tools
  Plugin,       \* tools that entry points contribute
  MaxMounts,    \* bound on the mounts of a gateway
  MaxAttempts   \* bound on the builds in one process

Name == Seq(Word) \ {<<>>}

\* kind "openapi" stands for any constructing source; tools are the names it offers.
ToolSource == [kind : {"openapi", "python", "registry"}, tools : SUBSET Name]

\* extensions: no block, a source that does not exist, or what its catalogue declares.
ServerProfile ==
  [backend : BOOLEAN, sources : Seq(ToolSource), required : BOOLEAN,
   extensions : {"none", "absent", "prompts", "resources"}]

\* What to build: a gateway over the mounts, or a server for the only one, with the
\* caller's own lifespan or the default.
BuildPlan ==
  [gateway : BOOLEAN, ownLifespan : BOOLEAN,
   mounts : Seq([prefix : Seq(Word), profile : ServerProfile])]

ASSUME PlanAssumption ==
  /\ Plan \subseteq BuildPlan
  /\ \A p \in Plan : /\ Len(p.mounts) <= MaxMounts
                     /\ IF p.gateway THEN ~p.ownLifespan ELSE Len(p.mounts) = 1
ASSUME RegistryAssumption == Builtin \subseteq Name /\ Plugin \subseteq Name
ASSUME BoundAssumption == MaxMounts \in Nat /\ MaxAttempts \in Nat \ {0}

VARIABLES
  plan,      \* what is being built
  attempt,   \* the number of the build
  status,    \* how far the server is
  mount,     \* the mount that is being built
  step,      \* the next step of its build
  source,    \* the next registering tool source
  surface,   \* the tools on each sub-server
  client,    \* of every build, each sub-server's upstream client
  ended,     \* history: how each build ended
  registry,  \* _REGISTRY
  loaded     \* _ENTRYPOINTS_LOADED

vars == <<plan, attempt, status, mount, step, source, surface, client, ended, registry, loaded>>

Steps == {"prefix", "auth", "client", "sources", "construct", "middleware", "register",
          "extensions", "mount"}

TypeOK ==
  /\ plan \in Plan
  /\ attempt \in 1..MaxAttempts
  /\ status \in {"idle", "building", "built", "serving", "over"}
  /\ mount \in 1..(MaxMounts + 1)
  /\ step \in Steps
  /\ source \in Nat
  /\ surface \in [1..MaxMounts -> SUBSET Name]
  /\ client \in [1..MaxAttempts -> [1..MaxMounts -> {"none", "open", "closed"}]]
  /\ ended \in [1..MaxAttempts -> {"no", "failed", "stopped", "stopped by own lifespan"}]
  /\ Builtin \subseteq registry /\ registry \subseteq Builtin \cup Plugin
  /\ loaded \in BOOLEAN

Init ==
  /\ plan \in Plan
  /\ attempt = 1
  /\ status = "idle"
  /\ mount = 1
  /\ step = "prefix"
  /\ source = 1
  /\ surface = [i \in 1..MaxMounts |-> {}]
  /\ client = [a \in 1..MaxAttempts |-> [i \in 1..MaxMounts |-> "none"]]
  /\ ended = [a \in 1..MaxAttempts |-> "no"]
  /\ registry = Builtin
  /\ loaded = FALSE

-----------------------------------------------------------------------------
(* Helpers.                                                                *)

Profile(i) == plan.mounts[i].profile
Prefix(i) == plan.mounts[i].prefix

Constructing(p) == {k \in 1..Len(p.sources) : p.sources[k].kind = "openapi"}
Registering(p) == 1..Len(p.sources) \ Constructing(p)

\* The registering sources of the mount that are still to do, and the first of them.
Pending == {k \in Registering(Profile(mount)) : k >= source}
IsNext(k) == k \in Pending /\ \A j \in Pending : k <= j

Building(s) == status = "building" /\ step = s

Proceed(s) == step' = s /\ UNCHANGED <<status, ended>>

\* An exception or a cancellation leaves the build; what was made stays as it is.
Fail ==
  /\ status' = "over"
  /\ ended' = [ended EXCEPT ![attempt] = "failed"]
  /\ UNCHANGED step

\* Fault: only the mount before is compared with.
SeenLast == IF mount = 1 THEN {} ELSE {Prefix(mount - 1)}

\* The prefixes of the mounts before this one.
Seen == {Prefix(i) : i \in 1..(mount - 1)}

-----------------------------------------------------------------------------
(* The build of a server.                                                  *)

\* build_gateway requires a mount; build_app_from_profile begins with the auth provider.
Start ==
  /\ status = "idle"
  /\ IF plan.gateway /\ plan.mounts = <<>>
       THEN Fail
       ELSE /\ status' = "building"
            /\ step' = IF plan.gateway THEN "prefix" ELSE "auth"
            /\ UNCHANGED ended
  /\ UNCHANGED <<plan, attempt, mount, source, surface, client, registry, loaded>>

CheckPrefix ==
  /\ Building("prefix")
  /\ IF Prefix(mount) = <<>> \/ Prefix(mount) \in Seen THEN Fail ELSE Proceed("auth")
  /\ UNCHANGED <<plan, attempt, mount, source, surface, client, registry, loaded>>

\* An unknown AUTH_MODE or settings that the provider refuses raise.
BuildAuth ==
  /\ Building("auth")
  /\ Proceed("client") \/ Fail
  /\ UNCHANGED <<plan, attempt, mount, source, surface, client, registry, loaded>>

\* The resolver may raise, before there is a client.
BuildClient ==
  /\ Building("client")
  /\ \/ /\ Proceed("sources")
        /\ client' = [client EXCEPT ![attempt][mount] =
                        IF Profile(mount).backend THEN "open" ELSE "none"]
     \/ Profile(mount).backend /\ Fail /\ UNCHANGED client
  /\ UNCHANGED <<plan, attempt, mount, source, surface, registry, loaded>>

\* A source that its factory refuses raises, and so do two constructing ones.
BuildSources ==
  /\ Building("sources")
  /\ \/ Cardinality(Constructing(Profile(mount))) <= 1 /\ Proceed("construct")
     \/ Fail
  /\ UNCHANGED <<plan, attempt, mount, source, surface, client, registry, loaded>>

\* A constructing source needs the client and awaits the spec, which may fail or be
\* cancelled; without one the server is bare.
Construct ==
  /\ Building("construct")
  /\ \/ /\ Constructing(Profile(mount)) = {}
        /\ surface' = [surface EXCEPT ![mount] = {}]
        /\ Proceed("middleware")
     \/ \E k \in Constructing(Profile(mount)) :
          /\ Profile(mount).backend
          /\ surface' = [surface EXCEPT ![mount] = Profile(mount).sources[k].tools]
          /\ Proceed("middleware")
     \/ Constructing(Profile(mount)) # {} /\ Fail /\ UNCHANGED surface
  /\ source' = 1
  /\ UNCHANGED <<plan, attempt, mount, client, registry, loaded>>

\* The auth mode's middleware comes from an entry point, whose load may raise.
AddMiddleware ==
  /\ Building("middleware")
  /\ Proceed("register") \/ Fail
  /\ UNCHANGED <<plan, attempt, mount, source, surface, client, registry, loaded>>

\* _load_entrypoints: once per process, and a plugin that does not load is skipped.
LoadEntrypoints ==
  IF loaded THEN UNCHANGED <<registry, loaded>>
  ELSE /\ \E works \in SUBSET (Plugin \ registry) : registry' = registry \cup works
       /\ loaded' = TRUE

\* Fault: tools that the registry does not know are left out.
RegisterLenient(k) ==
  LET s == Profile(mount).sources[k]
  IN  /\ IsNext(k)
      /\ IF s.kind = "registry" THEN LoadEntrypoints ELSE UNCHANGED <<registry, loaded>>
      /\ surface' = [surface EXCEPT ![mount] =
                       @ \cup (IF s.kind = "registry" THEN s.tools \cap registry' ELSE s.tools)]
      /\ source' = k + 1
      /\ Proceed("register")
      /\ UNCHANGED <<plan, attempt, mount, client>>

\* One registering source: the registry's refuses tools it does not know, and what
\* registers a tool may raise; a Python function is awaited and may raise or be cancelled.
Register(k) ==
  LET s == Profile(mount).sources[k]
  IN  /\ IsNext(k)
      /\ IF s.kind = "registry" THEN LoadEntrypoints ELSE UNCHANGED <<registry, loaded>>
      /\ \/ /\ s.kind = "registry" => s.tools \subseteq registry'
            /\ surface' = [surface EXCEPT ![mount] = @ \cup s.tools]
            /\ source' = k + 1
            /\ Proceed("register")
         \/ Fail /\ UNCHANGED <<surface, source>>
      /\ UNCHANGED <<plan, attempt, mount, client>>

AllRegistered ==
  /\ Building("register") /\ Pending = {}
  /\ Proceed("extensions")
  /\ UNCHANGED <<plan, attempt, mount, source, surface, client, registry, loaded>>

\* A catalogue that is not there is fatal if it is required; one that is there must be
\* valid, and without a client it may not declare resources.
LoadExtensions ==
  LET p == Profile(mount)
  IN  /\ Building("extensions")
      /\ \/ /\ ~(p.extensions = "absent" /\ p.required)
            /\ ~(p.extensions = "resources" /\ ~p.backend)
            /\ Proceed("mount")
         \/ p.extensions # "none" /\ ~(p.extensions = "absent" /\ ~p.required) /\ Fail
      /\ UNCHANGED <<plan, attempt, mount, source, surface, client, registry, loaded>>

\* build_app_from_profile returns; a gateway goes on with its next mount.
Mount ==
  /\ Building("mount")
  /\ IF mount < Len(plan.mounts)
       THEN mount' = mount + 1 /\ step' = "prefix" /\ UNCHANGED status
       ELSE status' = "built" /\ UNCHANGED <<mount, step>>
  /\ UNCHANGED <<plan, attempt, source, surface, client, ended, registry, loaded>>

-----------------------------------------------------------------------------
(* The server's life.                                                      *)

\* run_transport refuses an unknown transport, before any lifespan begins.
Serve ==
  /\ status = "built"
  /\ (status' = "serving" /\ UNCHANGED <<step, ended>>) \/ Fail
  /\ UNCHANGED <<plan, attempt, mount, source, surface, client, registry, loaded>>

Closed(state) == IF state = "open" THEN "closed" ELSE state

\* Fault: only the last sub-server's lifespan ends.
StopLast ==
  /\ status = "serving"
  /\ status' = "over"
  /\ IF plan.ownLifespan
       THEN ended' = [ended EXCEPT ![attempt] = "stopped by own lifespan"] /\ UNCHANGED client
       ELSE /\ ended' = [ended EXCEPT ![attempt] = "stopped"]
            /\ client' = [client EXCEPT ![attempt][mount] = Closed(@)]
  /\ UNCHANGED <<plan, attempt, mount, step, source, surface, registry, loaded>>

\* The lifespans of all sub-servers end: the default one closes its client, a caller's
\* own replaces it.
Stop ==
  /\ status = "serving"
  /\ status' = "over"
  /\ IF plan.ownLifespan
       THEN ended' = [ended EXCEPT ![attempt] = "stopped by own lifespan"] /\ UNCHANGED client
       ELSE /\ ended' = [ended EXCEPT ![attempt] = "stopped"]
            /\ client' = [client EXCEPT ![attempt] = [i \in 1..MaxMounts |-> Closed(@[i])]]
  /\ UNCHANGED <<plan, attempt, mount, step, source, surface, registry, loaded>>

\* Another build in the same process.
Again ==
  /\ status = "over" /\ attempt < MaxAttempts
  /\ attempt' = attempt + 1
  /\ plan' \in Plan
  /\ status' = "idle"
  /\ mount' = 1 /\ step' = "prefix" /\ source' = 1
  /\ surface' = [i \in 1..MaxMounts |-> {}]
  /\ UNCHANGED <<client, ended, registry, loaded>>

RegisterNext == Building("register") /\ \E k \in Pending : Register(k)

Next ==
  \/ Start \/ CheckPrefix \/ BuildAuth \/ BuildClient \/ BuildSources \/ Construct
  \/ AddMiddleware \/ RegisterNext \/ AllRegistered \/ LoadExtensions \/ Mount
  \/ Serve \/ Stop \/ Again

Spec == Init /\ [][Next]_vars

-----------------------------------------------------------------------------
(* Properties.                                                             *)

Up == status \in {"built", "serving"}
Mounts == 1..Len(plan.mounts)

Offered(p) == UNION {p.sources[k].tools : k \in 1..Len(p.sources)}

\* A server is built whole or not at all: each mount has every tool that its profile
\* names, whatever earlier builds left in the process, and an open client if it has a
\* backend (app.py:91-159, plugins.py:184-195).
ServingIsWhole ==
  Up => \A i \in Mounts :
          /\ surface[i] = Offered(Profile(i))
          /\ client[attempt][i] = "open" <=> Profile(i).backend

\* A client that is open after its server's end was left by a failed build or by a
\* caller's own lifespan, in place of the one that closes it (app.py:101-110).
OrphansHaveACause ==
  \A a \in 1..MaxAttempts : ended[a] = "stopped" =>
    \A i \in 1..MaxMounts : client[a][i] # "open"

\* The names that the gateway's clients see, and which mounts offer one.
Exposed(i) == {Prefix(i) \o t : t \in surface[i]}
Collide(i, k) == Exposed(i) \cap Exposed(k) # {}

\* Two mounts share a name only if one's prefix begins with the other's: prefixes that
\* are not nested keep backends apart (gateway.py:58-69).
NamesakesNeedNestedPrefixes ==
  Up /\ plan.gateway =>
    \A i, k \in Mounts : i # k /\ Collide(i, k) =>
      IsStrictPrefix(Prefix(i), Prefix(k)) \/ IsStrictPrefix(Prefix(k), Prefix(i))
=============================================================================
