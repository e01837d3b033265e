# A TLA+ verification of bg-mcpcore

`bg-mcpcore` (`src/src/bg_mcpcore/`) builds MCP servers from declarative profiles: it
assembles a FastMCP server, authenticates and limits the requests that reach it, and
forwards tool calls to a REST API on behalf of the caller. It is asyncio code: one thread,
but every `await` is a point where another call, a cancellation or a shutdown may run.

This directory holds TLA+ models of the parts where that matters, TLC configurations that
check them on small instances, and theorems that TLAPS proves for every value of the
constants. All models are translated from the code at the lines that `PROJECT.json` ("map")
gives for every definition.

    tlc -workers 2 -config MCRetriedWrites.cfg MCRetriedWrites      # check a run
    tlapm ClientProofs.tla                                          # check proofs

## 1. The system

Paths are below `src/src/bg_mcpcore/`.

| Component | State it keeps | Operations | Talks to |
|---|---|---|---|
| Upstream HTTP client (`http/client.py`, `http/retry.py`) | the httpx pool, open or closed; per call: method, attempt counter, the credential resolved once | `request`, `health`, `aclose`, the retry loop with backoff | every tool; an auth resolver; the upstream |
| On-behalf-of auth (`auth/obo.py`) | none of its own; reads the OAuth proxy's token store | `auth_headers`: embedded token, storage lookups by `jti`, then `sub`, under every prefix, the static fallback, or `MissingUpstreamToken` | awaited by `request` before its first attempt |
| Spec loader and cache (`openapi/loader.py`) | `_current`, `_lock` | `load_spec`, `initial_load`, `refresh_once`, `run_refresh_loop` | the OpenAPI source (root document, then external references) |
| Export tool (`tools/export.py`) | page number, collected items of one run | `_fetch_all`, rendering | `ToolContext.request` |
| Tool context (`tools/protocol.py`) | client, settings for trusted sources only | `request`, `request_json` | the client |
| Request gates (`server/middleware.py`, `providers/middleware.py`, `providers/access_control.py`) | the limiter's token buckets | rate limit by client identity, tenant allowlist, role allowlist | FastMCP's middleware chain, in the order of `app.py` |
| Assembly (`app.py`, `plugins.py`, `tools/registry.py`) | a client and a lifespan per server; `_REGISTRY` and `_ENTRYPOINTS_LOADED` per process | auth provider, client, sources, construct, middleware, register, extensions | all of the above |
| Gateway (`gateway.py`) | prefixes seen | one assembly per mount, mounted under its prefix | assembly |
| Command line and transport (`cli.py`, `server/runner.py`) | writes its options into the cached settings | `serve`, `run_transport` | settings, assembly |
| OpenAPI tool source (`openapi/tool_provider.py`) | none | path normalisation, names map, `construct` | loader, raw httpx client |
| Inbound auth (`auth/generic_oidc.py`, `providers/*`, `auth/storage.py`) | the OAuth proxy's encrypted state, on Redis, on a volume or in the container's own layer | provider builders with what each requires, `build_client_storage` | FastMCP's OAuth proxy; persists across restarts |
| Settings (`settings/*`) | `_cache`: one settings object per class | `get_settings`, validation with the fail-closed invariants | environment, `.env`; CLI, assembly |
| Profiles (`profile/*`) | none | `load_profile`: `$schema`, `${env:...}` interpolation, validation | environment; assembly, resolvers |
| Extensions (`extensions/*`) | none; the file is read twice | validate the catalogue, register and answer prompts and resources | assembly, client |
| Observability (`observability/*`) | the latch `_initialized`, the redaction fragments | `setup_logging` | assembly |
| Scaffold, test helpers | none | write files, fixtures | - |

What is hard, and what makes each part correct:

- **Client.** A read timeout leaves an attempt with the upstream, which may still carry it
  out; a 5xx can follow the effect; the pool has a limit; the client may be closed, a task
  cancelled at any await. Correct means: a POST is carried out at most once, the way a call
  ends tells the caller the truth about what was carried out, sleeps are bounded, every
  call ends.
- **On-behalf-of.** Lookups are separate awaits over a store that changes meanwhile, errors
  count as misses, and a key is a prefix and an identifier put together, so that two pairs may
  give one key. Correct means: no request goes without a token, none carries another user's
  where the users' keys are apart, and nobody is failed or downgraded to the shared fallback
  without cause.
- **Spec cache.** Loads fail, are cancelled and overtake each other while the source is
  republished, and the two load paths take the lock at different points. Correct means: the
  lock is not leaked, no failure takes away a served spec, and the loop converges.
- **OpenAPI tool source.** Modular documents refer to parts of one another, legitimately
  even to siblings in one file, or in circles; two documented paths may become one; names
  are given by the path after normalisation. Correct means: loads end, succeed exactly on
  sound documents and say why not otherwise, and each operation is served under its name.
- **Export.** Pages are separate requests over a collection that changes. Correct means:
  the loss is bounded, nothing is doubled without cause, and the paging ends.
- **Gates.** Requests of one user come from several hosts, hosts share proxies, callers may
  send X-Forwarded-For entries of their own. Correct means: budgets hold, nobody pays for
  others, all that is judged is charged, and nothing passes a gate that refuses it.
- **Assembly and gateway.** Any of a dozen steps may raise when a client already exists,
  mounts are built one after another, and the registry outlives a failed build. Correct
  means: a server is whole or not served, a stopped server leaves no open client, and
  mounted names do not clash.
- **Start-up process.** `serve` writes its options into an object that later commands share,
  and the first build's logging is kept for all. Correct means: a server listens where its own
  command, its class's earlier ones or the environment say, and no later build drops what the
  logs are redacted for.
- **Deployment.** Four sources of configuration (environment, `.env`, profile, what the
  profile's variables name) are read at different times and by different validators; replicas
  crash and are recreated, refused and edited. Correct means: nothing serves anonymously in
  production or over a store whose key was not checked, and a login outlives whatever leaves
  its keys and its place alone.
- **Extensions.** The validator and the renderer read templates with different parsers, the
  file may change between its two reads, and clients' values go into upstream paths one
  after the other. Correct means: what was accepted renders, or it is known what does not, and
  a value stays in its place.

The hazards, each at its line, are in `PROJECT.json` ("hazards") with the properties that
would catch it going wrong.

## 2. The modules

| Module | Models | Depends on |
|---|---|---|
| `CallContract` | abstract specification: what a caller of the client may rely on | - |
| `UpstreamClient` | `request`, `health`, `aclose` with network and upstream | implements `CallContract` |
| `RetriedWrites` | the client over an upstream with one shared resource | extends `UpstreamClient` |
| `OnBehalfOf` | the client composed with the per-user resolver and the token store | extends and implements `UpstreamClient` |
| `SpecCache` | `SpecCache` and `load_spec` | - |
| `OpenApiSource` | `construct` of the OpenAPI source: the walk over external references, counting, normalisation, names map | - |
| `ExportPaginator` | `_fetch_all` against a changing list | - |
| `RequestGates` | limiter, tenant gate, role gate as a chain | - |
| `Gateway` | assembly of single servers and gateways, registry, lifespan | - |
| `ServeProcess` | the process around the builds: commands, settings singletons, logging latch, transport | extends and implements `Gateway` |
| `Settings`, `Profiles`, `InboundAuth` | operators: what is read from where, and what is refused | `Profiles`, `InboundAuth` extend `Settings` |
| `Deployment` | replicas from boot to crash over a persistent OAuth store, and their operator | extends `Profiles`, `InboundAuth` |
| `Catalogue` | `extensions/`: load, validate, render prompts, request resources | - |
| `*Proofs` | theorems; see below | extend what they are about and `TLAPS` |
| `SequenceLemmas` | induction, recursion, and what operators on sequences compute | the library's theorems |
| `MC*` | constants for TLC | extend the module they are named for |

### UpstreamClient
`pc` is where a call stands: `auth` (awaiting `auth_headers`), `pool` (entered
`AsyncClient.request`, no connection yet), `waiting` (sent), `backoff` (asleep). Each await of
`request()` is one action: `AuthHeaders`, `Send`, `ConnectFailed`, `PoolTimeout`,
`ReadFailed`, `Response`, `Wake`; `Cancel` and `Close` may come at any of them. `Issue` is the
entry of each attempt, which a closed client refuses. `outcome` abstracts how the call ends:
`unreached` (ConnectError, ConnectTimeout), `broken` (any other TransportError, PoolTimeout
among them), `closed`, `noauth`, `cancelled`, `accepted` (2xx), `answered` (the rest).
`wire`, `applied` and `Serve` are the upstream, which may handle an attempt at any time after
it was sent, whether or not anyone still waits. Its answers follow what the comments at
client.py:84-88 assume: a success follows the effect, a 4xx excludes it, a 5xx says nothing.
`Delays` is `sleep_backoff`: Retry-After up to the cap, else full jitter, as a choice.

### CallContract
No loop, network or clock: a call is `once` or `repeatable`, is performed, and ends with a
result. A `once` call is performed at most once, never after a definite result, and a result
in `NotPerformed` means it never was. Under the refinement mapping the attempts of the loop
become anonymous performances and outcomes become results.

### RetriedWrites
Adds the content of one resource and counts how often each call changed the upstream's
state. It makes visible what retrying an idempotent method does beside other writers.

### OnBehalfOf
Replaces the single step `AuthHeaders` by `BeginResolve` and one `Lookup` per storage key.
`cursor` is the awaited lookup, `cred` whose token the merged headers carry. The OAuth proxy
(FastMCP's, external) may store and evict tokens between any two steps, under any key of a
user's token. Prefixes and ids are strings and a key is their concatenation, as in obo.py:108:
with the default prefixes, one of which is empty (obo.py:32-37), and with `jti` and `sub` in one
namespace, two users may share a key, and the caller whose JWT embeds no token is then served
with what is stored there. `OwnCredential` says that this is the only way. A lookup may raise;
`_safe_get` makes a miss of it. The history variable `owed` holds the keys of a caller that
have held a token during the whole resolution.

### SpecCache
`initial_load` waits for the lock and holds it over both awaits of `load_spec`;
`refresh_once` loads first and takes the lock only to install. The lock is asyncio's, first
come first served (`queue`). A spec is the pair of versions of its two documents, so that a
republication between the fetches is visible as a torn spec. `Raised` is what the exception
handlers of the loader make of a failure, `AfterFailure` what the operation makes of that: of
the root document, an error of the transport and malformed YAML (`YAMLError` is no
`ValueError`, loader.py:89-92) are no `SpecLoadError`.

### OpenApiSource
A document maps its parts to places: a `$ref`, or an object with the external refs below it,
the operations it has if it stands for a path, and the `#/...` pointers below it. `stack` is
the recursion of `_resolve_external_refs`: one frame for each ref that is being replaced,
with what is left to follow in it and the chain `seen`. `FollowRef` fetches the document
anew, as the code does, so that `Publish` may change it between two refs. `found` is what
`_count_operations` counts; `Construct` applies `_normalize_spec` and `_build_names_map` to it.
An operation is its verb and its `operationId`, which it may share with others or lack: the
names map goes by id, so that of several operations with one id the last wins, and one
without an id keeps the name that FastMCP makes for it (tool_provider.py:125-127). The map looks
an override up by the path with the prefix stripped once more (`OverrideOf`, line 121). The
reference the properties compare with is computed from the documents alone, by fixed points
over the graph of their refs.

### ExportPaginator
The endpoint pages what is listed when it answers; `AddItem` and `RemoveItem` change that in
between. `counters` is whether the page counters are configured, `Answer` may send malformed
bodies, `Receive` is one pass of the loop with its four ways to go on.

### RequestGates
`Chain(settings)` is what app.py:137-154 adds, in its order; a gate whose builder returns None
is absent. Every request passes it place by place, so requests interleave between gates.
`ResolveClientId` is the identity of `resolve_client_id`, fed with what the proxies send.
`charged` counts per principal, that is per user, or per host where a token names nobody, and
per bucket that it draws on. `proxies`, how many of them there are, is part of a configuration
beside `hops`, how many are trusted. Proxies append the address they were called from to
X-Forwarded-For, which is what indexing `-trusted_proxy_hops` from the right presumes, and what
the headers in tests/test_rate_limit.py:24-34 look like (server/middleware.py:17 and
docs/observability.md:229 say "prepend"). With fewer hops trusted than there are proxies, callers
share the bucket of a proxy; with more, the entry that counts is one the caller wrote, by the
clip of middleware.py:62 or already before it. That is the other way round from
docs/observability.md:234-235, and includes the default of one hop without a proxy. The limiter's
bucket is FastMCP's token bucket: full at first, refilled by time, checked and charged in one
step.

### Gateway
One action per step of `build_app_from_profile`, each of which may `Fail` where the code
may raise (an awaited step also when it is cancelled); a gateway runs it per mount. The
registry and `_ENTRYPOINTS_LOADED` survive the build, as does every client nobody closed,
and `Again` starts another build in the same process. Names are sequences of words that
underscores join, so that a namespaced name is a concatenation. That FastMCP enters and
leaves the lifespans of mounted sub-servers with the gateway's own is assumed of it.

### ServeProcess
Gateway's steps, some of them with more to do. `StartCommand` is `serve`: `cached` is `_cache`
in `settings/factory.py`, and the options given are written into the class's entry before the
build starts, if they count: `--port 0` and an empty `--transport` do not (cli.py:71-73), and a
command that gives no host or port has what the last one of its class gave. `SetUpAndBuildAuth`
joins `setup_logging`, which `latched` reduces to the first call, with the build's first step
that may raise. `ServeCommand` is `run_transport`: an unknown transport raises, an empty host
binds to any. `SetUpFirst` and `ReloadSettings` are the library's functions that a program may
call itself; `ResetLogging` is `reset_logging`, which only tests call. A gateway's program has
no command line, so its commands carry no options and no fragments.

### Settings, Profiles, InboundAuth
No state of their own. An environment maps every variable to a value or to `Unset`; values are
told apart only as far as validators tell them apart (empty, a placeholder, a Fernet key, a
mode's name). `ReadSettings` is what pydantic makes of environment and `.env`, `ValidSettings`
the invariants that run before the subclass's hook. `LoadsProfile` and `BuildsResolver` read
the process environment only, as `profile/loader.py` and `plugins.py` do. `BuildsProvider` is
`build_auth_provider`: one disjunct per builder, each with the fields it cannot do without.

### Deployment
`Boot` is `main.py`: profile, settings, build, each of which may refuse. What a container was
created with stays until `Recreate`; the `.env` file is read at each boot. `LogIn` stores the
OAuth state at `Backend`, the place that `build_client_storage` selects, under
`EncryptionKey`: Redis, or the directory of `auth_disk_storage_path` (storage.py:95), a setting
read at each boot. That directory is on a volume if the container was created with one mounted
at that path, else in the container's layer. `Recreate` loses the layer and keeps the volumes;
`Crash` keeps both. An edit of the path, as of the keys, leaves earlier logins behind.
A stored entry is usable where the same signing key verifies the token and the same place
and key give the entry; that is external, FastMCP's proxy and its encryption wrapper.

### Catalogue
`Find` and `Load` are the two reads of the file, with `Swap` anywhere around them. Templates are
sequences of characters, since the hazard is in how they are read: `Scanned` is the validator's
regular expression on the text without `$$`, `Parsed` is `string.Template`. A resource's path is
a sequence of pieces; `Read` replaces its placeholders one after the other, with quoted values.
The properties' own reading of a template (`Opens`, `Stray`, `Joined`) goes by the number of `$`
that stand together, not by either parser.

The pieces are the placeholders `{name}`, the separator, and text that holds no brace beside a
placeholder: two replacements then cannot meet in a piece, as they cannot in a path whose
braces all belong to placeholders. `NoChar` is what is read past the end of a template.

### Proof modules
`ClientProofs` (of `UpstreamClient`, `RetriedWrites` and `OnBehalfOf`), `LoaderProofs` (of
`OpenApiSource` and `SpecCache`), `CatalogueProofs`, `ExportPaginatorProofs`,
`RequestGatesProofs`, `GatewayProofs` (with `ServeProcess`) and `DeploymentProofs`;
`SequenceLemmas` holds what `LoaderProofs` and `CatalogueProofs` share. The definitions of
`SpecCache` that would clash with `OpenApiSource`'s begin with `Cache`. See section 4.

## 3. What TLC checks

| Run | Instance | Distinct states | Shows |
|---|---|---|---|
| `client` | 2 calls, PUT, DELETE and POST, 200/404/503, 1 retry, 1 connection | 208 000 | at-most-once of POST, truthful outcomes, bounded sleeps, refinement of `CallContract`, termination of every call; a call changes the state twice only if another writer came in between |
| `spec_cache` | 1 initial load, 1 refresh, the loop, 2 republications | 64 000 | no leaked lock, nothing torn down, loads end, convergence |
| `openapi` | 2 documents in 480 combinations, 5 paths, shared and missing ids, 1 republication | 330 000 | exact outcomes, served as documented, names follow overrides, loads end |
| `openapi_local_refs` | the same, no republication | violation | inlined `#/...` pointers dangle |
| `on_behalf_of` | 2 calls of 2 users, `jti` and `sub`, 2 prefixes (one empty), one shared key, with and without fallback | 712 000 | own credential but for a shared key, no spurious miss, refinement of `UpstreamClient` |
| `export` | lists of 0 to 7, pages of 2, at most 3 pages, 3 changes | 175 000 | bounded loss, no doubles, exact when quiet, termination |
| `request_gates` | 2 requests, 4 tokens, 2 hosts, 0 or 2 proxies, 13 configurations | 151 000 | budgets, own use, charging before judging, allowlists |
| `request_gates_clip` | the same | violation | with too few entries the bucket is the one that the caller wrote |
| `gateway` | 17 plans, up to 3 mounts, 5 commands of 2 settings classes, 2 builds per process | 695 000 | whole or not served, orphaned clients, namesakes, where a server listens, logs stay redacted |
| `deployment` | 2 replicas, 14 deployments edited up to twice, 2 volumes at 2 paths, 2 logins | 971 000 | fail closed, durable logins |
| `catalogue` | all templates of up to 5 characters over 5, resources with up to 2 parameters, 1 swap | 308 000 | which accepted prompts render, parameters stay apart |
| `boot_from_dotenv` | as `deployment` | violation | a profile does not see the variables of `.env` |

Every property of a passing run has a mutant in `PROJECT.json`: an operator of the module,
marked "Fault" there, that changes one mapped definition as a plausible bug would and makes
TLC find the property violated.

**Bounds, and why they are enough.**
- Two calls are enough for contention: one connection makes the second wait for the pool or
  time out, and the calls share nothing but pool, client and upstream. One retry makes a
  first, a retried and a last attempt; the theorems take any number. Headers cover a wait
  above the cap, a negative one, a date in the past and none.
- Two prefixes, one of them empty, and three ids are the least with which a `sub` of one user is
  under one prefix what a `jti` of another is under the other; a third JWT has no id and a
  fourth embeds its token, so that such a caller is seen beside the shared key.
- Two republications let a refresh be overtaken and a spec be torn and then outdated; three
  kinds of task cover every pair of load paths.
- Six refs are all that two documents with two parts each offer; the documents contain
  siblings, self-references, circles through the root, missing parts, a path that is a chain
  of refs, two paths that share one item, two that become one, one that is the prefix and one
  that has it twice, operations that share an id and one that has none.
- Lists of 0, 1, 4, 5 and 7 with pages of 2 and three pages are: empty, partial, exactly
  full, partial last, and beyond `max_pages`. Three changes suffice to remove, add behind and
  add in front in one run.
- Two requests suffice to use up a bucket of one token; four tokens give two of one user, an
  empty, an absent and a foreign roles claim, and one without a subject. Thirteen configurations
  have fewer, as many and more trusted hops than two proxies, and one or none without a proxy,
  stdio, a global bucket and every gate; a request arrives without a header or with an entry that
  is the other host's address.
- Three mounts are the least with two neighbours that differ and a third equal to the
  first; two builds the least that inherit a registry, a client, cached settings and a latch;
  two settings classes the least that could be mixed up. The options are given, absent, and given
  but of no effect.
- Two replicas are the least that share a Redis or fail to share a disk. Two edits let a key
  change and change back between two logins. The 14 deployments differ from a sound one
  on Redis or disk in one or two settings: another storage key, signing key or Redis, a key
  of the wrong form, a placeholder, no volume, another disk path with the same volume, another
  or none mounted there, an unknown mode, no auth in production and out of it, secrets that are
  empty or in the profile.
- Templates of five characters hold every way in which `$`, `$$`, braces and two names can
  touch; two parameters are the least of which one value may contain the other's
  placeholder.

Bounds that only TLC needs: `MaxVersion`, `MaxEdits` (of `OpenApiSource` and of `Deployment`),
`MaxLogins`, `MaxChanges`, `MaxClock`, `MaxAttempts`, `MaxMounts`, `MaxSwaps` and `MaxLength`;
`MaxRetries`, `MaxPages` and `MaxConnections` are parameters of the code.

**Deadlock** checking is off where the system may stop: when all calls have ended, tasks
were cancelled, a catalogue was refused, or the bounds of clock and builds are used up. It is on
in `deployment`, where a replica can always be booted, crash or be recreated.

**Fairness.**
- `UpstreamClient!FairSpec` (and `RetriedWrites!WFairSpec`, the same over the resource): weak
  fairness of each call's own progress. The event loop runs what is ready, and
  `httpx.Timeout(timeout)` bounds connect, pool and read waits, so that an error is always
  enabled where an answer is not. Nothing is assumed of the upstream: `Serve`
  is not fair, nor are `Cancel` and `Close`.
- `SpecCache!CacheFairSpec`: the same for each task. `HealthySpec` adds strong fairness of the
  loop's two fetches, that is a source that does not fail for ever; only `Convergence`
  depends on it, and without it the code promises no convergence.
- `OpenApiSource!FairSpec`: weak fairness of the loader; every fetch answers or raises, by
  httpx's timeout. Republications are not fair.
- `ExportPaginator!FairSpec`: weak fairness of "answer or fail" and "receive or fail", which
  the client's timeouts justify. The collection's changes are not fair.

No liveness is stated of on-behalf-of calls: the lookups in the token store are awaited
without a timeout, so that nothing in this code makes them end.

**Divergences found.** Three statements of the documentation are checked and violated; each is
a violation run and an entry of "findings":
1. *loader.py:5-6, docs/tools.md:119*: external refs are resolved "so unbundled modular specs
   work at runtime". A `#/...` pointer inside an external document is inlined as it is.
2. *scaffold.py:228-229, docs/deployment.md:40*: the generated project runs after
   `cp .env.example .env`. Settings read that file, `load_profile` reads only the process
   environment, so a profile that interpolates one of its variables is refused.
3. *docs/observability.md:229, server/middleware.py:60-61*: a header with fewer entries than
   trusted hops is clipped to one that is "still a trusted-proxy view". It is what the caller
   sent. `BudgetHolds` says that trusting too many hops is the only way out of a budget.

Others became plain while modelling and have no run of their own, since a property of a passing
run or a definition already shows them:
- *gateway.py:49-51*: "two backends never collide". Prefix `a` with tool `b_c` and prefix
  `a_b` with tool `c` surface as one name. `NamesakesNeedNestedPrefixes` says that only
  prefixes of which one continues the other can.
- *docs/deployment.md:127*: the flags count "for that invocation; absent flags fall back to the
  environment". Host and port are written into settings that a later command of the process
  shares. `ListensAsTold` says where a value may come from, and that it is never another
  settings class.
- *docs/extensions.md:120*: a catalogue is "validated strictly so a mistake fails loudly at
  boot". A lone `$` passes the validator and fails each rendering. `PromptsRender` says that,
  unless a dropped escape stands between a name and a letter (`$a$$b`), it is all that passes.
- *retry.py:21-23*: re-issuing idempotent methods "cannot cause a duplicate side effect". A
  retried PUT overwrites what another writer stored between the attempts.
  `DuplicateNeedsInterference` says that this is the only way, and is proved.
- *export.py:3*: "renders the full inventory". Offset paging misses an item when one before
  it is removed between two pages. `LossBoundedByRemovals` bounds it, and is proved.
- *loader.py:45*: "Raises SpecLoadError". The first fetch is outside the try block, and so are
  the errors that a YAML parser raises of what it returns.
- *docs/tools.md:161-175*: overrides name operations by verb and path. One without an
  `operationId` is skipped (tool_provider.py:125-127), and one whose id another operation has may
  get the other's name; the prefix is stripped twice for the lookup (lines 74 and 121).
- *cli.py:71-73*: `--port 0` and `--transport ""` are taken for absent.
- *auth/obo.py:32-37, 108*: with an empty prefix, the keys of two users may coincide.
- *docs/observability.md:137*: redaction fragments are "added". The latch ignores those of a
  second server in the process, and `build_gateway` has no parameter to pass any.
- *cli.py:68-73*: `--host` and `--port` are assigned past pydantic's validation.
- *server/middleware.py:17* says that proxies prepend to X-Forwarded-For; they append. For the
  same reason "too low" and "too high" are confused in docs/observability.md:234-235.

## 4. What TLAPS proves

Every theorem holds for all values of the constants under the named assumptions of the
module (finite bounds are only positive naturals or the like, sets are arbitrary).

- **`ClientProofs`** of `UpstreamClient`: `TypeCorrect`, `NonIdempotentCarriedOutOnce`,
  `SettledIsUntouched`, `SleepBudgetHolds`, `ContractImplemented`. None of the properties is
  inductive: that a POST is performed once depends on what is still on the wire. The invariant
  `IInv` adds `PhaseInv` (what each `pc` implies of method, answer and outcome), `AttemptInv`
  (attempts on the wire and carried out are numbered apart, and none is ahead of the counter)
  and `OnceInv` (a non-idempotent call is untouched until its one attempt is sent; then that
  is either on the wire or handled). The sleep budget needs an induction of its own, with the
  budget of the attempts so far. The refinement shows that every step maps to a step of
  `CallContract` or a stutter; a refused `health()` is an invocation that ends at once.
- **`ClientProofs`** of `RetriedWrites`: `DuplicatesNeedAnother`. `LoneInv` says of a call that
  alone changes the resource: it changed nothing yet; or it is a PUT whose content is what is
  stored, so that storing it again changes nothing; or it was carried out and, by `OnceInv`,
  cannot be again. (A DELETE alone finds nothing to delete.) So a second change presupposes
  another writer.
- **`ClientProofs`** of `OnBehalfOf`: `ClientImplemented` (each resolver step is `AuthHeaders` or
  a stutter), `OwnCredentialHolds`, `MissHasACause`, `OnBehalfTypeCorrect` and, through the
  refinement, `OnceOnBehalf`. `ResolverInv` says that a call past `auth` is authorised by its own
  token, by one under a key that it shares with the token's user, or by the configured fallback,
  as is every attempt on the wire, that a lookup in flight is for one of the caller's keys, and
  that a stored token is under a key of its user's. `OwedInv` says that what is owed to a call is
  stored, its own, and not among the keys that its lookups have passed.
- **`LoaderProofs`** of `OpenApiSource`: `TypeCorrect`, `OutcomesAreExact`,
  `PathsServedAsDocumented`, `NamesAsProfiled`. The properties compare what the recursion of
  the loader did with fixed points over the graph of the refs, so the proof needs both sides.
  Of the fixed points: a round that adds nothing is the last and every other one adds a ref,
  so that as many rounds as there are refs reach the least set that is closed (`ClosureLeast`,
  `ClosureFromEach`). Of the recursion, `StateOK`, that a chain `seen` repeats no ref, which
  bounds the stack by the number of refs; and, as long as nothing is republished:
  `ChainOK`, each ref of the chain stands in the place of the one before; `CoverageOK`, whatever
  stands in an inlined place is inlined or pending in some frame; `EndingOK`, an inlined ref
  that is not on the chain has no circle under it; `PathsOK`, a path has its documented
  operations, or just one frame has still to follow the ref that leads to them. With an empty
  stack they give the outcome of a load (`LoadedOK`), and each refusal has its own cause
  (`RefusedOK`). Chain and circle give the other direction: a ref met again lies under itself.
- **`LoaderProofs`** of `SpecCache`: `CacheTypeCorrect`, `LockIsNotLeaked`, `SuccessIsReadable`,
  `SpecIsNeverTornDown`. The invariant is these with `CacheOK` (types) and `EntersAsLoader` (only
  loaders wait to enter the critical section); that the waiters of the lock remain a queue
  of tasks needs what `RemoveFirst` leaves of a sequence.
- **`CatalogueProofs`**: `PromptsAreRendered`, `ParametersAreApart`. The first is a statement
  about two readers of one text: `ReadingsAgree`, that scanning what is left without `$$` and
  parsing left to right find the same names in a template that string.Template accepts and in
  which no dropped escape lies between a name and a letter, of any length; and `SoundIsStray`,
  that string.Template accepts a template exactly if it has no stray `$`, wherever the `$` stand.
  Both go by induction from the end of the template, over what each reader finds from a place on
  that is not in the middle of an escape (`Fresh`); the step at a placeholder shows that its text
  is copied as it is, and that the name ends where it ended although escapes behind it are gone,
  which is what `Joined` excludes. The second is `InterpolatedAtOnce`: replacing one parameter
  after the other, in any order, is the same as replacing all at once, by induction over the
  order, because a quoted value holds no placeholder (`QuoteType`); and `FilledAllSeparators`,
  that this neither adds nor removes a separator. `CatInv` adds that a loaded catalogue is one
  that was valid when it was read.
- **`SequenceLemmas`**: the least-number principle, as a fact about sets of naturals, from the
  library's well-founded relation on them; from it induction over a bound, up and down, and
  that a function defined by recursion exists and is unique; and from these what `FlattenSeq`,
  `SetToSeq` and `RemoveFirst` compute.
- **`ExportPaginatorProofs`**: `TypeCorrect`, `NothingTwice`, `LossIsBounded`, `QuietIsExact`.
  `OrderInv` says that, unless something was added in front, list and collected items are in
  the order of addition and what is collected comes before what the next page begins with.
  `LossInv` bounds what is `Missed`, listed before the next page's place and not collected, by the
  removals so far: a removal moves at most one item across that place, a page none. `QuietInv`
  says that without changes the collected items are the list's first pages.
- **`RequestGatesProofs`**: `TypeCorrect`, `BudgetsHold`, `LimitedOnlyForOwnUse`,
  `DispatchedAllowed`, `JudgedWereCharged`. `Conserved` is a conservation law of each account,
  that is of a principal and a bucket: what was charged to it plus what the bucket holds is at
  most the burst plus the refill, and nothing is charged to an account that no request can have.
  That a user, or a host where no more hops are trusted than there are proxies, has one account
  only is a lemma about `ResolveClientId`. `OwnUse` is the other bound, at least the burst, where
  exactly the proxies are trusted and so no two principals share a bucket. `GatesInv` says a
  request has cleared every gate it is past; `ChargedInv` that a principal's requests past the
  limiter are no more than what it was charged and that only such are judged, which needs
  finitely many requests to count.
- **`GatewayProofs`**: `TypeCorrect`, `OnlyFailuresOrphan`, `NamesakesNest`, `ServedIsWhole`; and of
  `ServeProcess`: `ProcessTypeCorrect`, `ServerListensAsTold`, `RedactionIsKept` and
  `ProcessImplementsGateway`, by which the first four hold of the process that the run checks.
  `OrphanInv` ties each build's end to its clients, `PrefixInv` says that accepted prefixes
  differ, `EqualNamesNest` that equal concatenations have nested prefixes, and `WholeInv` what
  a build has by the step it is at: the current mount as far as it was registered, and every
  mount before it in full. `ProcessInv` relates the cached settings and
  the place that is served to the commands so far: a cached value is the latest one of its class
  that counted, or the environment's after a reload or if there was none.
- **`DeploymentProofs`**: `TypeCorrect`, `ServesFailClosed`, `LoginsAreDurable`. `Admitted` says
  that what a replica serves with passed the validators and that its mode is of the closed set;
  that a mode which keeps state implies a checked key is a lemma about the operators. `Kept` says
  that a login's entry is in the store, at the place and under the key of the settings it was
  issued with, disk path and mounts among them, unless that place is a container's layer.

**Assumptions.** Beside types, the named assumptions that proofs use are these. `OpenApiSource`:
documents and fragments are finitely many (`FiniteAssumption`, without which following them
need not end), a `$ref` stands alone in its place and the paths are in the root document only
(`VersionAssumption`), no path is listed twice (`PathAssumption`: keys of a mapping).
`Catalogue`: what `quote` escapes does not come out again special, and separator and
placeholders are escaped (`PieceAssumption`); no letter of a name is `$` or a brace
(`LetterAssumption`); templates and paths are finite texts (`FileAssumption`). TLC evaluates all
of them on the runs' constants.

**How induction is done.** The library's induction theorems take an operator as parameter, which
the provers cannot instantiate. The proofs therefore induct over sets: a property of numbers
is the set of those that have it, and a set of naturals that is closed under the step has
them all (`SetInduction`, `BoundedInduction`, `DownwardInduction`). A recursive function is the
`CHOOSE` of a fixed point; `Iteration` and `DownwardRecursion` show that there is one.

**Model-checked only.** Liveness (`EveryCallEnds`, `EveryLoadEnds`, `Convergence`, `LoadEnds`,
`ExportEnds`), which is beyond the prover. All other properties of the passing runs are proved.
The properties of the three violation runs are false.

## 5. Not modelled

- **The OpenAPI surface beyond paths and names**: the version parameter that normalisation
  drops, descriptions, annotations, the patterns of route maps, and what FastMCP generates.
  Generated tools use the raw httpx client, so their calls have neither retries nor per-call
  auth. JSON and YAML parsing, the conversion of file URLs.
- **The OAuth protocol**: FastMCP's proxy and verifiers are external; the models say what the
  factories require of the settings and what becomes of the state they keep.
- **Types and ranges of single settings and profile fields**: a value or a profile is sound or
  it is not; what is modelled is which source it comes from and what sound values combine to.
- **Rendering**: CSV and JSON of the export with its config parsing, log lines, the banner.
- **Sentry**, the scaffold's files, static routes, test helpers: text and I/O without a state that
  another part reads.
- In `app.py`: the settings-less tool context and extra middleware that callers pass.
- In `RequestGates`: a missing peer address (`ip:unknown`), the tenant gate's `audit_only`,
  which no factory sets, and the expiry of a token within a request.
- In `Catalogue`: a value that is `..` is not escaped by `quote()`, whose `safe=""` leaves dots
  alone; what the upstream makes of such a segment is not modelled, `ParametersStayApart` says that
  it is one segment.
- In `Deployment`: paths are compared as strings, so that two spellings of one directory, and a
  volume mounted above the path, are different places; a volume that several replicas share.
- In `Gateway`, the clients of a failed build and those behind a caller's own lifespan stay open
  as in the code; `OrphansHaveACause` says that nothing else leaves one open.
- In `OnBehalfOf`: a token that moves from a key not yet read to one already read.
  `NoSpuriousMiss` speaks of keys that hold a token throughout.

## 6. Plan

Done, in this order: client and contract, retried writes, spec cache, on-behalf-of, export,
request gates, gateway, OpenAPI source, the process around the gateway, settings, profiles and
providers with the deployment, the extension catalogue; proofs of every invariant, action
property and refinement that a run checks. What is left, most valuable first:

1. **Operators of `Settings`, `Profiles` and `InboundAuth`**: lemmas that say for every environment
   what the validators together refuse.
2. **A whole request**: `RequestGates` in front of `OnBehalfOf`, so that a token that expires
   between the gates and the lookups becomes visible.
3. **The generated tools' calls** beside `UpstreamClient` on the shared pool, when a client without
   retries and per-call credentials is worth comparing with one that has both.
