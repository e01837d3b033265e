---------------------------- MODULE RequestGates ----------------------------
(***************************************************************************)
(* The middleware chain that app.py puts in front of every request: the    *)
(* rate limiter of server/middleware.py, the tenant gate of                *)
(* providers/middleware.py, the role gate of providers/access_control.py.  *)
(* Requests pass it concurrently, each gate being an await, and share the  *)
(* limiter's buckets.                                                      *)
(***************************************************************************)
EXTENDS Integers, Sequences, FiniteSets

CONSTANTS
  Request,     \* the requests
  Subject,     \* what tokens carry as sub, or as oid
  Tenant,      \* as tid or tenant_id
  Role,        \* roles, as _extract_role_names and the allowlist normalise them
  Claims,      \* the verified tokens that requests arrive with
  Settings,    \* the configurations a server may be started with
  Address,     \* network addresses, of callers and of proxies
  Header,      \* the X-Forwarded-For headers that requests may arrive with
  Burst,       \* rate_limiter_burst_capacity
  Refill,      \* what a bucket regains in a tick of the clock
  MaxClock,    \* bound on the ticks
  NoClaim,     \* an absent sub, tid or roles claim
  NoToken,     \* no access token
  Stdio        \* the one caller of the stdio transport

\* A token as the gates read it; a roles claim that is not a list has no roles.
Token == [sub   : Subject \cup {NoClaim},
          tid   : Tenant \cup {NoClaim},
          roles : (SUBSET Role) \cup {NoClaim}]

\* auth is AUTH_MODE, gate the profile's access_control block, tenants and roles the
\* allowlists, hops rate_limiter_trusted_proxy_hops, global rate_limiter_global; proxies
\* are the reverse proxies that every HTTP request passes, outermost first.
Configuration ==
  [stdio : BOOLEAN, auth : {"none", "oidc", "entra-multi"}, limiter : BOOLEAN,
   global : BOOLEAN, hops : 0..10, proxies : Seq(Address), tenants : SUBSET Tenant,
   gate : BOOLEAN, roles : SUBSET Role, audit : BOOLEAN]

ASSUME RequestAssumption == IsFiniteSet(Request)
ASSUME ClaimsAssumption ==
  Claims \subseteq Token /\ NoToken \notin Claims /\ NoClaim \notin Subject \cup Tenant
ASSUME SettingsAssumption == Settings \subseteq Configuration
ASSUME NetworkAssumption ==
  /\ Header \subseteq Seq(Address)
  /\ Stdio \notin Address
ASSUME BucketAssumption == Burst \in Nat \ {0} /\ Refill \in Nat /\ MaxClock \in Nat

\* The keys of buckets: "sub:..." , "ip:..." and the one of a global limiter.
ClientId == ({"sub"} \X Subject) \cup ({"ip"} \X (Address \cup {Stdio})) \cup {<<"global">>}

\* Whom a budget is for: a user wherever it calls from, else the calling host.
Principal == ({"user"} \X Subject) \cup ({"host"} \X (Address \cup {Stdio}))

\* What each principal draws from each bucket is accounted for.
Account == Principal \X ClientId

\* Whose token a request carries, the host that sends it, and its header on arrival at
\* the outermost proxy.
Origin == [token : Claims \cup {NoToken}, address : Address, header : Header]

VARIABLES
  settings,  \* the server's configuration
  origin,    \* who sent each request and what it carries
  at,        \* the place each request has reached in the chain; 0 before it arrives
  outcome,   \* how it ended: "none" before
  bucket,    \* the tokens left to each client
  clock,     \* ticks since the start
  charged    \* history: how many requests of each principal passed the limiter, on the
             \* tokens of each bucket

vars == <<settings, origin, at, outcome, bucket, clock, charged>>

TypeOK ==
  /\ settings \in Settings
  /\ origin \in [Request -> Origin]
  /\ at \in [Request -> 0..4]
  /\ outcome \in [Request -> {"none", "limited", "forbidden", "dispatched"}]
  /\ bucket \in [ClientId -> 0..Burst]
  /\ clock \in 0..MaxClock
  /\ charged \in [Account -> Nat]

\* A bucket is made full when its client is first seen.
Init ==
  /\ settings \in Settings
  /\ origin \in [Request -> Origin]
  /\ \A r \in Request : origin[r].token = NoToken <=> settings.auth = "none" \/ settings.stdio
  /\ at = [r \in Request |-> 0]
  /\ outcome = [r \in Request |-> "none"]
  /\ bucket = [i \in ClientId |-> Burst]
  /\ clock = 0
  /\ charged = [a \in Account |-> 0]

-----------------------------------------------------------------------------
(* The client's identity.                                                  *)

\* Each proxy appends the address it was called from to what it received.
ForwardedFor(o, s) ==
  IF s.proxies = <<>> THEN o.header
  ELSE o.header \o <<o.address>> \o SubSeq(s.proxies, 1, Len(s.proxies) - 1)

Direct(o, s) == IF s.proxies = <<>> THEN o.address ELSE s.proxies[Len(s.proxies)]

Smaller(a, b) == IF a < b THEN a ELSE b

\* Fault: reads the last entry, whatever the number of hops.
LastHop(xff, hops) == xff[Len(xff)]

\* The entry `hops` from the right, or the leftmost if there are fewer.
VerifiedHop(xff, hops) == xff[Len(xff) - Smaller(Len(xff), hops) + 1]

HasSubject(o) == o.token # NoToken /\ o.token.sub # NoClaim

\* Fault: users are told apart by their address.
ResolveByAddress(o, s) ==
  IF s.stdio THEN <<"ip", Stdio>>
  ELSE IF s.hops > 0 /\ ForwardedFor(o, s) # <<>>
    THEN <<"ip", VerifiedHop(ForwardedFor(o, s), s.hops)>>
  ELSE <<"ip", Direct(o, s)>>

ResolveClientId(o, s) ==
  IF HasSubject(o) THEN <<"sub", o.token.sub>>
  ELSE IF s.stdio THEN <<"ip", Stdio>>
  ELSE IF s.hops > 0 /\ ForwardedFor(o, s) # <<>>
    THEN <<"ip", VerifiedHop(ForwardedFor(o, s), s.hops)>>
  ELSE <<"ip", Direct(o, s)>>

BucketOf(o, s) == IF s.global THEN <<"global">> ELSE ResolveClientId(o, s)

PrincipalOf(o, s) ==
  IF HasSubject(o) THEN <<"user", o.token.sub>>
  ELSE <<"host", IF s.stdio THEN Stdio ELSE o.address>>

AccountOf(o, s) == <<PrincipalOf(o, s), BucketOf(o, s)>>

-----------------------------------------------------------------------------
(* The chain.                                                              *)

Only(name, condition) == IF condition THEN <<name>> ELSE <<>>

\* Fault: the limiter is added after the gates.
ChainLimiterLast(s) ==
  Only("tenants", s.auth = "entra-multi" /\ s.tenants # {})
    \o Only("roles", s.gate /\ s.roles # {})
    \o Only("limiter", s.limiter)

\* In the order of app.py; a middleware that its builder does not make is not there.
\* (A caller's extra middleware would stand between the two gates.)
Chain(s) ==
  Only("limiter", s.limiter)
    \o Only("tenants", s.auth = "entra-multi" /\ s.tenants # {})
    \o Only("roles", s.gate /\ s.roles # {})

Facing(r, name) ==
  /\ outcome[r] = "none"
  /\ at[r] \in DOMAIN Chain(settings)
  /\ Chain(settings)[at[r]] = name

CallNext(r) == at' = [at EXCEPT ![r] = @ + 1] /\ UNCHANGED outcome

End(r, o) == outcome' = [outcome EXCEPT ![r] = o] /\ UNCHANGED at

TenantAllowed(token, s) == token.tid # NoClaim /\ token.tid \in s.tenants

\* Fault: an empty roles claim counts as an absent one.
RoleAllowedIfEmpty(token, s) ==
  token.roles \in {NoClaim, {}} \/ token.roles \cap s.roles # {}

RoleAllowed(token, s) == token.roles = NoClaim \/ token.roles \cap s.roles # {}

-----------------------------------------------------------------------------
(* The actions.                                                            *)

Arrive(r) ==
  /\ at[r] = 0
  /\ at' = [at EXCEPT ![r] = 1]
  /\ UNCHANGED <<settings, origin, outcome, bucket, clock, charged>>

\* Fault: the bucket is not looked at before it is charged.
RateLimitUnchecked(r) ==
  /\ Facing(r, "limiter")
  /\ bucket' = [bucket EXCEPT ![BucketOf(origin[r], settings)] = @ - 1]
  /\ charged' = [charged EXCEPT ![AccountOf(origin[r], settings)] = @ + 1]
  /\ CallNext(r)
  /\ UNCHANGED <<settings, origin, clock>>

RateLimit(r) ==
  /\ Facing(r, "limiter")
  /\ LET b == BucketOf(origin[r], settings)
     IN  \/ /\ bucket[b] > 0
            /\ bucket' = [bucket EXCEPT ![b] = @ - 1]
            /\ charged' = [charged EXCEPT ![AccountOf(origin[r], settings)] = @ + 1]
            /\ CallNext(r)
         \/ /\ bucket[b] = 0
            /\ End(r, "limited")
            /\ UNCHANGED <<bucket, charged>>
  /\ UNCHANGED <<settings, origin, clock>>

CheckTenant(r) ==
  /\ Facing(r, "tenants")
  /\ IF origin[r].token = NoToken \/ TenantAllowed(origin[r].token, settings)
       THEN CallNext(r)
       ELSE End(r, "forbidden")
  /\ UNCHANGED <<settings, origin, bucket, clock, charged>>

CheckRoles(r) ==
  /\ Facing(r, "roles")
  /\ IF \/ origin[r].token = NoToken
        \/ RoleAllowed(origin[r].token, settings)
        \/ settings.audit
       THEN CallNext(r)
       ELSE End(r, "forbidden")
  /\ UNCHANGED <<settings, origin, bucket, clock, charged>>

Dispatch(r) ==
  /\ outcome[r] = "none"
  /\ at[r] = Len(Chain(settings)) + 1
  /\ End(r, "dispatched")
  /\ UNCHANGED <<settings, origin, bucket, clock, charged>>

\* Time passes: every bucket regains up to its capacity.
Tick ==
  /\ clock < MaxClock
  /\ clock' = clock + 1
  /\ bucket' = [i \in ClientId |-> Smaller(Burst, bucket[i] + Refill)]
  /\ UNCHANGED <<settings, origin, at, outcome, charged>>

Next ==
  \/ \E r \in Request :
       Arrive(r) \/ RateLimit(r) \/ CheckTenant(r) \/ CheckRoles(r) \/ Dispatch(r)
  \/ Tick

Spec == Init /\ [][Next]_vars

-----------------------------------------------------------------------------
(* Properties.                                                             *)

\* The buckets that a principal has drawn on.
Drawn(p) == {b \in ClientId : charged[<<p, b>>] > 0}

\* What the limiter promises under any configuration: no principal gets more out of a
\* bucket than its burst and the time allow, a user draws on one bucket only, from
\* however many hosts it calls, and so does an anonymous host, whatever X-Forwarded-For
\* header it sends, unless more hops are trusted than there are proxies: of the default
\* of one hop, a server without a proxy (server/middleware.py:46-68).
BudgetHolds ==
  \A p \in Principal :
    /\ \A b \in ClientId : charged[<<p, b>>] <= Burst + Refill * clock
    /\ p[1] = "user" \/ settings.hops <= Len(settings.proxies) =>
         \A b, c \in Drawn(p) : b = c

\* Nobody is limited for what others do: where exactly the proxies that are there are
\* trusted and the limit is per client, a limited request's own principal has used up
\* its burst (server/middleware.py:6-13).
LimitedForOwnUse ==
  ~settings.global /\ settings.hops = Len(settings.proxies) =>
    \A r \in Request :
      outcome[r] = "limited" => charged[AccountOf(origin[r], settings)] >= Burst

Judged(a) ==
  {r \in Request : /\ outcome[r] \in {"forbidden", "dispatched"}
                   /\ AccountOf(origin[r], settings) = a}

\* Where the limiter is on, all that the gates let through or refuse has been charged:
\* nobody can try the gates more often than the limit allows (app.py:137-154).
JudgedIsCharged ==
  settings.limiter => \A a \in Account : Cardinality(Judged(a)) <= charged[a]


\* A request that reaches the tools over an authenticated HTTP endpoint satisfies both
\* allowlists: its token is of a listed tenant, and has a listed role if it names any
\* and the role check is not audit-only (access_control.py:75-94, providers/middleware.py:33-43).
DispatchedIsAllowed ==
  \A r \in Request :
    outcome[r] = "dispatched" /\ origin[r].token # NoToken =>
      /\ settings.auth = "entra-multi" /\ settings.tenants # {} =>
           origin[r].token.tid \in settings.tenants
      /\ settings.gate /\ settings.roles # {} /\ ~settings.audit
           /\ origin[r].token.roles # NoClaim =>
           origin[r].token.roles \cap settings.roles # {}
=============================================================================
