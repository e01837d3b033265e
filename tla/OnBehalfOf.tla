----------------------------- MODULE OnBehalfOf -----------------------------
(***************************************************************************)
(* auth/obo.py under http/client.py: UpstreamClient whose auth_headers()   *)
(* is PerUserTokenResolver.  Where UpstreamClient resolves a credential in *)
(* one step, the resolver here awaits one storage lookup after another     *)
(* while the OAuth proxy stores, moves and evicts tokens.                  *)
(***************************************************************************)
EXTENDS UpstreamClient, Sequences

CONSTANTS
  User,
  Part,           \* what the strings of prefixes and ids consist of
  Prefixes,       \* key_prefixes, in order; "" is <<>>
  Id,             \* what a JWT carries as jti or sub
  Claims,         \* the JWTs that requests arrive with
  NoCredential,
  FallbackCredential

NoId == <<>>      \* an absent or empty jti or sub

\* A verified token: its user, whether it embeds the upstream token itself, its ids.
Jwt == [user : User, embeds : BOOLEAN, jti : Id \cup {NoId}, sub : Id \cup {NoId}]

ASSUME IdAssumption == Id \subseteq Seq(Part) \ {NoId}
ASSUME ClaimsAssumption == Claims \subseteq Jwt
ASSUME PrefixAssumption == Prefixes \in Seq(Seq(Part))
ASSUME CredentialAssumption ==
  /\ NoCredential \notin User /\ FallbackCredential \notin User
  /\ NoCredential # FallbackCredential

\* A prefix and an id are put together; two pairs of them may give one key.
KeysUnder(id) == {Prefixes[i] \o id : i \in DOMAIN Prefixes}

Key == UNION {KeysUnder(id) : id \in Id}

\* All the keys under which a caller's token may be: those of its jti and of its sub.
KeysOf(j) ==
  IF j = NoCredential THEN {} ELSE UNION {KeysUnder(id) : id \in {j.jti, j.sub} \ {NoId}}

VARIABLES
  fallback,  \* whether a static fallback credential is configured
  stored,    \* whose usable upstream token each storage key holds now
  jwt,       \* the token each call runs under, or NoCredential when there is none
  cursor,    \* the storage lookup each call awaits; 0 when it awaits none
  cred,      \* whose upstream token the call's merged headers carry
  owed       \* history: the keys of a resolving call that have held a token ever
             \* since it began, but for those whose lookup raised

ovars == <<vars, fallback, stored, jwt, cursor, cred, owed>>
resolver == <<fallback, stored, jwt, cursor, cred, owed>>

OTypeOK ==
  /\ TypeOK
  /\ fallback \in BOOLEAN
  /\ stored \in [Key -> User \cup {NoCredential}]
  /\ jwt \in [Call -> Claims \cup {NoCredential}]
  /\ cursor \in [Call -> 0..(2 * Len(Prefixes))]
  /\ cred \in [Call -> User \cup {NoCredential, FallbackCredential}]
  /\ owed \in [Call -> SUBSET Key]

OInit ==
  /\ Init
  /\ fallback \in BOOLEAN
  /\ stored = [k \in Key |-> NoCredential]
  /\ jwt = [c \in Call |-> NoCredential]
  /\ cursor = [c \in Call |-> 0]
  /\ cred = [c \in Call |-> NoCredential]
  /\ owed = [c \in Call |-> {}]

Held == {k \in Key : stored[k] # NoCredential}

-----------------------------------------------------------------------------
(* _resolve_per_user.                                                      *)

\* jti before sub, each under every prefix in turn.
KeysFor(id) ==
  IF id = NoId THEN <<>> ELSE [i \in DOMAIN Prefixes |-> Prefixes[i] \o id]

\* Fault: sub is not tried after jti.
LookupFirstId(j) == IF j.jti # NoId THEN KeysFor(j.jti) ELSE KeysFor(j.sub)

LookupKeys(j) == KeysFor(j.jti) \o KeysFor(j.sub)

\* Fault: the caller's own JWT is forwarded in place of its upstream token.
ResolvedToJwt(c, user) ==
  /\ cred' = [cred EXCEPT ![c] = jwt[c]]
  /\ cursor' = [cursor EXCEPT ![c] = 0]
  /\ owed' = [owed EXCEPT ![c] = {}]
  /\ Issue(c)

\* Fault: the request goes out although the client was closed during the lookups.
ResolvedAfterClose(c, user) ==
  /\ cred' = [cred EXCEPT ![c] = user]
  /\ cursor' = [cursor EXCEPT ![c] = 0]
  /\ owed' = [owed EXCEPT ![c] = {}]
  /\ pc' = [pc EXCEPT ![c] = "pool"]
  /\ UNCHANGED <<slept, outcome, answer>>

\* A token was found: the header is merged and the request goes out with it.
Resolved(c, user) ==
  /\ cred' = [cred EXCEPT ![c] = user]
  /\ cursor' = [cursor EXCEPT ![c] = 0]
  /\ owed' = [owed EXCEPT ![c] = {}]
  /\ Issue(c)

\* Fault: a missing token lets the request out with no credential.
NotResolvedAnonymous(c) ==
  /\ cursor' = [cursor EXCEPT ![c] = 0]
  /\ Issue(c)
  /\ UNCHANGED cred

\* None was: the static fallback, or MissingUpstreamToken.
NotResolved(c) ==
  /\ cursor' = [cursor EXCEPT ![c] = 0]
  /\ \/ /\ fallback
        /\ cred' = [cred EXCEPT ![c] = FallbackCredential]
        /\ Issue(c)
     \/ /\ ~fallback
        /\ Finish(c, "noauth")
        /\ UNCHANGED cred

Embeds(c) == jwt[c] # NoCredential /\ jwt[c].embeds

\* Up to the first await.  Without an embedded token the storage is asked, if the
\* caller has a key and the context offers a storage; else nothing is owed.
BeginResolve(c) ==
  /\ pc[c] = "auth"
  /\ cursor[c] = 0
  /\ \/ Embeds(c) /\ Resolved(c, jwt[c].user)
     \/ /\ ~Embeds(c)
        /\ owed' = [owed EXCEPT ![c] = {}]
        /\ NotResolved(c)
     \/ /\ ~Embeds(c)
        /\ jwt[c] # NoCredential /\ LookupKeys(jwt[c]) # <<>>
        /\ cursor' = [cursor EXCEPT ![c] = 1]
        /\ UNCHANGED <<pc, outcome, answer, slept, cred, owed>>
  /\ UNCHANGED <<loop, fallback, stored, jwt>>

\* Fault: the first miss ends the resolution.
StopAtMiss(c) == NotResolved(c)

\* After a lookup that found nothing: the next one, or the end.
NextLookup(c) ==
  \/ /\ cursor[c] < Len(LookupKeys(jwt[c]))
     /\ cursor' = [cursor EXCEPT ![c] = @ + 1]
     /\ UNCHANGED <<pc, outcome, answer, slept, cred>>
  \/ /\ cursor[c] = Len(LookupKeys(jwt[c]))
     /\ NotResolved(c)

\* The awaited lookup returns a usable token, or none, or it raised and _safe_get made
\* nothing of it.
Lookup(c) ==
  /\ pc[c] = "auth"
  /\ cursor[c] > 0
  /\ LET key == LookupKeys(jwt[c])[cursor[c]]
     IN  \/ key \in Held /\ Resolved(c, stored[key])
         \/ key \notin Held /\ NextLookup(c) /\ UNCHANGED owed
         \/ NextLookup(c) /\ owed' = [owed EXCEPT ![c] = @ \ {key}]
  /\ UNCHANGED <<loop, fallback, stored, jwt>>

-----------------------------------------------------------------------------
(* Requests and the storage.                                               *)

\* get_access_token() is the caller's for the whole request.
RequestAs(c, m, j) ==
  /\ Request(c, m)
  /\ jwt' = [jwt EXCEPT ![c] = j]
  /\ owed' = [owed EXCEPT ![c] = Held \cap KeysOf(j)]
  /\ UNCHANGED <<fallback, stored, cursor, cred>>

\* The OAuth proxy stores a user's token under one of that user's keys, over what may be
\* there, or drops one.
StoreToken(j, k) ==
  /\ stored' = [stored EXCEPT ![k] = j.user]
  /\ UNCHANGED <<vars, fallback, jwt, cursor, cred, owed>>

EvictToken(k) ==
  /\ stored' = [stored EXCEPT ![k] = NoCredential]
  /\ owed' = [c \in Call |-> owed[c] \ {k}]
  /\ UNCHANGED <<vars, fallback, jwt, cursor, cred>>

-----------------------------------------------------------------------------

\* CancelledError also ends the resolution: "except Exception" does not stop it.
CancelResolving(c) ==
  /\ Cancel(c)
  /\ cursor' = [cursor EXCEPT ![c] = 0]
  /\ owed' = [owed EXCEPT ![c] = {}]
  /\ UNCHANGED <<fallback, stored, jwt, cred>>

\* All of the client but request()'s beginning and its auth_headers() step.
ClientStep(c) ==
  /\ \/ Send(c)
     \/ ConnectFailed(c)
     \/ PoolTimeout(c)
     \/ ReadFailed(c)
     \/ Response(c)
     \/ Wake(c)
     \/ Health(c)
  /\ UNCHANGED resolver

Upstream ==
  /\ \/ Close
     \/ \E m \in wire, s \in Status, performs \in BOOLEAN : Serve(m, s, performs)
  /\ UNCHANGED resolver

ONext ==
  \/ \E c \in Call :
       \/ \E m \in Method, j \in Claims \cup {NoCredential} : RequestAs(c, m, j)
       \/ BeginResolve(c)
       \/ Lookup(c)
       \/ CancelResolving(c)
       \/ ClientStep(c)
  \/ Upstream
  \/ \E j \in Claims : \E k \in KeysOf(j) : StoreToken(j, k)
  \/ \E k \in Key : EvictToken(k)

OSpec == OInit /\ [][ONext]_ovars

-----------------------------------------------------------------------------
(* Properties.                                                             *)

\* A key of the caller is also one of the user's: the same jti or sub, or other ones that
\* the prefixes make equal.
SharesKey(j, u) == \E i \in Claims : i.user = u /\ KeysOf(i) \cap KeysOf(j) # {}

\* An attempt of request() on the wire carries the caller's own token, or the static
\* fallback where one is configured, and never none.  It carries another user's only if
\* the two share a key and the caller's JWT embeds no token: not where the keys of users
\* are apart (obo.py:69-79, 104-111).
OwnCredential ==
  \A m \in wire : method[m.call] # "health" =>
    \/ /\ jwt[m.call] # NoCredential
       /\ \/ cred[m.call] = jwt[m.call].user
          \/ ~jwt[m.call].embeds /\ cred[m.call] \in User /\ SharesKey(jwt[m.call], cred[m.call])
    \/ fallback /\ cred[m.call] = FallbackCredential

\* A caller is failed, or served with the shared fallback, only for cause: its JWT embeds
\* no token, and none of its keys held one during the whole resolution, but for keys
\* whose lookup raised (obo.py:86-111).
NoSpuriousMiss ==
  \A c \in Call :
    (cred[c] = FallbackCredential \/ outcome[c] = "noauth") =>
      ~Embeds(c) /\ owed[c] = {}

\* Seen from the retry loop, the resolver is the one step of UpstreamClient's
\* AuthHeaders: all that is shown of that module holds with the real resolver.
ImplementsClient == Spec
=============================================================================
