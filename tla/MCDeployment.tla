----------------------------- MODULE MCDeployment -----------------------------
(* Two replicas under deployments that differ from one base in a setting or two. *)
EXTENDS Deployment, TLC

CONSTANTS r1, r2, data, backup

MCVariable ==
  {"AUTH_MODE", "ENVIRONMENT", "AUTH_JWT_SIGNING_KEY", "AUTH_REDIS_URL",
   "AUTH_STORAGE_ENCRYPTION_KEY", "AUTH_DISK_STORAGE_PATH", "OIDC_CLIENT_ID", "OIDC_CLIENT_SECRET",
   "OIDC_DISCOVERY_URL", "OIDC_AUTH_URI", "OIDC_TOKEN_URI", "OIDC_JWKS_URI",
   "ENTRA_CLIENT_ID", "ENTRA_CLIENT_SECRET", "ENTRA_TENANT_ID", "ENTRA_API_SCOPES",
   "GOOGLE_CLIENT_ID", "GOOGLE_CLIENT_SECRET", "GH_SECRET", "API_URL", "API_TOKEN"}

MCValue ==
  {"", "none", "production", "development", "oidc", "github", "keycloak", "entra-multi",
   "google", "unheard-of", "k1", "k2", "CHANGE_ME", "f1", "f2", "redis1", "redis2", "x",
   "/app/data/oauth-storage", "/srv/oauth"}

Env(given) ==
  [v \in Variable |-> IF v \in DOMAIN given THEN given[v] ELSE Unset]

Reads(v, default) == [variable |-> v, default |-> default, inSchema |-> FALSE]
Sends(type, from) ==
  [type |-> type, header |-> FALSE, from |-> from, inline |-> FALSE, target |-> FALSE]

Plain ==
  [sound |-> TRUE, references |-> {Reads("API_URL", Unset)}, backend |-> TRUE,
   outbound |-> Sends("bearer_env", "API_TOKEN"), config |-> {},
   secrets |-> [client_secret |-> Unset, introspection_client_secret |-> Unset]]
GitHub ==
  [Plain EXCEPT !.config = {"client_id"}, !.secrets.client_secret = "GH_SECRET"]
Keycloak ==
  [Plain EXCEPT !.config = {"realm_url"}, !.backend = FALSE,
     !.references = {Reads("GH_SECRET", "x"),
                     [variable |-> "OIDC_JWKS_URI", default |-> Unset, inSchema |-> TRUE]}]

Backing == [API_URL |-> "x", API_TOKEN |-> "x"]
Oidc ==
  [AUTH_MODE |-> "oidc", OIDC_CLIENT_ID |-> "x", OIDC_CLIENT_SECRET |-> "x",
   OIDC_DISCOVERY_URL |-> "x", AUTH_JWT_SIGNING_KEY |-> "k1"] @@ Backing
OnRedis ==
  [AUTH_REDIS_URL |-> "redis1", AUTH_STORAGE_ENCRYPTION_KEY |-> "f1"] @@ Oidc
Endpoints ==
  [AUTH_MODE |-> "oidc", OIDC_CLIENT_ID |-> "x", OIDC_CLIENT_SECRET |-> "x",
   OIDC_AUTH_URI |-> "x", OIDC_TOKEN_URI |-> "x", OIDC_JWKS_URI |-> "x",
   AUTH_JWT_SIGNING_KEY |-> "k1"] @@ Backing

Mount(at) == [v \in MountPoint |-> IF v \in DOMAIN at THEN at[v] ELSE NoVolume]

Roll(environ, dotenv, profile, at) ==
  [environ |-> Env(environ), dotenv |-> Env(dotenv), profile |-> profile, mounts |-> Mount(at)]

AtDefault(volume) == "/app/data/oauth-storage" :> volume
Elsewhere == [AUTH_DISK_STORAGE_PATH |-> "/srv/oauth"]

MCWorld ==
  { \* the base on Redis, with another storage key, signing key, Redis; half set
    Roll(OnRedis, <<>>, Plain, <<>>),
    Roll([AUTH_STORAGE_ENCRYPTION_KEY |-> "f2"] @@ OnRedis, <<>>, Plain, <<>>),
    Roll([AUTH_JWT_SIGNING_KEY |-> "k2"] @@ OnRedis, <<>>, Plain, <<>>),
    Roll([AUTH_REDIS_URL |-> "redis2"] @@ OnRedis, <<>>, Plain, <<>>),
    Roll([AUTH_STORAGE_ENCRYPTION_KEY |-> "k1"] @@ OnRedis, <<>>, Plain, <<>>),
    \* on disk, on a volume, at another path beside it, and at that path on the volume while
    \* another is where it was; the key in .env or a placeholder
    Roll(Endpoints, <<>>, Plain, AtDefault(data)),
    Roll(Elsewhere @@ Endpoints, <<>>, Plain, AtDefault(data)),
    Roll(Endpoints, Elsewhere, Plain, ("/srv/oauth" :> data) @@ AtDefault(backup)),
    Roll([AUTH_JWT_SIGNING_KEY |-> "CHANGE_ME"] @@ Oidc, <<>>, Plain, AtDefault(data)),
    Roll([AUTH_MODE |-> "github", GH_SECRET |-> ""] @@ Backing,
         [AUTH_JWT_SIGNING_KEY |-> "k1"], GitHub, AtDefault(data)),
    \* other modes, and what development allows
    Roll([AUTH_MODE |-> "keycloak", AUTH_JWT_SIGNING_KEY |-> "k1"], <<>>, Keycloak, <<>>),
    Roll([AUTH_MODE |-> "unheard-of", AUTH_JWT_SIGNING_KEY |-> "k1"] @@ Backing, <<>>,
         Plain, <<>>),
    Roll(Backing, <<>>, Plain, <<>>),
    Roll(Backing, [ENVIRONMENT |-> "development"], Plain, <<>>)}

\* .env.example, edited and copied.
MCScaffold ==
  {Roll(<<>>, [ENVIRONMENT |-> "development", AUTH_MODE |-> "none"] @@ Backing, Plain, <<>>),
   Roll(Backing, [ENVIRONMENT |-> "development"], Plain, <<>>)}

MCUnusable == {"", "CHANGE_ME"}
MCFernetKey == {"f1", "f2"}
MCInstalled == {"github", "keycloak", "entra-multi", "google"}
Symmetry == Permutations(Replica)
=============================================================================
