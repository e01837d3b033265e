----------------------------- MODULE InboundAuth -----------------------------
(***************************************************************************)
(* The inbound auth providers: plugins.build_auth_provider with            *)
(* auth/generic_oidc.py, providers/entra.py, google.py and generic.py, and *)
(* auth/storage.py, which gives the proxies their encrypted store.         *)
(***************************************************************************)
EXTENDS Settings

CONSTANTS
  Installed   \* the modes whose entry point is installed

ASSUME ProviderVariableAssumption ==
  {"OIDC_CLIENT_ID", "OIDC_CLIENT_SECRET", "OIDC_DISCOVERY_URL", "OIDC_AUTH_URI",
   "OIDC_TOKEN_URI", "OIDC_JWKS_URI", "ENTRA_CLIENT_ID", "ENTRA_CLIENT_SECRET",
   "ENTRA_TENANT_ID", "ENTRA_API_SCOPES", "GOOGLE_CLIENT_ID", "GOOGLE_CLIENT_SECRET"}
    \subseteq Variable

-----------------------------------------------------------------------------
(* providers/generic.py: what each spec-driven provider requires of the profile's       *)
(* auth.inbound.config, what it takes from a variable named there, and whether it is    *)
(* handed the store.                                                                    *)
Requires(config, secrets, storage) == [config |-> config, secrets |-> secrets, storage |-> storage]

SpecDriven ==
  {"auth0", "aws-cognito", "clerk", "discord", "github", "oci", "workos", "keycloak",
   "descope", "propelauth", "scalekit", "supabase"}

ProviderSpec == [mode \in SpecDriven |->
  CASE mode = "auth0" ->
         Requires({"config_url", "client_id", "audience"}, {"client_secret"}, TRUE)
    [] mode = "aws-cognito" -> Requires({"user_pool_id", "client_id"}, {"client_secret"}, TRUE)
    [] mode = "clerk" -> Requires({"domain", "client_id"}, {}, TRUE)
    [] mode \in {"discord", "github"} -> Requires({"client_id"}, {"client_secret"}, TRUE)
    [] mode = "oci" -> Requires({"config_url", "client_id"}, {"client_secret"}, TRUE)
    [] mode = "workos" -> Requires({"client_id", "authkit_domain"}, {"client_secret"}, TRUE)
    [] mode = "keycloak" -> Requires({"realm_url"}, {}, FALSE)
    [] mode = "descope" -> Requires({}, {}, FALSE)
    [] mode = "propelauth" ->
         Requires({"auth_url", "introspection_client_id"}, {"introspection_client_secret"}, FALSE)
    [] mode = "scalekit" -> Requires({"environment_url", "resource_id"}, {}, FALSE)
    [] mode = "supabase" -> Requires({"project_url"}, {}, FALSE)]

\* _build: a secret comes from the process's environment, through the variable that the
\* profile names, and may be empty.
BuildsFromSpec(spec, profile, environ) ==
  /\ spec.config \subseteq profile.config
  /\ \A f \in spec.secrets :
       profile.secrets[f] # Unset /\ environ[profile.secrets[f]] # Unset

\* build_generic_oidc_provider: by discovery, or by endpoints that are all given.
BuildsOidc(s) ==
  /\ Has(s, "OIDC_CLIENT_ID") /\ Has(s, "OIDC_CLIENT_SECRET")
  /\ \/ Has(s, "OIDC_DISCOVERY_URL")   \* and discover_endpoints finds all that it needs
     \/ \A v \in {"OIDC_AUTH_URI", "OIDC_TOKEN_URI", "OIDC_JWKS_URI"} : Has(s, v)

BuildsEntra(s) ==
  \A v \in {"ENTRA_CLIENT_ID", "ENTRA_CLIENT_SECRET", "ENTRA_TENANT_ID", "ENTRA_API_SCOPES"} :
    Has(s, v)

BuildsGoogle(s) == Has(s, "GOOGLE_CLIENT_ID") /\ Has(s, "GOOGLE_CLIENT_SECRET")

\* build_auth_provider: the modes are a closed set.
BuildsProvider(s, profile, environ) ==
  LET mode == AuthMode(s)
  IN  \/ mode = "none"
      \/ mode = "oidc" /\ BuildsOidc(s)
      \/ /\ mode \in Installed
         /\ \/ mode \in {"entra-single", "entra-multi"} /\ BuildsEntra(s)
            \/ mode = "google" /\ BuildsGoogle(s)
            \/ /\ mode \in SpecDriven
               /\ BuildsFromSpec(ProviderSpec[mode], profile, environ)

\* The providers that are proxies and keep what they issue in the client storage.
KeepsState(s) ==
  \/ AuthMode(s) \in {"oidc", "entra-single", "entra-multi", "google"}
  \/ AuthMode(s) \in SpecDriven /\ ProviderSpec[AuthMode(s)].storage

-----------------------------------------------------------------------------
(* build_client_storage.                                                   *)

UsesRedis(s) == Has(s, "AUTH_REDIS_URL")

\* The operator's key, or one derived from the signing key, as it is, and a fixed salt.
EncryptionKey(s) ==
  IF UsesRedis(s) THEN <<"operator", s["AUTH_STORAGE_ENCRYPTION_KEY"]>>
                  ELSE <<"derived", s["AUTH_JWT_SIGNING_KEY"]>>
=============================================================================
