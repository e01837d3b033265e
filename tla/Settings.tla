------------------------------ MODULE Settings ------------------------------
(***************************************************************************)
(* settings/: what BaseMcpSettings makes of a process's environment and of *)
(* the .env file, and the invariants that it enforces before anything is   *)
(* built from it.                                                          *)
(***************************************************************************)
CONSTANTS
  Variable,   \* names of environment variables
  Value,      \* what they may hold
  Unset,      \* what a variable that is not there is read as
  Unusable,   \* the signing keys that are blank or a CHANGE_ME placeholder once stripped
  FernetKey   \* the values that Fernet() accepts

ASSUME VariableAssumption ==
  {"AUTH_MODE", "ENVIRONMENT", "AUTH_JWT_SIGNING_KEY", "AUTH_REDIS_URL",
   "AUTH_STORAGE_ENCRYPTION_KEY", "AUTH_DISK_STORAGE_PATH"} \subseteq Variable
ASSUME ValueAssumption ==
  /\ {"", "none", "production", "/app/data/oauth-storage"} \subseteq Value
  /\ Unset \notin Value
  /\ "" \in Unusable /\ "" \notin FernetKey

Environment == [Variable -> Value \cup {Unset}]

\* Set and not empty: what a truth test of the setting asks.
Has(env, v) == env[v] \notin {Unset, ""}

\* The process's environment goes before the file.
ReadSettings(environ, dotenv) ==
  [v \in Variable |-> IF environ[v] # Unset THEN environ[v] ELSE dotenv[v]]

AuthMode(s) == IF s["AUTH_MODE"] = Unset THEN "none" ELSE s["AUTH_MODE"]

DiskPath(s) ==
  IF s["AUTH_DISK_STORAGE_PATH"] = Unset THEN "/app/data/oauth-storage"
                                         ELSE s["AUTH_DISK_STORAGE_PATH"]

IsProduction(s) == s["ENVIRONMENT"] \in {Unset, "production"}

IsEnvironment(s) ==
  s["ENVIRONMENT"] \in {Unset, "production", "staging", "development"}

\* validate_fernet_key: a key of another form is refused here, not at the first login.
ValidFernetKey(s) == s["AUTH_STORAGE_ENCRYPTION_KEY"] \in FernetKey

\* Fault: the key is tested as it is, not stripped, and a placeholder passes.
AnySigningKey(s) ==
  IF AuthMode(s) = "none"
    THEN ~IsProduction(s)
    ELSE /\ s["AUTH_JWT_SIGNING_KEY"] \notin {Unset, ""}
         /\ Has(s, "AUTH_REDIS_URL") => ValidFernetKey(s)

\* validate_persistence.
ValidPersistence(s) ==
  IF AuthMode(s) = "none"
    THEN ~IsProduction(s)
    ELSE /\ s["AUTH_JWT_SIGNING_KEY"] \notin Unusable \cup {Unset}
         /\ Has(s, "AUTH_REDIS_URL") => ValidFernetKey(s)

\* The fields parse, and the universal invariants go before the subclass's hook.
ValidSettings(s) == IsEnvironment(s) /\ ValidPersistence(s)
=============================================================================
