------------------------------ MODULE Profiles ------------------------------
(***************************************************************************)
(* profile/loader.py and the outbound half of plugins.py: how a profile    *)
(* takes its values and its upstream credential from the environment of    *)
(* the process.                                                            *)
(***************************************************************************)
EXTENDS Settings

CONSTANTS
  ResolverPlugin   \* the outbound types that entry points contribute

\* A "${env:VAR}" or "${env:VAR:-default}" somewhere in the profile's JSON.
Reference == [variable : Variable, default : Value \cup {Unset}, inSchema : BOOLEAN]

\* auth.outbound: which of its fields are given, and the variable that it names.
Outbound ==
  [type : STRING, header : BOOLEAN, from : Variable \cup {Unset}, inline : BOOLEAN,
   target : BOOLEAN]

\* sound: the file is there, it is JSON and, once interpolated, what the models accept.
\* config and secrets: auth.inbound.config, and the variables that its "<key>_env" name.
Profile ==
  [sound : BOOLEAN, references : SUBSET Reference, backend : BOOLEAN, outbound : Outbound,
   config : SUBSET STRING,
   secrets : [{"client_secret", "introspection_client_secret"} -> Variable \cup {Unset}]]

-----------------------------------------------------------------------------
(* load_profile.                                                           *)

\* _interpolate, of one reference: Unset stands for the ProfileError.
Resolve(env, ref) ==
  IF Has(env, ref.variable) \/ ref.default = Unset THEN env[ref.variable] ELSE ref.default

\* What "$schema" refers to is dropped before anything is interpolated.
LoadsProfile(p, env) ==
  /\ p.sound
  /\ \A ref \in p.references : ~ref.inSchema => Resolve(env, ref) # Unset

-----------------------------------------------------------------------------
(* build_outbound_resolver.                                                *)

\* _read_secret: a variable that is named must be set, be it to nothing.
ReadsSecret(cfg, env) ==
  IF cfg.from # Unset THEN env[cfg.from] # Unset ELSE cfg.inline

\* The types are a closed set, each with what it cannot be built without.
BuildsResolver(cfg, env) ==
  \/ cfg.type \in {"none", "per_user_token"} \cup ResolverPlugin
  \/ cfg.type = "static_header" /\ cfg.header /\ ReadsSecret(cfg, env)
  \/ cfg.type = "bearer_env" /\ ReadsSecret(cfg, env)
  \/ cfg.type = "python" /\ cfg.target
=============================================================================
