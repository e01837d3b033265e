----------------------------- MODULE ServeProcess -----------------------------
(***************************************************************************)
(* The process that Gateway's builds share: the commands that make_cli     *)
(* defines (cli.py), the settings singletons they read and write           *)
(* (settings/factory.py), the logging that the first of them sets up       *)
(* (observability/logging_setup.py) and the transport that is run          *)
(* (server/runner.py).                                                     *)
(***************************************************************************)
EXTENDS Gateway

CONSTANTS
  SettingsClass,
  Host, Port, Transport,
  Fragment,        \* field names that servers have redacted, beyond the baseline
  NotGiven,        \* an option that the command line leaves out
  NotCached,       \* a class that get_settings has no instance of
  Environ,         \* the endpoint that the environment configures
  Command          \* how servers may be started

Endpoint == [host : Host, port : Port, transport : Transport]

ASSUME CommandAssumption ==
  /\ Environ \in Endpoint /\ Environ.transport \in {"streamable-http", "stdio"}
  /\ {"", "::"} \subseteq Host
  /\ Command \subseteq
       [cls : SettingsClass, host : Host \cup {NotGiven}, port : Port \cup {NotGiven},
        transport : Transport \cup {NotGiven}, fragments : SUBSET Fragment]
  /\ NotGiven \notin Host /\ NotGiven \notin Port /\ NotGiven \notin Transport
  /\ NotCached \notin [host : Host, port : Port]

VARIABLES
  command,    \* history: the command behind each build
  cached,     \* _cache: of the settings, where to bind
  latched,    \* _initialized
  masked,     \* the fragments that logs are redacted for, beyond the baseline
  endpoint    \* where the server that serves was told to listen

ownVars == <<command, cached, latched, masked, endpoint>>
processVars == <<vars, ownVars>>

ProcessTypeOK ==
  /\ command \in Seq(Command)
  /\ Len(command) = IF status = "idle" THEN attempt - 1 ELSE attempt
  /\ cached \in [SettingsClass -> [host : Host, port : Port] \cup {NotCached}]
  /\ latched \in BOOLEAN
  /\ masked \subseteq Fragment
  /\ endpoint \in Endpoint

ProcessInit ==
  /\ Init
  /\ command = <<>>
  /\ cached = [c \in SettingsClass |-> NotCached]
  /\ latched = FALSE
  /\ masked = {}
  /\ endpoint = Environ

\* Which options count: of a host, any that is given, of a port none that is 0, of a
\* transport none that is empty.
Counts(option, value) ==
  value \notin (IF option = "port" THEN {NotGiven, 0}
                ELSE IF option = "transport" THEN {NotGiven, ""} ELSE {NotGiven})

Chosen(c, option, otherwise) == IF Counts(option, c[option]) THEN c[option] ELSE otherwise

FromEnviron == [host |-> Environ.host, port |-> Environ.port]

\* Fault: one instance for all classes.
SharedSettings(c) ==
  IF \E d \in SettingsClass : cached[d] # NotCached
    THEN cached[CHOOSE d \in SettingsClass : cached[d] # NotCached]
    ELSE FromEnviron

\* get_settings: the environment is read once per class.
GetSettings(c) == IF cached[c] = NotCached THEN FromEnviron ELSE cached[c]

-----------------------------------------------------------------------------
(* The process's steps, those of Gateway among them.                       *)

\* get_settings with force_reload, or reset_settings_cache.
ReloadSettings(c) ==
  /\ status \in {"idle", "over"}
  /\ cached' = [cached EXCEPT ![c] = FromEnviron]
  /\ UNCHANGED <<vars, command, latched, masked, endpoint>>

\* Fault: every call configures anew.
SetUpEachTime(fragments) ==
  /\ latched' = TRUE
  /\ masked' = fragments

\* setup_logging: only the first call in a process counts.
SetUpLogging(fragments) ==
  /\ latched' = TRUE
  /\ masked' = IF latched THEN masked ELSE fragments

\* A program may call it before it builds anything.
SetUpFirst(fragments) ==
  /\ status = "idle"
  /\ SetUpLogging(fragments)
  /\ UNCHANGED <<vars, command, cached, endpoint>>

\* reset_logging, for tests: the next set-up counts again, and till then nothing changes.
ResetLogging ==
  /\ status \in {"idle", "over"}
  /\ latched' = FALSE
  /\ UNCHANGED <<vars, command, cached, masked, endpoint>>

\* serve: host and port are written into the cached settings, the transport is not.
\* A gateway's program has no options to pass, and build_gateway no fragments.
StartCommand(c) ==
  /\ plan.gateway => /\ c.host = NotGiven /\ c.port = NotGiven /\ c.transport = NotGiven
                     /\ c.fragments = {}
  /\ Start
  /\ command' = Append(command, c)
  /\ cached' = [cached EXCEPT ![c.cls] =
                  [host |-> Chosen(c, "host", GetSettings(c.cls).host),
                   port |-> Chosen(c, "port", GetSettings(c.cls).port)]]
  /\ UNCHANGED <<latched, masked, endpoint>>

\* build_app_from_profile sets logging up before the auth provider, which may raise.
SetUpAndBuildAuth ==
  /\ BuildAuth
  /\ SetUpLogging(command[attempt].fragments)
  /\ UNCHANGED <<command, cached, endpoint>>

\* No host means any.
Bound(host) == IF host = "" THEN "::" ELSE host

\* run_transport refuses an unknown transport.
ServeCommand ==
  LET last == command[attempt]
      chosen == Chosen(last, "transport", Environ.transport)
      bind == cached[last.cls]
  IN  /\ Serve
      /\ IF status' = "serving"
           THEN /\ chosen \in {"streamable-http", "stdio"}
                /\ endpoint' = [host |-> Bound(bind.host), port |-> bind.port,
                                transport |-> chosen]
           ELSE UNCHANGED endpoint
      /\ UNCHANGED <<command, cached, latched, masked>>

GatewayStep ==
  /\ \/ CheckPrefix \/ BuildClient \/ BuildSources \/ Construct \/ AddMiddleware
     \/ RegisterNext \/ AllRegistered \/ LoadExtensions \/ Mount \/ Stop \/ Again
  /\ UNCHANGED ownVars

ProcessNext ==
  \/ \E c \in SettingsClass : ReloadSettings(c)
  \/ ResetLogging
  \/ \E f \in SUBSET Fragment : SetUpFirst(f)
  \/ \E c \in Command : StartCommand(c)
  \/ SetUpAndBuildAuth \/ ServeCommand \/ GatewayStep

ProcessSpec == ProcessInit /\ [][ProcessNext]_processVars

-----------------------------------------------------------------------------
(* Properties.                                                             *)

\* The value is that of the latest command of the server's settings class to give one,
\* the last command included; or it is the environment's, and the last gave none.
Told(option, value) ==
  LET last == command[attempt]
      giving(a) == command[a].cls = last.cls /\ Counts(option, command[a][option])
  IN  \/ value = Environ[option] /\ ~giving(attempt)
      \/ \E a \in 1..attempt :
           /\ giving(a) /\ command[a][option] = value
           /\ \A k \in 1..attempt : k > a => ~giving(k)

\* A server listens where its command says, in as far as its options count, or else its
\* environment; only a host or a port may come from elsewhere, and then from the latest
\* command of the same settings class that gave one, never from another server's class,
\* and never the transport (cli.py:68-73, settings/factory.py:15-26).
ListensAsTold ==
  status = "serving" =>
    /\ \E host \in Host : endpoint.host = Bound(host) /\ Told("host", host)
    /\ Told("port", endpoint.port)
    /\ endpoint.transport = Chosen(command[attempt], "transport", Environ.transport)

\* Once logging is set up, what it is redacted for stays redacted in the process, whatever
\* is built, fails or is configured after it, unless a test has reset it ("added, the
\* built-in ones are never dropped", docs/observability.md:137; logging_setup.py:42-45).
RedactionNeverShrinks == [][latched => masked \subseteq masked']_processVars
=============================================================================
