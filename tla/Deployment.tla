------------------------------ MODULE Deployment ------------------------------
(***************************************************************************)
(* The replicas of a server from boot to crash: load_profile, get_settings *)
(* and build_app_from_profile refuse or serve, and the OAuth state of the  *)
(* logins goes to Redis, to a volume or to the container's own layer.  The *)
(* operator edits the deployment, recreates containers and restarts them.  *)
(***************************************************************************)
EXTENDS Profiles, InboundAuth, Naturals, Sequences

CONSTANTS
  Replica,
  World,       \* the deployments that the operator may roll out
  MountPoint,  \* paths where a volume may be mounted
  Volume,      \* the directories on a replica's volumes that they lead to
  NoVolume,
  NoSettings,
  MaxLogins,   \* bound on the logins
  MaxEdits     \* bound on the operator's edits

\* What a container is created with, and the .env file, which each boot reads anew.
\* mounts: where on a volume each path is, if one is mounted there.
Mounts == [MountPoint -> Volume \cup {NoVolume}]

ASSUME WorldAssumption ==
  World \subseteq
    [environ : Environment, dotenv : Environment, profile : Profile, mounts : Mounts]
ASSUME BoundAssumption ==
  MaxLogins \in Nat /\ MaxEdits \in Nat /\ NoSettings \notin Environment /\ NoVolume \notin Volume

VARIABLES
  world,      \* the deployment as the operator has it now
  edits,      \* how often it was edited
  container,  \* what each replica's container was created with
  refused,    \* the stage at which a replica's last boot was refused
  settings,   \* what each replica serves with
  store,      \* the encrypted OAuth state, wherever it is
  login       \* history: where and with what each login was issued; its jti is its index

vars == <<world, edits, container, refused, settings, store, login>>

Serving(r) == settings[r] # NoSettings

\* Where a replica's state is. Every replica has volumes of its own, and its container a
\* layer, which holds what is at no volume's path.
Layer(r) == {<<"layer", r, path>> : path \in Value \cup {Unset}}

Place ==
  ({"redis"} \X Value) \cup ({"volume"} \X Replica \X Volume)
    \cup UNION {Layer(r) : r \in Replica}

Key == {"operator", "derived"} \X (Value \cup {Unset})

Login == [at : Replica, mounts : Mounts, settings : Environment]

TypeOK ==
  /\ world \in World
  /\ edits \in 0..MaxEdits
  /\ container \in [Replica -> World]
  /\ refused \in [Replica -> {"no", "profile", "settings", "build"}]
  /\ settings \in [Replica -> Environment \cup {NoSettings}]
  /\ \A r \in Replica : Serving(r) => refused[r] = "no"
  /\ store \subseteq [place : Place, jti : 1..Len(login), key : Key]
  /\ login \in Seq(Login) /\ Len(login) <= MaxLogins

Init ==
  /\ world \in World
  /\ edits = 0
  /\ container = [r \in Replica |-> world]
  /\ refused = [r \in Replica |-> "no"]
  /\ settings = [r \in Replica |-> NoSettings]
  /\ store = {}
  /\ login = <<>>

\* Fault: the provider is built without client_storage, and FastMCP's own store is used.
OwnStore(r, s, mounts) == <<"layer", r, Unset>>

VolumeAt(mounts, path) == IF path \in MountPoint THEN mounts[path] ELSE NoVolume

\* The backend that build_client_storage selects, and where it is.
Backend(r, s, mounts) ==
  LET path == DiskPath(s)
      volume == VolumeAt(mounts, path)
  IN  IF UsesRedis(s) THEN <<"redis", s["AUTH_REDIS_URL"]>>
      ELSE IF volume # NoVolume THEN <<"volume", r, volume>>
      ELSE <<"layer", r, path>>

-----------------------------------------------------------------------------
(* The operator.                                                           *)

Edit ==
  /\ edits < MaxEdits
  /\ edits' = edits + 1
  /\ world' \in World \ {world}
  /\ UNCHANGED <<container, refused, settings, store, login>>

\* A new container: what was written to the old one's layer is gone.
Recreate(r) ==
  /\ ~Serving(r)
  /\ container' = [container EXCEPT ![r] = world]
  /\ refused' = [refused EXCEPT ![r] = "no"]
  /\ store' = {e \in store : e.place \notin Layer(r)}
  /\ UNCHANGED <<world, edits, settings, login>>

-----------------------------------------------------------------------------
(* A replica.                                                              *)

RefuseAt(r, stage) ==
  /\ refused' = [refused EXCEPT ![r] = stage]
  /\ UNCHANGED settings

\* main.py: the profile is loaded when it is imported, serve reads the settings, once in
\* the process, and builds the server. Subclasses refuse more settings, and a build can
\* fail for reasons outside.
Boot(r) ==
  LET environ == container[r].environ
      profile == container[r].profile
      s == ReadSettings(environ, world.dotenv)
  IN  /\ ~Serving(r)
      /\ \/ ~LoadsProfile(profile, environ) /\ RefuseAt(r, "profile")
         \/ LoadsProfile(profile, environ) /\ RefuseAt(r, "settings")
         \/ LoadsProfile(profile, environ) /\ ValidSettings(s) /\ RefuseAt(r, "build")
         \/ /\ LoadsProfile(profile, environ)
            /\ ValidSettings(s)
            /\ BuildsProvider(s, profile, environ)
            /\ profile.backend => BuildsResolver(profile.outbound, environ)
            /\ settings' = [settings EXCEPT ![r] = s]
            /\ refused' = [refused EXCEPT ![r] = "no"]
      /\ UNCHANGED <<world, edits, container, store, login>>

\* A provider that is a proxy issues a token and stores what it stands for.
LogIn(r) ==
  /\ Serving(r) /\ KeepsState(settings[r])
  /\ Len(login) < MaxLogins
  /\ login' = Append(login, [at |-> r, mounts |-> container[r].mounts,
                             settings |-> settings[r]])
  /\ store' = store \cup
       {[place |-> Backend(r, settings[r], container[r].mounts), jti |-> Len(login) + 1,
         key |-> EncryptionKey(settings[r])]}
  /\ UNCHANGED <<world, edits, container, refused, settings>>

\* The process ends, by itself or stopped; the container stays.
Crash(r) ==
  /\ Serving(r)
  /\ settings' = [settings EXCEPT ![r] = NoSettings]
  /\ UNCHANGED <<world, edits, container, refused, store, login>>

Next ==
  \/ Edit
  \/ \E r \in Replica : Recreate(r) \/ Boot(r) \/ LogIn(r) \/ Crash(r)

Spec == Init /\ [][Next]_vars

-----------------------------------------------------------------------------
(* Properties.                                                             *)

\* A replica that serves does so behind a provider that exists, or on purpose without one
\* and not in production; what a provider keeps is encrypted with a key that was checked
\* before, so that build_client_storage's assertion holds (settings/helpers.py:55-86,
\* plugins.py:79-92, auth/storage.py:68).
FailClosed ==
  \A r \in Replica : Serving(r) =>
    LET s == settings[r]
    IN  /\ IsProduction(s) => AuthMode(s) \in {"oidc"} \cup Installed
        /\ KeepsState(s) => /\ s["AUTH_JWT_SIGNING_KEY"] \notin Unusable
                            /\ UsesRedis(s) => ValidFernetKey(s)

\* FastMCP takes a token that its own signing key verifies and whose entry it can decrypt.
Usable(j, r) ==
  /\ login[j].settings["AUTH_JWT_SIGNING_KEY"] = settings[r]["AUTH_JWT_SIGNING_KEY"]
  /\ [place |-> Backend(r, settings[r], container[r].mounts), jti |-> j,
      key |-> EncryptionKey(settings[r])] \in store

\* The replica's deployment is to the login what it was when it was issued.
SameDeployment(l, r) ==
  LET s == settings[r]
  IN  /\ l.settings["AUTH_JWT_SIGNING_KEY"] = s["AUTH_JWT_SIGNING_KEY"]
      /\ l.settings["AUTH_REDIS_URL"] = s["AUTH_REDIS_URL"]
      /\ IF UsesRedis(s)
           THEN l.settings["AUTH_STORAGE_ENCRYPTION_KEY"] = s["AUTH_STORAGE_ENCRYPTION_KEY"]
           ELSE /\ l.at = r /\ DiskPath(l.settings) = DiskPath(s)
                /\ VolumeAt(container[r].mounts, DiskPath(s)) # NoVolume
                /\ VolumeAt(container[r].mounts, DiskPath(s)) = VolumeAt(l.mounts, DiskPath(s))

\* Logins outlive crashes, new containers, boots that are refused and edits that are taken
\* back: with the same keys, each is good at every replica behind the same Redis, and at
\* its own replica while it has the same disk path, with the same volume mounted there
\* (auth/storage.py:15-27, 95, docs/deployment.md:133-148).
DurableLogins ==
  \A j \in 1..Len(login), r \in Replica :
    Serving(r) /\ SameDeployment(login[j], r) => Usable(j, r)

\* "Settings load from the process environment and from a `.env` file"
\* (docs/deployment.md:40), and the generated project runs from a copy of its .env.example
\* (scaffold.py:228): a sound profile is refused only for a variable that is in neither.
ProfileFindsItsVariables ==
  \A r \in Replica : refused[r] = "profile" /\ edits = 0 /\ world.profile.sound =>
    \E ref \in world.profile.references :
      Resolve(ReadSettings(world.environ, world.dotenv), ref) = Unset
=============================================================================
