--------------------------- MODULE DeploymentProofs ---------------------------
(***************************************************************************)
(* Theorems about Deployment, for any replicas, deployments, variables and *)
(* bounds.                                                                 *)
(***************************************************************************)
EXTENDS Deployment, SequenceTheorems, TLAPS

-----------------------------------------------------------------------------
(* What is read and computed has its type.                                 *)

LEMMA WorldTyped ==
  ASSUME NEW w \in World
  PROVE  w.environ \in Environment /\ w.dotenv \in Environment /\ w.mounts \in Mounts
  BY WorldAssumption

LEMMA ReadTyped ==
  ASSUME NEW environ \in Environment, NEW dotenv \in Environment
  PROVE  ReadSettings(environ, dotenv) \in Environment
  BY DEF ReadSettings, Environment

LEMMA EntryTyped ==
  ASSUME NEW s \in Environment, NEW r \in Replica, NEW m \in Mounts
  PROVE  Backend(r, s, m) \in Place /\ EncryptionKey(s) \in Key
  <1> /\ s["AUTH_REDIS_URL"] \in Value \cup {Unset}
      /\ s["AUTH_STORAGE_ENCRYPTION_KEY"] \in Value \cup {Unset}
      /\ s["AUTH_JWT_SIGNING_KEY"] \in Value \cup {Unset}
    BY VariableAssumption DEF Environment
  <1>1. EncryptionKey(s) \in Key
    BY DEF EncryptionKey, Key, UsesRedis, Has
  <1>2. DiskPath(s) \in Value
    BY VariableAssumption, ValueAssumption DEF Environment, DiskPath
  <1>3. VolumeAt(m, DiskPath(s)) \in Volume \cup {NoVolume}
    BY DEF VolumeAt, Mounts
  <1>4. Backend(r, s, m) \in Place
    <2>1. CASE UsesRedis(s)
      BY <2>1 DEF Backend, Place, UsesRedis, Has
    <2>2. CASE ~UsesRedis(s) /\ VolumeAt(m, DiskPath(s)) # NoVolume
      BY <1>3, <2>2 DEF Backend, Place
    <2>3. CASE ~UsesRedis(s) /\ VolumeAt(m, DiskPath(s)) = NoVolume
      <3>1. Backend(r, s, m) = <<"layer", r, DiskPath(s)>>
        BY <2>3 DEF Backend
      <3>2. Backend(r, s, m) \in Layer(r)
        BY <1>2, <3>1 DEF Layer
      <3>3. QED
        BY <3>2 DEF Place
    <2>4. QED
      BY <2>1, <2>2, <2>3
  <1>5. QED
    BY <1>1, <1>4

-----------------------------------------------------------------------------
(* TypeOK.                                                                 *)

LEMMA TypeInit == Init => TypeOK
  BY BoundAssumption, EmptySeq DEF Init, TypeOK, Serving

LEMMA TypeNext == TypeOK /\ [Next]_vars => TypeOK'
  <1> SUFFICES ASSUME TypeOK, [Next]_vars PROVE TypeOK'
    OBVIOUS
  <1> USE DEF TypeOK, Serving
  <1>1. CASE Edit
    BY <1>1, BoundAssumption DEF Edit
  <1>2. ASSUME NEW r \in Replica, Recreate(r) PROVE TypeOK'
    BY <1>2 DEF Recreate
  <1>3. ASSUME NEW r \in Replica, Boot(r) PROVE TypeOK'
    <2> DEFINE s == ReadSettings(container[r].environ, world.dotenv)
    <2>1. s \in Environment
      BY WorldTyped, ReadTyped
    <2> HIDE DEF s
    <2>2. \/ /\ UNCHANGED settings
             /\ settings[r] = NoSettings
             /\ \E stage \in {"profile", "settings", "build"} :
                  refused' = [refused EXCEPT ![r] = stage]
          \/ /\ settings' = [settings EXCEPT ![r] = s]
             /\ refused' = [refused EXCEPT ![r] = "no"]
      BY <1>3 DEF Boot, RefuseAt, s
    <2>3. UNCHANGED <<world, edits, container, store, login>>
      BY <1>3 DEF Boot
    <2>4. QED
      BY <2>1, <2>2, <2>3
  <1>4. ASSUME NEW r \in Replica, LogIn(r) PROVE TypeOK'
    <2> DEFINE s == settings[r]
               entry == [place |-> Backend(r, s, container[r].mounts), jti |-> Len(login) + 1,
                         key |-> EncryptionKey(s)]
               l == [at |-> r, mounts |-> container[r].mounts, settings |-> s]
    <2>1. s \in Environment /\ container[r].mounts \in Mounts
      BY <1>4, WorldTyped DEF LogIn
    <2>2. l \in Login
      BY <2>1 DEF Login
    <2>3. /\ login' \in Seq(Login) /\ Len(login') = Len(login) + 1
          /\ Len(login') <= MaxLogins
      <3>1. login' = Append(login, l) /\ Len(login) < MaxLogins
        BY <1>4 DEF LogIn
      <3> HIDE DEF l
      <3>2. QED
        BY <2>2, <3>1, BoundAssumption
    <2>4. entry \in [place : Place, jti : 1..Len(login'), key : Key]
      BY <2>1, <2>3, EntryTyped
    <2>5. store \subseteq [place : Place, jti : 1..Len(login'), key : Key]
      BY <2>3
    <2>6. store' \subseteq [place : Place, jti : 1..Len(login'), key : Key]
      <3>1. store' = store \cup {entry}
        BY <1>4 DEF LogIn
      <3> HIDE DEF entry
      <3>2. QED
        BY <2>4, <2>5, <3>1
    <2>7. UNCHANGED <<world, edits, container, refused, settings>>
      BY <1>4 DEF LogIn
    <2>8. QED
      BY <2>3, <2>6, <2>7
  <1>5. ASSUME NEW r \in Replica, Crash(r) PROVE TypeOK'
    BY <1>5 DEF Crash
  <1>6. CASE UNCHANGED vars
    BY <1>6 DEF vars
  <1>7. QED
    BY <1>1, <1>2, <1>3, <1>4, <1>5, <1>6 DEF Next

\* Every variable has its type: what a replica serves with is an environment, and every
\* entry of the store is a login's, at a place of a backend.
THEOREM TypeCorrect == Spec => []TypeOK
  <1>1. Init => TypeOK
    BY TypeInit
  <1>2. TypeOK /\ [Next]_vars => TypeOK'
    BY TypeNext
  <1>3. QED
    BY <1>1, <1>2, PTL DEF Spec

-----------------------------------------------------------------------------
(* FailClosed: what serves went through the validators and the closed set. *)

Admitted ==
  \A r \in Replica : Serving(r) =>
    /\ ValidSettings(settings[r])
    /\ AuthMode(settings[r]) \in {"none", "oidc"} \cup Installed

LEMMA AdmittedNext == Admitted /\ TypeOK /\ [Next]_vars => Admitted'
  <1> SUFFICES ASSUME Admitted, TypeOK, [Next]_vars PROVE Admitted'
    OBVIOUS
  <1>1. CASE UNCHANGED settings
    BY <1>1 DEF Admitted, Serving
  <1>2. ASSUME NEW r \in Replica, Boot(r) PROVE Admitted'
    <2> DEFINE s == ReadSettings(container[r].environ, world.dotenv)
    <2>1. CASE UNCHANGED settings
      BY <2>1, <1>1
    <2>2. CASE /\ settings' = [settings EXCEPT ![r] = s]
               /\ ValidSettings(s)
               /\ BuildsProvider(s, container[r].profile, container[r].environ)
      <3>1. AuthMode(s) \in {"none", "oidc"} \cup Installed
        <4> HIDE DEF s
        <4> QED
          BY <2>2 DEF BuildsProvider
      <3> HIDE DEF s
      <3>2. QED
        BY <2>2, <3>1 DEF Admitted, TypeOK, Serving
    <2>3. QED
      BY <1>2, <2>1, <2>2 DEF Boot, RefuseAt
  <1>3. ASSUME NEW r \in Replica, Crash(r) PROVE Admitted'
    BY <1>3 DEF Crash, Admitted, TypeOK, Serving
  <1>4. QED
    BY <1>1, <1>2, <1>3 DEF Next, Edit, Recreate, LogIn, vars

\* Without a provider there is nothing that keeps state.
LEMMA KeeperHasMode ==
  ASSUME NEW s, KeepsState(s)
  PROVE  AuthMode(s) # "none"
  BY DEF KeepsState, SpecDriven

LEMMA AdmittedFailsClosed == Admitted => FailClosed
  <1> SUFFICES ASSUME Admitted, NEW r \in Replica, Serving(r)
               PROVE  LET s == settings[r]
                      IN  /\ IsProduction(s) => AuthMode(s) \in {"oidc"} \cup Installed
                          /\ KeepsState(s) => /\ s["AUTH_JWT_SIGNING_KEY"] \notin Unusable
                                              /\ UsesRedis(s) => ValidFernetKey(s)
    BY DEF FailClosed
  <1> DEFINE s == settings[r]
  <1>1. ValidPersistence(s) /\ AuthMode(s) \in {"none", "oidc"} \cup Installed
    BY DEF Admitted, ValidSettings
  <1>2. IsProduction(s) => AuthMode(s) # "none"
    BY <1>1 DEF ValidPersistence
  <1>3. ASSUME KeepsState(s)
        PROVE  /\ s["AUTH_JWT_SIGNING_KEY"] \notin Unusable
               /\ UsesRedis(s) => ValidFernetKey(s)
    <2>1. AuthMode(s) # "none"
      BY <1>3, KeeperHasMode
    <2>2. QED
      BY <1>1, <2>1 DEF ValidPersistence, UsesRedis
  <1>4. QED
    BY <1>1, <1>2, <1>3

\* No replica serves anonymously in production, in a mode nothing provides, or over a store
\* whose key the validators did not accept, whatever was deployed in between.
THEOREM ServesFailClosed == Spec => []FailClosed
  <1>1. Init => Admitted
    BY DEF Init, Admitted, Serving
  <1>2. Admitted /\ TypeOK /\ [Next]_vars => Admitted'
    BY AdmittedNext
  <1>3. Admitted => FailClosed
    BY AdmittedFailsClosed
  <1>4. QED
    BY <1>1, <1>2, <1>3, TypeCorrect, PTL DEF Spec

-----------------------------------------------------------------------------
(* DurableLogins: an entry outlives everything but its container's layer.  *)

PlaceOf(l) == Backend(l.at, l.settings, l.mounts)

Kept ==
  \A j \in 1..Len(login) :
    (\A r \in Replica : PlaceOf(login[j]) \notin Layer(r)) =>
      [place |-> PlaceOf(login[j]), jti |-> j, key |-> EncryptionKey(login[j].settings)]
        \in store

LEMMA KeptNext == Kept /\ TypeOK /\ [Next]_vars => Kept'
  <1> SUFFICES ASSUME Kept, TypeOK, [Next]_vars PROVE Kept'
    OBVIOUS
  <1>1. CASE UNCHANGED <<store, login>>
    BY <1>1 DEF Kept, PlaceOf
  <1>2. ASSUME NEW r \in Replica, Recreate(r) PROVE Kept'
    <2>1. UNCHANGED login /\ store' = {e \in store : e.place \notin Layer(r)}
      BY <1>2 DEF Recreate
    <2>2. SUFFICES ASSUME NEW j \in 1..Len(login),
                          \A q \in Replica : PlaceOf(login[j]) \notin Layer(q)
                   PROVE  [place |-> PlaceOf(login[j]), jti |-> j,
                           key |-> EncryptionKey(login[j].settings)] \in store'
      BY <2>1 DEF Kept, PlaceOf
    <2> DEFINE e == [place |-> PlaceOf(login[j]), jti |-> j,
                     key |-> EncryptionKey(login[j].settings)]
    <2>3. e \in store
      BY <2>2 DEF Kept
    <2>4. e.place \notin Layer(r)
      BY <2>2
    <2>5. QED
      BY <2>1, <2>3, <2>4
  <1>3. ASSUME NEW r \in Replica, LogIn(r) PROVE Kept'
    <2> DEFINE l == [at |-> r, mounts |-> container[r].mounts, settings |-> settings[r]]
               entry == [place |-> Backend(r, settings[r], container[r].mounts),
                         jti |-> Len(login) + 1, key |-> EncryptionKey(settings[r])]
    <2>1. login' = Append(login, l) /\ store' = store \cup {entry}
      BY <1>3 DEF LogIn
    <2>2. login \in Seq(Login)
      BY DEF TypeOK
    <2>3. /\ Len(login') = Len(login) + 1
          /\ \A j \in 1..Len(login) : login'[j] = login[j]
          /\ login'[Len(login) + 1] = l
      <3> HIDE DEF l
      <3> QED
        BY <2>1, <2>2
    <2>4. SUFFICES ASSUME NEW j \in 1..Len(login'),
                          \A q \in Replica : PlaceOf(login'[j]) \notin Layer(q)
                   PROVE  [place |-> PlaceOf(login'[j]), jti |-> j,
                           key |-> EncryptionKey(login'[j].settings)] \in store'
      BY DEF Kept, PlaceOf
    <2>5. CASE j \in 1..Len(login)
      <3>1. login'[j] = login[j]
        BY <2>3, <2>5
      <3>2. [place |-> PlaceOf(login[j]), jti |-> j,
             key |-> EncryptionKey(login[j].settings)] \in store
        BY <2>4, <2>5, <3>1 DEF Kept
      <3>3. QED
        BY <2>1, <3>1, <3>2
    <2>6. CASE j = Len(login) + 1
      <3>1. PlaceOf(l) = Backend(r, settings[r], container[r].mounts) /\ l.settings = settings[r]
        BY DEF PlaceOf
      <3>2. QED
        BY <2>1, <2>3, <2>6, <3>1
    <2>7. QED
      BY <2>2, <2>3, <2>5, <2>6
  <1>4. QED
    BY <1>1, <1>2, <1>3 DEF Next, Edit, Boot, Crash, vars

LEMMA KeptIsUsable == Kept /\ TypeOK => DurableLogins
  <1> SUFFICES ASSUME Kept, TypeOK, NEW j \in 1..Len(login), NEW r \in Replica,
                      Serving(r), SameDeployment(login[j], r)
               PROVE  Usable(j, r)
    BY DEF DurableLogins
  <1> DEFINE l == login[j]
             s == settings[r]
  <1>1. /\ l.settings["AUTH_JWT_SIGNING_KEY"] = s["AUTH_JWT_SIGNING_KEY"]
        /\ l.settings["AUTH_REDIS_URL"] = s["AUTH_REDIS_URL"]
        /\ UsesRedis(s) =>
             l.settings["AUTH_STORAGE_ENCRYPTION_KEY"] = s["AUTH_STORAGE_ENCRYPTION_KEY"]
        /\ ~UsesRedis(s) =>
             /\ l.at = r /\ DiskPath(l.settings) = DiskPath(s)
             /\ VolumeAt(container[r].mounts, DiskPath(s)) # NoVolume
             /\ VolumeAt(container[r].mounts, DiskPath(s)) = VolumeAt(l.mounts, DiskPath(s))
    BY DEF SameDeployment
  <1>2. UsesRedis(l.settings) = UsesRedis(s)
    BY <1>1 DEF UsesRedis, Has
  <1>3. EncryptionKey(l.settings) = EncryptionKey(s)
    BY <1>1, <1>2 DEF EncryptionKey
  <1>4. PlaceOf(l) = Backend(r, s, container[r].mounts)
    BY <1>1, <1>2 DEF PlaceOf, Backend
  <1>5. ASSUME NEW q \in Replica PROVE PlaceOf(l) \notin Layer(q)
    <2>1. PlaceOf(l)[1] \in {"redis", "volume"}
      BY <1>1, <1>2 DEF PlaceOf, Backend
    <2>2. \A e \in Layer(q) : e[1] = "layer"
      BY DEF Layer
    <2>3. QED
      BY <2>1, <2>2
  <1>6. [place |-> PlaceOf(l), jti |-> j, key |-> EncryptionKey(l.settings)] \in store
    BY <1>5 DEF Kept
  <1>7. QED
    BY <1>1, <1>3, <1>4, <1>6 DEF Usable

\* A login is good wherever the keys are the same and the state is shared, or its own at the
\* same path on the same volume, after any sequence of crashes, recreated containers, refused
\* boots and edits (auth/storage.py:63-115).
THEOREM LoginsAreDurable == Spec => []DurableLogins
  <1>1. Init => Kept
    BY DEF Init, Kept
  <1>2. Kept /\ TypeOK /\ [Next]_vars => Kept'
    BY KeptNext
  <1>3. Kept /\ TypeOK => DurableLogins
    BY KeptIsUsable
  <1>4. QED
    BY <1>1, <1>2, <1>3, TypeCorrect, PTL DEF Spec
=============================================================================
