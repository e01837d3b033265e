------------------------------ MODULE SpecCache ------------------------------
(***************************************************************************)
(* openapi/loader.py: SpecCache and load_spec.  Tasks call initial_load(), *)
(* refresh_once() and run_refresh_loop() on one cache while the source is  *)
(* republished.  A load is two awaits, the root document and an external   *)
(* document it refers to; initial_load holds the lock across them, while   *)
(* refresh_once loads first and takes the lock only to install.            *)
(***************************************************************************)
EXTENDS Naturals, SequencesExt

CONSTANTS
  Loader,       \* tasks that call initial_load() once
  Refresher,    \* tasks that call refresh_once() once
  Loop,         \* the task that runs run_refresh_loop(Interval)
  Interval,     \* its interval_seconds
  MaxVersion,   \* bound on how often the source is republished
  NoTask,
  NoSpec        \* _current before the first load

Task == Loader \cup Refresher \cup {Loop}

ASSUME TaskAssumption ==
  /\ Loader \cap Refresher = {}
  /\ Loop \notin Loader \cup Refresher
  /\ NoTask \notin Task
ASSUME BoundAssumption == Interval \in Nat /\ MaxVersion \in Nat

VARIABLES
  version,   \* what the source serves now; every document of it has this version
  current,   \* the cache's _current
  lock,      \* the holder of _lock, or NoTask
  queue,     \* the tasks that wait for _lock, first come first served
  pc,        \* where each task is
  loading    \* the spec each task has loaded so far

cacheVars == <<version, current, lock, queue, pc, loading>>

Version == 0..MaxVersion

\* A loaded spec, as the versions of the two documents it was put together from.
LoadedSpec == [root : Version, ref : Version]

ASSUME NoSpecAssumption == NoSpec \notin LoadedSpec

\* "root" and "ref" await the two documents, "install" waits to store the result,
\* "enter" waits to begin initial_load's critical section, "sleep" and "errsleep"
\* are the loop's sleeps.
Active == {"enter", "root", "ref", "install", "sleep", "errsleep"}

\* How a task ends.  "SpecLoadError" and "OtherError" are what initial_load raises,
\* "notrefreshed" is refresh_once's False, "raised" an error after installing.
Ended == {"loaded", "SpecLoadError", "OtherError", "refreshed", "notrefreshed",
          "raised", "cancelled", "disabled"}

CacheTypeOK ==
  /\ version \in Version
  /\ current \in LoadedSpec \cup {NoSpec}
  /\ lock \in Task \cup {NoTask}
  /\ queue \in Seq(Task)
  /\ pc \in [Task -> {"idle"} \cup Active \cup Ended]
  /\ loading \in [Task -> LoadedSpec]

CacheInit ==
  /\ version = 0
  /\ current = NoSpec
  /\ lock = NoTask
  /\ queue = <<>>
  /\ pc = [t \in Task |-> "idle"]
  /\ loading = [t \in Task |-> [root |-> 0, ref |-> 0]]

Goto(t, l) == pc' = [pc EXCEPT ![t] = l]

\* Fault: the lock is not released.
ReleaseNothing(t) == lock' = lock

\* The lock as its holder leaves it, however the critical section ends.
Release(t) == lock' = IF lock = t THEN NoTask ELSE lock

MayAcquire(t) == lock = NoTask /\ queue # <<>> /\ Head(queue) = t

-----------------------------------------------------------------------------
(* Starting.                                                               *)

InitialLoad(t) ==
  /\ t \in Loader
  /\ pc[t] = "idle"
  /\ queue' = Append(queue, t)
  /\ Goto(t, "enter")
  /\ UNCHANGED <<version, current, lock, loading>>

\* The lock is held from here to the end of the load.
EnterInitialLoad(t) ==
  /\ pc[t] = "enter"
  /\ MayAcquire(t)
  /\ lock' = t
  /\ queue' = Tail(queue)
  /\ Goto(t, "root")
  /\ UNCHANGED <<version, current, loading>>

RefreshOnce(t) ==
  /\ t \in Refresher
  /\ pc[t] = "idle"
  /\ Goto(t, "root")
  /\ UNCHANGED <<version, current, lock, queue, loading>>

RunRefreshLoop ==
  /\ pc[Loop] = "idle"
  /\ Goto(Loop, IF Interval <= 0 THEN "disabled" ELSE "sleep")
  /\ UNCHANGED <<version, current, lock, queue, loading>>

\* A sleep of the loop ends: after an error it sleeps a full interval again.
LoopWakes ==
  /\ pc[Loop] \in {"sleep", "errsleep"}
  /\ Goto(Loop, IF pc[Loop] = "sleep" THEN "root" ELSE "sleep")
  /\ UNCHANGED <<version, current, lock, queue, loading>>

-----------------------------------------------------------------------------
(* load_spec.                                                              *)

\* Fault: the root document is served before its references are resolved.
RootServedEarly(t) ==
  /\ pc[t] = "root"
  /\ loading' = [loading EXCEPT ![t].root = version]
  /\ current' = [root |-> version]
  /\ Goto(t, "ref")
  /\ UNCHANGED <<version, lock, queue>>

RootFetched(t) ==
  /\ pc[t] = "root"
  /\ loading' = [loading EXCEPT ![t].root = version]
  /\ Goto(t, "ref")
  /\ UNCHANGED <<version, current, lock, queue>>

\* The external document arrives.  initial_load holds the lock and stores at once;
\* refresh_once still has to wait for it.
RefFetched(t) ==
  /\ pc[t] = "ref"
  /\ loading' = [loading EXCEPT ![t].ref = version]
  /\ IF t \in Loader
       THEN /\ current' = loading'[t]
            /\ Release(t)
            /\ Goto(t, "loaded")
            /\ UNCHANGED queue
       ELSE /\ queue' = Append(queue, t)
            /\ Goto(t, "install")
            /\ UNCHANGED <<current, lock>>
  /\ UNCHANGED version

\* What a fetch dies of: the transport, a document that is no YAML ("syntax": YAMLError is no
\* ValueError), or what _parse and load_spec find wrong with its content themselves.
Cause == {"transport", "syntax", "content"}

\* What load_spec raises.  Whatever happens below _resolve_external_refs becomes a
\* SpecLoadError; of the root document's failures only those of its content do, an HTTP or
\* OS error and a YAMLError pass as they are.
Raised(document, cause) ==
  IF document = "root" /\ cause # "content" THEN "OtherError" ELSE "SpecLoadError"

\* What becomes of it: initial_load raises it, refresh_once swallows it.
AfterFailure(t, raised) ==
  IF t \in Loader THEN raised ELSE IF t = Loop THEN "sleep" ELSE "notrefreshed"

\* Fault: a failed load drops what was cached.
LoadFailedTearsDown(t) ==
  /\ pc[t] \in {"root", "ref"}
  /\ \E cause \in Cause : Goto(t, AfterFailure(t, Raised(pc[t], cause)))
  /\ Release(t)
  /\ current' = NoSpec
  /\ UNCHANGED <<version, queue, loading>>

LoadFailed(t) ==
  /\ pc[t] \in {"root", "ref"}
  /\ \E cause \in Cause : Goto(t, AfterFailure(t, Raised(pc[t], cause)))
  /\ Release(t)
  /\ UNCHANGED <<version, current, queue, loading>>

-----------------------------------------------------------------------------
(* The end of refresh_once, and cancellation.                              *)

\* Fault: a refresh only fills an empty cache.
InstallOnce(t) ==
  /\ pc[t] = "install"
  /\ MayAcquire(t)
  /\ queue' = Tail(queue)
  /\ current' = IF current = NoSpec THEN loading[t] ELSE current
  /\ Goto(t, IF t = Loop THEN "sleep" ELSE "refreshed")
  /\ UNCHANGED <<version, lock, loading>>

\* Lock, store and unlock, with no await between.  A refresh caller may still see an
\* error of the log call that follows; the loop sleeps it off.
Install(t) ==
  /\ pc[t] = "install"
  /\ MayAcquire(t)
  /\ queue' = Tail(queue)
  /\ current' = loading[t]
  /\ \/ Goto(t, IF t = Loop THEN "sleep" ELSE "refreshed")
     \/ Goto(t, IF t = Loop THEN "errsleep" ELSE "raised")
  /\ UNCHANGED <<version, lock, loading>>

\* Fault: a cancelled task keeps its place in the lock's queue.
CancelKeepsPlace(t) ==
  /\ pc[t] \in Active
  /\ Goto(t, "cancelled")
  /\ Release(t)
  /\ UNCHANGED <<version, current, queue, loading>>

\* Fault: a cancelled task drops what was cached.
CancelTearsDown(t) ==
  /\ pc[t] \in Active
  /\ Goto(t, "cancelled")
  /\ Release(t)
  /\ queue' = RemoveFirst(queue, t)
  /\ current' = NoSpec
  /\ UNCHANGED <<version, loading>>

\* CancelledError at any await passes every "except Exception" and releases the lock.
Cancel(t) ==
  /\ pc[t] \in Active
  /\ Goto(t, "cancelled")
  /\ Release(t)
  /\ queue' = RemoveFirst(queue, t)
  /\ UNCHANGED <<version, current, loading>>

Republish ==
  /\ version < MaxVersion
  /\ version' = version + 1
  /\ UNCHANGED <<current, lock, queue, pc, loading>>

-----------------------------------------------------------------------------

\* Everything the event loop drives once the task has been started.
TaskProgress(t) ==
  \/ EnterInitialLoad(t)
  \/ t = Loop /\ LoopWakes
  \/ RootFetched(t)
  \/ RefFetched(t)
  \/ LoadFailed(t)
  \/ Install(t)

CacheNext ==
  \/ \E t \in Task : InitialLoad(t) \/ RefreshOnce(t) \/ TaskProgress(t) \/ Cancel(t)
  \/ RunRefreshLoop
  \/ Republish

CacheSpec == CacheInit /\ [][CacheNext]_cacheVars

CacheFairSpec == CacheSpec /\ \A t \in Task : WF_cacheVars(TaskProgress(t))

\* A source that does not fail for ever: of the fetches the loop repeats, some succeed.
ReachableSource == SF_cacheVars(RootFetched(Loop)) /\ SF_cacheVars(RefFetched(Loop))

HealthySpec == CacheFairSpec /\ ReachableSource

-----------------------------------------------------------------------------
(* Properties.                                                             *)

\* The lock is never leaked: its holder is inside initial_load's await, whatever
\* errors and cancellations happened (loader.py:237-246).
LockNotLeaked == lock # NoTask => lock \in Loader /\ pc[lock] \in {"root", "ref"}

\* Once any load has reported success, reading `current` does not raise.
SuccessMeansReadable ==
  (\E t \in Task : pc[t] \in {"loaded", "refreshed", "raised"}) => current # NoSpec

\* "A refresh failure NEVER tears down the cached spec" (loader.py:4-5), nor does any
\* other failure or cancellation: what is served changes only to a complete spec that
\* the changing task loaded itself.
NeverTornDown ==
  [][\E t \in Task : /\ pc[t] \in {"ref", "install"}
                     /\ current' = loading'[t]
                     /\ pc'[t] \notin {"ref", "install"}]_current

\* Every load and refresh that is started ends, also behind a lock whose holder failed
\* or was cancelled.
EveryLoadEnds ==
  \A t \in Loader \cup Refresher : pc[t] \in Active ~> pc[t] \in Ended

LoopRunning == pc[Loop] \in Active

\* While the loop runs against a reachable source, the cache ends up with the documents
\* the source serves, all of one version: a spec torn by a republication, or an older one
\* stored by an overtaken refresh, does not last.
Convergence ==
  <>[]LoopRunning => <>[](current = [root |-> version, ref |-> version])
=============================================================================
