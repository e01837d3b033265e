--------------------------- MODULE UpstreamClient ---------------------------
(***************************************************************************)
(* http/client.py and http/retry.py: concurrent calls of one               *)
(* UpstreamClient, each with its own retry loop, over a connection pool    *)
(* and an upstream that may carry out an attempt after its caller has      *)
(* given up on it.  Every await of the code is a point where the other     *)
(* calls, the upstream, a cancellation or aclose() may run.                *)
(***************************************************************************)
EXTENDS Integers, FiniteSets

CONSTANTS
  Call,            \* the calls made through the client
  Method,          \* the HTTP methods they use
  Status,          \* the status codes the upstream answers with
  RetryAfter,      \* the Retry-After headers it sends with them
  MaxRetries,      \* UpstreamClient(max_retries=...)
  BackoffBase,     \* backoff_base, in ticks
  BackoffMax,      \* backoff_max, in ticks
  MaxConnections   \* httpx.Limits(max_connections=...)

IDEMPOTENT_METHODS == {"GET", "HEAD", "OPTIONS", "PUT", "DELETE", "TRACE"}

RETRYABLE_STATUSES == {429, 500, 502, 503, 504}

\* A raw header: absent, a number of seconds (possibly negative), a date (as the
\* distance to now, negative when it is past), or neither.
RetryAfterHeader ==
  [form : {"absent", "garbage"}, n : {0}] \cup [form : {"seconds", "date"}, n : Int]

ASSUME MethodAssumption ==
  Method \subseteq IDEMPOTENT_METHODS \cup {"POST", "PATCH"}
ASSUME StatusAssumption == Status \subseteq 200..599
ASSUME HeaderAssumption == RetryAfter \subseteq RetryAfterHeader
ASSUME LimitsAssumption ==
  /\ MaxRetries \in Nat
  /\ BackoffBase \in Nat
  /\ BackoffMax \in Nat
  /\ MaxConnections \in Nat \ {0}

VARIABLES
  pc,        \* where each call is in request() or health()
  method,    \* its method; "health" for a health() probe
  attempt,   \* the loop's attempt counter
  slept,     \* ticks the call has asked asyncio.sleep for, over all attempts
  outcome,   \* how it ended, "none" before
  wire,      \* attempts sent and not yet handled by the upstream
  answer,    \* the status that has arrived on the call's open connection
  applied,   \* the attempts of each call that the upstream carried out
  client     \* the httpx client's state: "open" until aclose() has run

vars == <<pc, method, attempt, slept, outcome, wire, answer, applied, client>>
loop == <<method, attempt, wire, applied, client>>

Running == {"auth", "pool", "waiting", "backoff"}
Outcome == {"none", "noauth", "closed", "unreached", "broken", "cancelled",
            "accepted", "answered"}
NoAnswer == 0
NoRetryAfter == -1

Message == [call : Call, n : 0..MaxRetries]

TypeOK ==
  /\ pc \in [Call -> {"idle", "done"} \cup Running]
  /\ method \in [Call -> Method \cup {"none", "health"}]
  /\ attempt \in [Call -> 0..MaxRetries]
  /\ slept \in [Call -> Nat]
  /\ outcome \in [Call -> Outcome]
  /\ wire \subseteq Message
  /\ answer \in [Call -> Status \cup {NoAnswer}]
  /\ applied \in [Call -> SUBSET (0..MaxRetries)]
  /\ client \in {"open", "closed"}

Init ==
  /\ pc = [c \in Call |-> "idle"]
  /\ method = [c \in Call |-> "none"]
  /\ attempt = [c \in Call |-> 0]
  /\ slept = [c \in Call |-> 0]
  /\ outcome = [c \in Call |-> "none"]
  /\ wire = {}
  /\ answer = [c \in Call |-> NoAnswer]
  /\ applied = [c \in Call |-> {}]
  /\ client = "open"

-----------------------------------------------------------------------------
(* The helpers of retry.py.                                                *)

Smaller(a, b) == IF a < b THEN a ELSE b

ParseRetryAfter(h) ==
  CASE h.form = "seconds" /\ h.n >= 0 -> h.n
    [] h.form = "date" -> IF h.n > 0 THEN h.n ELSE 0
    [] OTHER -> NoRetryAfter

\* Fault: the cap is forgotten where Retry-After is given.
DelaysUncapped(n, retryAfter) ==
  IF retryAfter # NoRetryAfter
    THEN {retryAfter}
    ELSE 0..Smaller(BackoffMax, BackoffBase * 2^n)

\* The delays sleep_backoff may draw: Retry-After up to the cap, else full jitter.
Delays(n, retryAfter) ==
  IF retryAfter # NoRetryAfter
    THEN {Smaller(retryAfter, BackoffMax)}
    ELSE 0..Smaller(BackoffMax, BackoffBase * 2^n)

-----------------------------------------------------------------------------
(* Steps shared by the operations.                                         *)

Idempotent(c) == method[c] \in IDEMPOTENT_METHODS

\* Fault: one attempt too many.
RetriesLeftOffByOne(c) == method[c] # "health" /\ attempt[c] <= MaxRetries

\* The loop's attempt bound; health() has no loop.
RetriesLeft(c) == method[c] # "health" /\ attempt[c] < MaxRetries

Finish(c, o) ==
  /\ pc' = [pc EXCEPT ![c] = "done"]
  /\ outcome' = [outcome EXCEPT ![c] = o]
  /\ answer' = [answer EXCEPT ![c] = NoAnswer]
  /\ UNCHANGED slept

SleepBackoff(c, retryAfter) ==
  /\ \E d \in Delays(attempt[c], retryAfter) :
       slept' = [slept EXCEPT ![c] = @ + d]
  /\ pc' = [pc EXCEPT ![c] = "backoff"]
  /\ answer' = [answer EXCEPT ![c] = NoAnswer]
  /\ UNCHANGED outcome

\* Entering AsyncClient.request, which refuses once the client is closed.
Issue(c) ==
  \/ /\ client = "open"
     /\ pc' = [pc EXCEPT ![c] = "pool"]
     /\ UNCHANGED <<slept, outcome, answer>>
  \/ client = "closed" /\ Finish(c, "closed")

\* Fault: every transport error is retried.
RetryEveryError(c, connectOnly) == RetriesLeft(c)

MayRetryError(c, connectOnly) ==
  (Idempotent(c) \/ connectOnly) /\ RetriesLeft(c)

\* Fault: a retryable status is retried for every method.
RetryEveryMethod(c, s) == s \in RETRYABLE_STATUSES /\ RetriesLeft(c)

MayRetryStatus(c, s) ==
  s \in RETRYABLE_STATUSES /\ Idempotent(c) /\ RetriesLeft(c)

\* Fault: every error that is not retried is reported as a connect error.
TransportErrorAsConnect(c, connectOnly) ==
  \/ MayRetryError(c, connectOnly) /\ SleepBackoff(c, NoRetryAfter)
  \/ ~MayRetryError(c, connectOnly) /\ Finish(c, "unreached")

\* The except branch: connectOnly for ConnectError and ConnectTimeout.
TransportError(c, connectOnly) ==
  \/ MayRetryError(c, connectOnly) /\ SleepBackoff(c, NoRetryAfter)
  \/ /\ ~MayRetryError(c, connectOnly)
     /\ Finish(c, IF connectOnly THEN "unreached" ELSE "broken")

-----------------------------------------------------------------------------
(* The operations.                                                         *)

Request(c, m) ==
  /\ pc[c] = "idle"
  /\ pc' = [pc EXCEPT ![c] = "auth"]
  /\ method' = [method EXCEPT ![c] = m]
  /\ UNCHANGED <<attempt, slept, outcome, wire, answer, applied, client>>

\* health() sends one GET, with neither per-call auth nor retries.
Health(c) ==
  /\ pc[c] = "idle"
  /\ method' = [method EXCEPT ![c] = "health"]
  /\ Issue(c)
  /\ UNCHANGED <<attempt, wire, applied, client>>

\* auth_headers(ctx) returned, once for all the attempts, or raised.
AuthHeaders(c) ==
  /\ pc[c] = "auth"
  /\ Issue(c) \/ Finish(c, "noauth")
  /\ UNCHANGED loop

Busy == {c \in Call : pc[c] = "waiting"}

\* A connection is free or can be opened: the attempt goes out.
Send(c) ==
  /\ pc[c] = "pool"
  /\ Cardinality(Busy) < MaxConnections
  /\ pc' = [pc EXCEPT ![c] = "waiting"]
  /\ wire' = wire \cup {[call |-> c, n |-> attempt[c]]}
  /\ UNCHANGED <<method, attempt, slept, outcome, answer, applied, client>>

ConnectFailed(c) ==
  /\ pc[c] = "pool"
  /\ TransportError(c, TRUE)
  /\ UNCHANGED loop

\* PoolTimeout: nothing was sent, yet the loop cannot tell it from a broken read.
PoolTimeout(c) ==
  /\ pc[c] = "pool"
  /\ Cardinality(Busy) >= MaxConnections
  /\ TransportError(c, FALSE)
  /\ UNCHANGED loop

\* A read or write error or timeout: the attempt stays on its way.
ReadFailed(c) ==
  /\ pc[c] = "waiting"
  /\ TransportError(c, FALSE)
  /\ UNCHANGED loop

Response(c) ==
  /\ pc[c] = "waiting"
  /\ answer[c] # NoAnswer
  /\ \/ /\ MayRetryStatus(c, answer[c])
        /\ \E h \in RetryAfter : SleepBackoff(c, ParseRetryAfter(h))
     \/ /\ ~MayRetryStatus(c, answer[c])
        /\ Finish(c, IF answer[c] < 300 THEN "accepted" ELSE "answered")
  /\ UNCHANGED loop

\* The sleep is over: count the attempt and issue the next one.
Wake(c) ==
  /\ pc[c] = "backoff"
  /\ attempt' = [attempt EXCEPT ![c] = @ + 1]
  /\ Issue(c)
  /\ UNCHANGED <<method, wire, applied, client>>

\* CancelledError at any await: it is not a TransportError, so it ends the call.
Cancel(c) ==
  /\ pc[c] \in Running
  /\ Finish(c, "cancelled")
  /\ UNCHANGED loop

Close ==
  /\ client = "open"
  /\ client' = "closed"
  /\ UNCHANGED <<pc, method, attempt, slept, outcome, wire, answer, applied>>

-----------------------------------------------------------------------------
(* The upstream, as the comments of client.py and retry.py describe it: a  *)
(* 5xx may follow the effect, a 4xx precedes it.                           *)

Coherent(s, performs) ==
  /\ s < 300 => performs
  /\ s \in 400..499 => ~performs

\* The upstream handles an attempt at any time after it was sent; its answer
\* arrives only if the caller still waits on that attempt's connection.
Serve(m, s, performs) ==
  /\ m \in wire
  /\ Coherent(s, performs)
  /\ wire' = wire \ {m}
  /\ applied' = [applied EXCEPT ![m.call] = IF performs THEN @ \cup {m.n} ELSE @]
  /\ answer' = [answer EXCEPT ![m.call] =
                  IF pc[m.call] = "waiting" /\ attempt[m.call] = m.n THEN s ELSE @]
  /\ UNCHANGED <<pc, method, attempt, slept, outcome, client>>

-----------------------------------------------------------------------------

\* Fault: the httpx client is created without timeouts.
ProgressWithoutTimeouts(c) ==
  AuthHeaders(c) \/ Send(c) \/ ConnectFailed(c) \/ Response(c) \/ Wake(c)

\* What the event loop and httpx's timeouts drive to its end.
Progress(c) ==
  \/ AuthHeaders(c)
  \/ Send(c)
  \/ ConnectFailed(c)
  \/ PoolTimeout(c)
  \/ ReadFailed(c)
  \/ Response(c)
  \/ Wake(c)

\* What other parties do to a call.
Environment(c) ==
  \/ \E m \in Method : Request(c, m)
  \/ Health(c)
  \/ Cancel(c)

Next ==
  \/ \E c \in Call : Progress(c) \/ Environment(c)
  \/ Close
  \/ \E m \in wire, s \in Status, performs \in BOOLEAN : Serve(m, s, performs)

Spec == Init /\ [][Next]_vars

FairSpec == Spec /\ \A c \in Call : WF_vars(Progress(c))
-----------------------------------------------------------------------------
(* Properties.                                                             *)

\* A POST, a PATCH or a health probe is carried out at most once, whatever the
\* loop retries: retries after a status are for idempotent methods, and retries
\* after an error need a connect-phase error (client.py:84-102).
NonIdempotentOnce ==
  \A c \in Call : ~Idempotent(c) => \A i, j \in applied[c] : i = j

\* A POST that ends with a connect error, a closed client or no credential was not
\* carried out, and nothing of it is left on the wire: its caller may issue it again.
SettledUntouched ==
  \A c \in Call :
    ~Idempotent(c) /\ outcome[c] \in {"noauth", "closed", "unreached"} =>
      applied[c] = {} /\ \A m \in wire : m.call # c

\* Over all its attempts a call sleeps at most MaxRetries times the cap, whatever
\* Retry-After the upstream sends (retry.py:58-72).
SleepBudget == \A c \in Call : slept[c] <= MaxRetries * BackoffMax

\* Every call ends: with an answer, an error or a cancellation, even if the client is
\* closed under it, the pool is full or the upstream never answers.
EveryCallEnds == \A c \in Call : pc[c] \in Running ~> pc[c] = "done"

Contract == INSTANCE CallContract WITH
  Attempt   <- 0..MaxRetries,
  kind      <- [c \in Call |-> IF method[c] = "none" THEN "unset"
                               ELSE IF Idempotent(c) THEN "repeatable" ELSE "once"],
  performed <- applied,
  result    <- outcome

\* The retry loop implements CallContract: the way a call ends tells its caller what
\* the upstream did with it (an accepted call was carried out, a refused connection
\* was not, a broken one may still be).
ImplementsContract == Contract!Spec
=============================================================================
