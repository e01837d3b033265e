------------------------------ MODULE ClientProofs ------------------------------
(***************************************************************************)
(* Proofs about UpstreamClient and the modules that extend it,             *)
(* RetriedWrites and OnBehalfOf, for any calls, methods, statuses and      *)
(* retries; of the last for any users, tokens and prefixes, with and       *)
(* without a static fallback.                                              *)
(***************************************************************************)
EXTENDS OnBehalfOf, RetriedWrites, SequenceTheorems, TLAPS

\* Nothing of c was carried out, and nothing of it is on its way.
Untouched(c) == applied[c] = {} /\ \A m \in wire : m.call # c

\* How the program counter, the method, the answer and the outcome move together.
PhaseInv ==
  \A c \in Call :
    /\ pc[c] = "idle" <=> method[c] = "none"
    /\ pc[c] = "done" <=> outcome[c] # "none"
    /\ answer[c] # NoAnswer => pc[c] = "waiting"
    /\ pc[c] = "backoff" => attempt[c] < MaxRetries
    /\ pc[c] \in {"idle", "auth"} => Untouched(c)
    /\ outcome[c] = "noauth" => Untouched(c)
    /\ answer[c] # NoAnswer /\ answer[c] < 300 => applied[c] # {}
    /\ outcome[c] = "accepted" => applied[c] # {}

\* Attempts are numbered apart: what is on the wire was not carried out yet, and the
\* next attempt to be sent has a number of its own.
AttemptInv ==
  /\ \A m \in wire : m.n \notin applied[m.call] /\ m.n <= attempt[m.call]
  /\ \A c \in Call : \A n \in applied[c] : n <= attempt[c]
  /\ \A c \in Call : pc[c] = "pool" =>
       attempt[c] \notin applied[c] /\ \A m \in wire : m.call = c => m.n # attempt[c]

\* A non-idempotent call is untouched until its one attempt is sent; from then on
\* either that attempt is on the wire or the upstream has handled it.
OnceInv ==
  \A c \in Call : ~Idempotent(c) =>
    /\ pc[c] \in {"pool", "backoff"} => Untouched(c)
    /\ outcome[c] \in {"closed", "unreached"} => Untouched(c)
    /\ \A m1, m2 \in wire : m1.call = c /\ m2.call = c => m1 = m2
    /\ (\E m \in wire : m.call = c) => applied[c] = {}
    /\ answer[c] # NoAnswer \/ outcome[c] \in {"accepted", "answered"} =>
         \A m \in wire : m.call # c
    /\ \A i, j \in applied[c] : i = j

IInv == TypeOK /\ PhaseInv /\ AttemptInv /\ OnceInv

-----------------------------------------------------------------------------
(* Type correctness.                                                       *)

\* A parsed Retry-After is a delay or the sentinel.
LEMMA ParsedType ==
  ASSUME NEW h \in RetryAfterHeader
  PROVE  ParseRetryAfter(h) \in Nat \cup {NoRetryAfter}
  BY DEF ParseRetryAfter, RetryAfterHeader, NoRetryAfter

\* No delay exceeds the cap, whatever the attempt and the header.
LEMMA DelayCapped ==
  ASSUME NEW n \in Nat, NEW r \in Nat \cup {NoRetryAfter}, NEW d \in Delays(n, r)
  PROVE  d \in Nat /\ d <= BackoffMax
  <1>1. CASE r # NoRetryAfter
    BY <1>1, LimitsAssumption DEF Delays, Smaller, NoRetryAfter
  <1>2. CASE r = NoRetryAfter
    <2>1. BackoffBase * 2^n \in Int
      BY LimitsAssumption
    <2>2. QED
      BY <1>2, <2>1, LimitsAssumption DEF Delays, Smaller
  <1>3. QED
    BY <1>1, <1>2

LEMMA InitIInv == Init => IInv
  <1> SUFFICES ASSUME Init PROVE IInv
    OBVIOUS
  <1>1. TypeOK
    BY LimitsAssumption DEF Init, TypeOK, Running, Outcome, NoAnswer
  <1>2. PhaseInv
    BY DEF Init, PhaseInv, Untouched, NoAnswer
  <1>3. AttemptInv
    BY DEF Init, AttemptInv
  <1>4. OnceInv
    BY DEF Init, OnceInv, Untouched, NoAnswer
  <1>5. QED
    BY <1>1, <1>2, <1>3, <1>4 DEF IInv
\* The steps that stay within one call: it goes on to the pool, ends, or backs off.
LEMMA IssueType ==
  ASSUME TypeOK, NEW c \in Call, Issue(c)
  PROVE  /\ pc' \in [Call -> {"idle", "done"} \cup Running]
         /\ outcome' \in [Call -> Outcome]
         /\ answer' \in [Call -> Status \cup {NoAnswer}]
         /\ slept' \in [Call -> Nat]
  BY DEF TypeOK, Issue, Finish, Running, Outcome, NoAnswer

LEMMA FinishType ==
  ASSUME TypeOK, NEW c \in Call, NEW o \in Outcome, Finish(c, o)
  PROVE  /\ pc' \in [Call -> {"idle", "done"} \cup Running]
         /\ outcome' \in [Call -> Outcome]
         /\ answer' \in [Call -> Status \cup {NoAnswer}]
         /\ slept' \in [Call -> Nat]
  BY DEF TypeOK, Finish

LEMMA BackoffType ==
  ASSUME TypeOK, NEW c \in Call, NEW r \in Nat \cup {NoRetryAfter}, SleepBackoff(c, r)
  PROVE  /\ pc' \in [Call -> {"idle", "done"} \cup Running]
         /\ outcome' \in [Call -> Outcome]
         /\ answer' \in [Call -> Status \cup {NoAnswer}]
         /\ slept' \in [Call -> Nat]
  <1>1. PICK d \in Delays(attempt[c], r) : slept' = [slept EXCEPT ![c] = @ + d]
    BY DEF SleepBackoff
  <1>2. d \in Nat
    BY DelayCapped, LimitsAssumption DEF TypeOK
  <1>3. slept' \in [Call -> Nat]
    BY <1>1, <1>2 DEF TypeOK
  <1>4. QED
    BY <1>3 DEF TypeOK, SleepBackoff, Running

LEMMA TransportErrorType ==
  ASSUME TypeOK, NEW c \in Call, NEW k \in BOOLEAN, TransportError(c, k)
  PROVE  /\ pc' \in [Call -> {"idle", "done"} \cup Running]
         /\ outcome' \in [Call -> Outcome]
         /\ answer' \in [Call -> Status \cup {NoAnswer}]
         /\ slept' \in [Call -> Nat]
  <1>1. CASE SleepBackoff(c, NoRetryAfter)
    BY <1>1, BackoffType
  <1>2. CASE Finish(c, IF k THEN "unreached" ELSE "broken")
    <2>1. (IF k THEN "unreached" ELSE "broken") \in Outcome
      BY DEF Outcome
    <2>2. QED
      BY <1>2, <2>1, FinishType
  <1>3. QED
    BY <1>1, <1>2 DEF TransportError

\* Every step keeps the variables in their types.
LEMMA TypeStep ==
  ASSUME TypeOK, PhaseInv, [Next]_vars
  PROVE  TypeOK'
  <1>1. ASSUME NEW c \in Call, NEW m \in Method, Request(c, m) PROVE TypeOK'
    BY <1>1 DEF TypeOK, Request, Running
  <1>2. ASSUME NEW c \in Call, Health(c) PROVE TypeOK'
    <2>1. method' \in [Call -> Method \cup {"none", "health"}]
      BY <1>2 DEF TypeOK, Health
    <2>2. QED
      BY <1>2, <2>1, IssueType DEF TypeOK, Health
  <1>3. ASSUME NEW c \in Call, AuthHeaders(c) PROVE TypeOK'
    <2>1. "noauth" \in Outcome
      BY DEF Outcome
    <2>2. QED
      BY <1>3, <2>1, IssueType, FinishType DEF TypeOK, AuthHeaders, loop
  <1>4. ASSUME NEW c \in Call, Send(c) PROVE TypeOK'
    BY <1>4 DEF TypeOK, Send, Running, Message
  <1>5. ASSUME NEW c \in Call, ConnectFailed(c) PROVE TypeOK'
    BY <1>5, TransportErrorType DEF TypeOK, ConnectFailed, loop
  <1>6. ASSUME NEW c \in Call, PoolTimeout(c) PROVE TypeOK'
    BY <1>6, TransportErrorType DEF TypeOK, PoolTimeout, loop
  <1>7. ASSUME NEW c \in Call, ReadFailed(c) PROVE TypeOK'
    BY <1>7, TransportErrorType DEF TypeOK, ReadFailed, loop
  <1>8. ASSUME NEW c \in Call, Response(c) PROVE TypeOK'
    <2>1. CASE \E h \in RetryAfter : SleepBackoff(c, ParseRetryAfter(h))
      BY <1>8, <2>1, ParsedType, BackoffType, HeaderAssumption
      DEF TypeOK, Response, loop
    <2>2. CASE Finish(c, IF answer[c] < 300 THEN "accepted" ELSE "answered")
      <3>1. (IF answer[c] < 300 THEN "accepted" ELSE "answered") \in Outcome
        BY DEF Outcome
      <3>2. QED
        BY <1>8, <2>2, <3>1, FinishType DEF TypeOK, Response, loop
    <2>3. QED
      BY <1>8, <2>1, <2>2 DEF Response
  <1>9. ASSUME NEW c \in Call, Wake(c) PROVE TypeOK'
    <2>1. attempt' \in [Call -> 0..MaxRetries]
      BY <1>9, LimitsAssumption DEF TypeOK, PhaseInv, Wake
    <2>2. QED
      BY <1>9, <2>1, IssueType DEF TypeOK, Wake
  <1>10. ASSUME NEW c \in Call, Cancel(c) PROVE TypeOK'
    <2>1. "cancelled" \in Outcome
      BY DEF Outcome
    <2>2. QED
      BY <1>10, <2>1, FinishType DEF TypeOK, Cancel, loop
  <1>11. CASE Close
    BY <1>11 DEF TypeOK, Close
  <1>12. ASSUME NEW m \in wire, NEW s \in Status, NEW p \in BOOLEAN, Serve(m, s, p)
         PROVE  TypeOK'
    BY <1>12 DEF TypeOK, Serve, Message
  <1>13. CASE UNCHANGED vars
    BY <1>13 DEF TypeOK, vars
  <1>14. QED
    BY <1>1, <1>2, <1>3, <1>4, <1>5, <1>6, <1>7, <1>8, <1>9, <1>10, <1>11, <1>12, <1>13
    DEF Next, Progress, Environment
-----------------------------------------------------------------------------
(* The inductive invariant, one lemma for each of its conjuncts.           *)

\* A call's phase, outcome and answer stay consistent with what was carried out.
LEMMA PhaseStep ==
  ASSUME TypeOK, PhaseInv, AttemptInv, [Next]_vars
  PROVE  PhaseInv'
  <1>1. ASSUME NEW c \in Call, NEW m \in Method, Request(c, m) PROVE PhaseInv'
    BY <1>1, MethodAssumption
    DEF PhaseInv, TypeOK, NoAnswer, Request, Untouched, IDEMPOTENT_METHODS
  <1>2. ASSUME NEW c \in Call, Health(c) PROVE PhaseInv'
    BY <1>2 DEF PhaseInv, TypeOK, Message, NoAnswer, Health, Issue, Finish, Untouched
  <1>3. ASSUME NEW c \in Call, AuthHeaders(c) PROVE PhaseInv'
    BY <1>3
    DEF PhaseInv, TypeOK, Message, NoAnswer, AuthHeaders, Issue, Finish, loop, Untouched
  <1>4. ASSUME NEW c \in Call, Send(c) PROVE PhaseInv'
    BY <1>4 DEF PhaseInv, TypeOK, Message, NoAnswer, Send, Untouched
  <1>5. ASSUME NEW c \in Call, ConnectFailed(c) PROVE PhaseInv'
    BY <1>5
    DEF PhaseInv, TypeOK, Message, NoAnswer, ConnectFailed, TransportError,
        MayRetryError, RetriesLeft, SleepBackoff, Finish, loop, Untouched
  <1>6. ASSUME NEW c \in Call, PoolTimeout(c) PROVE PhaseInv'
    BY <1>6
    DEF PhaseInv, TypeOK, Message, NoAnswer, PoolTimeout, TransportError, MayRetryError,
        RetriesLeft, SleepBackoff, Finish, loop, Untouched
  <1>7. ASSUME NEW c \in Call, ReadFailed(c) PROVE PhaseInv'
    BY <1>7
    DEF PhaseInv, TypeOK, Message, NoAnswer, ReadFailed, TransportError, MayRetryError,
        RetriesLeft, SleepBackoff, Finish, loop, Untouched
  <1>8. ASSUME NEW c \in Call, Response(c) PROVE PhaseInv'
    BY <1>8
    DEF PhaseInv, TypeOK, Message, NoAnswer, Response, MayRetryStatus, RetriesLeft,
        SleepBackoff, Finish, loop, Untouched
  <1>9. ASSUME NEW c \in Call, Wake(c) PROVE PhaseInv'
    BY <1>9 DEF PhaseInv, TypeOK, Message, NoAnswer, Wake, Issue, Finish, Untouched
  <1>10. ASSUME NEW c \in Call, Cancel(c) PROVE PhaseInv'
    BY <1>10
    DEF PhaseInv, TypeOK, Message, NoAnswer, Cancel, Finish, loop, Untouched, Running
  <1>11. CASE Close
    BY <1>11 DEF PhaseInv, Close, Untouched
  <1>12. ASSUME NEW m \in wire, NEW s \in Status, NEW p \in BOOLEAN, Serve(m, s, p)
         PROVE  PhaseInv'
    <2>1. m.call \in Call /\ m.n \in 0..MaxRetries /\ ~Untouched(m.call)
      BY <1>12 DEF TypeOK, Message, Untouched
    <2>2. s \in 200..599
      BY StatusAssumption
    <2>3. wire' \subseteq wire /\ \A c \in Call \ {m.call} : applied'[c] = applied[c]
      BY <1>12, <2>1 DEF Serve, TypeOK
    <2>4. \A c \in Call : Untouched(c) => c # m.call /\ Untouched(c)'
      BY <2>1, <2>3 DEF Untouched
    <2>5. \A c \in Call : applied[c] # {} => applied'[c] # {}
      BY <1>12, <2>1 DEF Serve, TypeOK
    <2>6. \A c \in Call : answer'[c] # NoAnswer /\ answer'[c] < 300 => applied'[c] # {}
      <3>1. CASE answer' = answer
        BY <3>1, <2>5 DEF PhaseInv
      <3>2. CASE answer' = [answer EXCEPT ![m.call] = s]
        <4>1. s < 300 => applied'[m.call] # {}
          <5> SUFFICES ASSUME s < 300 PROVE applied'[m.call] # {}
            OBVIOUS
          <5>1. applied' = [applied EXCEPT ![m.call] = @ \cup {m.n}]
            BY <1>12 DEF Serve, Coherent
          <5>2. m.n \in applied'[m.call]
            BY <2>1, <5>1 DEF TypeOK
          <5>3. QED
            BY <5>2
        <4>2. QED
          BY <3>2, <4>1, <2>5 DEF PhaseInv, TypeOK
      <3>3. QED
        BY <1>12, <2>1, <3>1, <3>2 DEF Serve, TypeOK
    <2>7. \A c \in Call : answer'[c] # NoAnswer => pc[c] = "waiting"
      BY <1>12, <2>1 DEF Serve, TypeOK, PhaseInv
    <2>8. QED
      BY <1>12, <2>4, <2>5, <2>6, <2>7 DEF Serve, PhaseInv
  <1>13. CASE UNCHANGED vars
    BY <1>13 DEF PhaseInv, vars, Untouched
  <1>14. QED
    BY <1>1, <1>2, <1>3, <1>4, <1>5, <1>6, <1>7, <1>8, <1>9, <1>10, <1>11, <1>12, <1>13
    DEF Next, Progress, Environment

\* No attempt number is sent twice, also after answers that came too late.
LEMMA AttemptStep ==
  ASSUME TypeOK, PhaseInv, AttemptInv, [Next]_vars
  PROVE  AttemptInv'
  <1>1. ASSUME NEW c \in Call, NEW m \in Method, Request(c, m) PROVE AttemptInv'
    BY <1>1 DEF AttemptInv, TypeOK, Message, NoAnswer, Request, Untouched
  <1>2. ASSUME NEW c \in Call, Health(c) PROVE AttemptInv'
    BY <1>2 DEF AttemptInv, PhaseInv, TypeOK, Message, Health, Issue, Finish, Untouched
  <1>3. ASSUME NEW c \in Call, AuthHeaders(c) PROVE AttemptInv'
    BY <1>3
    DEF AttemptInv, PhaseInv, TypeOK, Message, AuthHeaders, Issue, Finish, loop,
        Untouched
  <1>4. ASSUME NEW c \in Call, Send(c) PROVE AttemptInv'
    BY <1>4 DEF AttemptInv, TypeOK, Message, NoAnswer, Send, Untouched
  <1>5. ASSUME NEW c \in Call, ConnectFailed(c) PROVE AttemptInv'
    BY <1>5
    DEF AttemptInv, TypeOK, Message, NoAnswer, ConnectFailed, TransportError,
        MayRetryError, RetriesLeft, SleepBackoff, Finish, loop, Untouched
  <1>6. ASSUME NEW c \in Call, PoolTimeout(c) PROVE AttemptInv'
    BY <1>6
    DEF AttemptInv, TypeOK, Message, NoAnswer, PoolTimeout, TransportError,
        MayRetryError, RetriesLeft, SleepBackoff, Finish, loop, Untouched
  <1>7. ASSUME NEW c \in Call, ReadFailed(c) PROVE AttemptInv'
    BY <1>7
    DEF AttemptInv, TypeOK, Message, NoAnswer, ReadFailed, TransportError,
        MayRetryError, RetriesLeft, SleepBackoff, Finish, loop, Untouched
  <1>8. ASSUME NEW c \in Call, Response(c) PROVE AttemptInv'
    BY <1>8
    DEF AttemptInv, TypeOK, Message, NoAnswer, Response, MayRetryStatus, RetriesLeft,
        SleepBackoff, Finish, loop, Untouched
  <1>9. ASSUME NEW c \in Call, Wake(c) PROVE AttemptInv'
    BY <1>9 DEF AttemptInv, TypeOK, Message, NoAnswer, Wake, Issue, Finish, Untouched
  <1>10. ASSUME NEW c \in Call, Cancel(c) PROVE AttemptInv'
    BY <1>10
    DEF AttemptInv, TypeOK, Message, NoAnswer, Cancel, Finish, loop, Untouched, Running
  <1>11. CASE Close
    BY <1>11 DEF AttemptInv, Close, Untouched
  <1>12. ASSUME NEW m \in wire, NEW s \in Status, NEW p \in BOOLEAN, Serve(m, s, p)
         PROVE  AttemptInv'
    BY <1>12, StatusAssumption
    DEF AttemptInv, TypeOK, Message, NoAnswer, Serve, Coherent, Untouched
  <1>13. CASE UNCHANGED vars
    BY <1>13 DEF AttemptInv, vars, Untouched
  <1>14. QED
    BY <1>1, <1>2, <1>3, <1>4, <1>5, <1>6, <1>7, <1>8, <1>9, <1>10, <1>11, <1>12, <1>13
    DEF Next, Progress, Environment

\* A non-idempotent call stays untouched until its only attempt is sent.
LEMMA OnceStep ==
  ASSUME TypeOK, PhaseInv, AttemptInv, OnceInv, [Next]_vars
  PROVE  OnceInv'
  <1>1. ASSUME NEW c \in Call, NEW m \in Method, Request(c, m) PROVE OnceInv'
    BY <1>1
    DEF OnceInv, Idempotent, IDEMPOTENT_METHODS, PhaseInv, TypeOK, Message, NoAnswer,
        Request, Untouched
  <1>2. ASSUME NEW c \in Call, Health(c) PROVE OnceInv'
    BY <1>2
    DEF OnceInv, Idempotent, IDEMPOTENT_METHODS, PhaseInv, TypeOK, Message, NoAnswer,
        Health, Issue, Finish, Untouched
  <1>3. ASSUME NEW c \in Call, AuthHeaders(c) PROVE OnceInv'
    BY <1>3
    DEF OnceInv, Idempotent, IDEMPOTENT_METHODS, PhaseInv, TypeOK, Message, NoAnswer,
        AuthHeaders, Issue, Finish, loop, Untouched
  <1>4. ASSUME NEW c \in Call, Send(c) PROVE OnceInv'
    BY <1>4
    DEF OnceInv, Idempotent, IDEMPOTENT_METHODS, PhaseInv, TypeOK, Message, NoAnswer,
        Send, Untouched
  <1>5. ASSUME NEW c \in Call, ConnectFailed(c) PROVE OnceInv'
    BY <1>5
    DEF OnceInv, Idempotent, IDEMPOTENT_METHODS, PhaseInv, TypeOK, Message, NoAnswer,
        ConnectFailed, TransportError, MayRetryError, RetriesLeft, SleepBackoff, Finish,
        loop, Untouched
  <1>6. ASSUME NEW c \in Call, PoolTimeout(c) PROVE OnceInv'
    BY <1>6
    DEF OnceInv, Idempotent, IDEMPOTENT_METHODS, PhaseInv, TypeOK, Message, NoAnswer,
        PoolTimeout, TransportError, MayRetryError, RetriesLeft, SleepBackoff, Finish,
        loop, Untouched
  <1>7. ASSUME NEW c \in Call, ReadFailed(c) PROVE OnceInv'
    BY <1>7
    DEF OnceInv, Idempotent, IDEMPOTENT_METHODS, PhaseInv, TypeOK, Message, NoAnswer,
        ReadFailed, TransportError, MayRetryError, RetriesLeft, SleepBackoff, Finish,
        loop, Untouched
  <1>8. ASSUME NEW c \in Call, Response(c) PROVE OnceInv'
    BY <1>8
    DEF OnceInv, Idempotent, IDEMPOTENT_METHODS, PhaseInv, TypeOK, Message, NoAnswer,
        Response, MayRetryStatus, RetriesLeft, SleepBackoff, Finish, loop, Untouched
  <1>9. ASSUME NEW c \in Call, Wake(c) PROVE OnceInv'
    BY <1>9
    DEF OnceInv, Idempotent, IDEMPOTENT_METHODS, PhaseInv, TypeOK, Message, NoAnswer,
        Wake, Issue, Finish, Untouched
  <1>10. ASSUME NEW c \in Call, Cancel(c) PROVE OnceInv'
    BY <1>10
    DEF OnceInv, Idempotent, IDEMPOTENT_METHODS, PhaseInv, TypeOK, Message, NoAnswer,
        Cancel, Finish, loop, Untouched, Running
  <1>11. CASE Close
    BY <1>11 DEF OnceInv, Idempotent, IDEMPOTENT_METHODS, PhaseInv, Close, Untouched
  <1>12. ASSUME NEW m \in wire, NEW s \in Status, NEW p \in BOOLEAN, Serve(m, s, p)
         PROVE  OnceInv'
    BY <1>12, StatusAssumption
    DEF OnceInv, Idempotent, IDEMPOTENT_METHODS, PhaseInv, TypeOK, Message, NoAnswer,
        Serve, Coherent, Untouched
  <1>13. CASE UNCHANGED vars
    BY <1>13 DEF OnceInv, Idempotent, IDEMPOTENT_METHODS, PhaseInv, vars, Untouched
  <1>14. QED
    BY <1>1, <1>2, <1>3, <1>4, <1>5, <1>6, <1>7, <1>8, <1>9, <1>10, <1>11, <1>12, <1>13
    DEF Next, Progress, Environment

\* The inductive invariant holds of every reachable state: its parts need each other.
THEOREM InvariantHolds == Spec => []IInv
  <1>1. IInv /\ [Next]_vars => IInv'
    BY TypeStep, PhaseStep, AttemptStep, OnceStep DEF IInv
  <1>2. QED
    BY <1>1, InitIInv, PTL DEF Spec

\* Every reachable state is well typed.
THEOREM TypeCorrect == Spec => []TypeOK
  BY InvariantHolds, PTL DEF IInv

\* A POST, a PATCH or a health probe is carried out at most once (client.py:84-102),
\* for any number of calls, retries and connections.
THEOREM NonIdempotentCarriedOutOnce == Spec => []NonIdempotentOnce
  <1>1. IInv => NonIdempotentOnce
    BY DEF IInv, OnceInv, NonIdempotentOnce
  <1>2. QED
    BY <1>1, InvariantHolds, PTL

\* After a connect error, a closed client or a missing credential a non-idempotent
\* call is safe to issue again: it was not, and will not be, carried out.
THEOREM SettledIsUntouched == Spec => []SettledUntouched
  <1>1. IInv => SettledUntouched
    BY DEF IInv, PhaseInv, OnceInv, SettledUntouched, Untouched
  <1>2. QED
    BY <1>1, InvariantHolds, PTL

-----------------------------------------------------------------------------
(* The sleep budget.                                                       *)

\* The sleeps a call has begun.
Sleeps(c) == attempt[c] + (IF pc[c] = "backoff" THEN 1 ELSE 0)

SleepInv ==
  \A c \in Call :
    /\ slept[c] <= MaxRetries * BackoffMax
    /\ pc[c] # "done" => slept[c] <= Sleeps(c) * BackoffMax

\* Multiplying by the cap is monotonic, and one more sleep adds at most one cap.
LEMMA CapArithmetic ==
  ASSUME NEW a \in Nat, NEW b \in Nat, a <= b, NEW k \in Nat
  PROVE  a * k <= b * k /\ (a + 1) * k = a * k + k
  OBVIOUS

LEMMA BackoffBudget ==
  ASSUME TypeOK, SleepInv, NEW c \in Call, NEW r \in Nat \cup {NoRetryAfter},
         pc[c] \in {"pool", "waiting"}, attempt[c] < MaxRetries,
         SleepBackoff(c, r), attempt' = attempt
  PROVE  SleepInv'
  <1>1. PICK d \in Delays(attempt[c], r) : slept' = [slept EXCEPT ![c] = @ + d]
    BY DEF SleepBackoff
  <1>2. d \in Nat /\ d <= BackoffMax
    BY DelayCapped, LimitsAssumption DEF TypeOK
  <1>3. attempt[c] \in Nat /\ slept[c] \in Nat
    BY LimitsAssumption DEF TypeOK
  <1>4. slept[c] <= attempt[c] * BackoffMax
    <2>1. Sleeps(c) = attempt[c]
      BY <1>3 DEF Sleeps
    <2>2. QED
      BY <2>1 DEF SleepInv
  <1>5. /\ (attempt[c] + 1) * BackoffMax = attempt[c] * BackoffMax + BackoffMax
        /\ (attempt[c] + 1) * BackoffMax <= MaxRetries * BackoffMax
    <2>1. attempt[c] + 1 \in Nat /\ attempt[c] + 1 <= MaxRetries
      BY <1>3, LimitsAssumption DEF TypeOK
    <2>2. MaxRetries \in Nat /\ BackoffMax \in Nat
      BY LimitsAssumption
    <2>3. (attempt[c] + 1) * BackoffMax <= MaxRetries * BackoffMax
      BY <2>1, <2>2, CapArithmetic
    <2>4. (attempt[c] + 1) * BackoffMax = attempt[c] * BackoffMax + BackoffMax
      BY <1>3, <2>1, <2>2, CapArithmetic
    <2>5. QED
      BY <2>3, <2>4
  <1>6. attempt[c] * BackoffMax \in Nat
    BY <1>3, LimitsAssumption
  <1>7. slept'[c] <= (attempt[c] + 1) * BackoffMax
    BY <1>1, <1>2, <1>3, <1>4, <1>5, <1>6, LimitsAssumption DEF TypeOK
  <1>8. slept'[c] <= MaxRetries * BackoffMax
    BY <1>1, <1>2, <1>3, <1>5, <1>6, <1>7, LimitsAssumption DEF TypeOK
  <1>9. pc' = [pc EXCEPT ![c] = "backoff"]
    BY DEF SleepBackoff
  <1>10. \A d2 \in Call \ {c} : slept'[d2] = slept[d2] /\ pc'[d2] = pc[d2]
    BY <1>1, <1>9 DEF TypeOK
  <1>11. pc'[c] = "backoff"
    BY <1>9 DEF TypeOK
  <1>12. QED
    BY <1>7, <1>8, <1>10, <1>11 DEF SleepInv, Sleeps

\* A step that neither sleeps nor starts a new attempt keeps the budget.
LEMMA AwakeBudget ==
  ASSUME TypeOK, SleepInv, slept' = slept, attempt' = attempt,
         \A c \in Call :
           \/ pc'[c] = pc[c]
           \/ pc'[c] = "done"
           \/ pc[c] \notin {"backoff", "done"} /\ pc'[c] # "backoff"
  PROVE  SleepInv'
  BY DEF SleepInv, Sleeps

\* Every step keeps the budget.
LEMMA SleepStep ==
  ASSUME TypeOK, PhaseInv, SleepInv, [Next]_vars
  PROVE  SleepInv'
  <1>1. ASSUME NEW c \in Call, NEW o, Finish(c, o), attempt' = attempt PROVE SleepInv'
    <2>1. \A d \in Call : pc'[d] = pc[d] \/ pc'[d] = "done"
      BY <1>1 DEF Finish, TypeOK
    <2>2. QED
      BY <1>1, <2>1, AwakeBudget DEF Finish
  <1>2. ASSUME NEW c \in Call, pc[c] \in {"idle", "auth"}, Issue(c), attempt' = attempt
        PROVE  SleepInv'
    <2>1. CASE client = "open"
      <3>1. \A d \in Call : pc'[d] = pc[d] \/ (pc[d] \in {"idle", "auth"} /\ pc'[d] = "pool")
        BY <1>2, <2>1 DEF Issue, TypeOK
      <3>2. QED
        BY <1>2, <2>1, <3>1, AwakeBudget DEF Issue
    <2>2. QED
      BY <1>1, <1>2, <2>1 DEF Issue
  <1>3. ASSUME NEW c \in Call, NEW k \in BOOLEAN, pc[c] \in {"pool", "waiting"},
               TransportError(c, k), attempt' = attempt
        PROVE  SleepInv'
    BY <1>1, <1>3, BackoffBudget DEF TransportError, MayRetryError, RetriesLeft
  <1>4. ASSUME NEW c \in Call, NEW m \in Method, Request(c, m) PROVE SleepInv'
    <2>1. \A d \in Call : pc'[d] = pc[d] \/ (pc[d] = "idle" /\ pc'[d] = "auth")
      BY <1>4 DEF Request, TypeOK
    <2>2. QED
      BY <1>4, <2>1, AwakeBudget DEF Request
  <1>5. ASSUME NEW c \in Call, Health(c) \/ AuthHeaders(c) PROVE SleepInv'
    BY <1>1, <1>2, <1>5 DEF Health, AuthHeaders, loop
  <1>6. ASSUME NEW c \in Call, Send(c) PROVE SleepInv'
    <2>1. \A d \in Call : pc'[d] = pc[d] \/ (pc[d] = "pool" /\ pc'[d] = "waiting")
      BY <1>6 DEF Send, TypeOK
    <2>2. QED
      BY <1>6, <2>1, AwakeBudget DEF Send
  <1>7. ASSUME NEW c \in Call, ConnectFailed(c) \/ PoolTimeout(c) \/ ReadFailed(c)
        PROVE  SleepInv'
    BY <1>3, <1>7 DEF ConnectFailed, PoolTimeout, ReadFailed, loop
  <1>8. ASSUME NEW c \in Call, Response(c) PROVE SleepInv'
    BY <1>1, <1>8, BackoffBudget, ParsedType, HeaderAssumption
    DEF Response, MayRetryStatus, RetriesLeft, loop
  <1>9. ASSUME NEW c \in Call, Wake(c) PROVE SleepInv'
    BY <1>9 DEF Wake, Issue, Finish, TypeOK, SleepInv, Sleeps
  <1>10. ASSUME NEW c \in Call, Cancel(c) PROVE SleepInv'
    BY <1>1, <1>10 DEF Cancel, loop
  <1>11. CASE Close \/ UNCHANGED vars
    BY <1>11 DEF Close, vars, SleepInv, Sleeps
  <1>12. ASSUME NEW m \in wire, NEW s \in Status, NEW p \in BOOLEAN, Serve(m, s, p)
         PROVE  SleepInv'
    BY <1>12 DEF Serve, SleepInv, Sleeps
  <1>13. QED
    BY <1>4, <1>5, <1>6, <1>7, <1>8, <1>9, <1>10, <1>11, <1>12
    DEF Next, Progress, Environment

\* A call's sleeps never exceed MaxRetries times the cap, whatever Retry-After asks.
THEOREM SleepBudgetHolds == Spec => []SleepBudget
  <1>1. Init => SleepInv
    <2>1. MaxRetries * BackoffMax \in Nat /\ 0 * BackoffMax = 0
      BY LimitsAssumption
    <2>2. QED
      BY <2>1 DEF Init, SleepInv, Sleeps
  <1>2. IInv /\ SleepInv /\ [Next]_vars => SleepInv'
    BY SleepStep DEF IInv
  <1>3. SleepInv => SleepBudget
    BY DEF SleepInv, SleepBudget
  <1>4. QED
    BY <1>1, <1>2, <1>3, InvariantHolds, PTL DEF Spec

-----------------------------------------------------------------------------
(* The refinement.                                                         *)

LEMMA InitRefines == Init => Contract!Init
  BY DEF Init, Contract!Init

\* A call that ends, reported as the contract allows it.
LEMMA FinishRefines ==
  ASSUME IInv, NEW c \in Call, NEW o \in Outcome \ {"none"}, Finish(c, o),
         pc[c] \in Running, UNCHANGED loop,
         o = "accepted" => applied[c] # {},
         ~Idempotent(c) /\ o \in {"noauth", "closed", "unreached"} => applied[c] = {}
  PROVE  Contract!Next
  <1>1. method[c] # "none" /\ outcome[c] = "none"
    BY DEF IInv, PhaseInv, Running
  <1>2. Contract!End(c, o)
    BY <1>1
    DEF Contract!End, Contract!Kind, Contract!NotPerformed, Finish, loop, Idempotent
  <1>3. o \in Contract!Result \ {"none"}
    BY DEF Outcome, Contract!Result, Contract!NotPerformed, Contract!Unknown
  <1>4. QED
    BY <1>2, <1>3 DEF Contract!Next

\* A transport error either ends the call as the contract allows or leaves the
\* contract's state alone.
LEMMA TransportErrorRefines ==
  ASSUME IInv, NEW c \in Call, NEW k \in BOOLEAN, TransportError(c, k), UNCHANGED loop,
         pc[c] \in {"pool", "waiting"}, k => pc[c] = "pool"
  PROVE  [Contract!Next]_(Contract!cvars)
  <1>1. CASE SleepBackoff(c, NoRetryAfter)
    BY <1>1 DEF SleepBackoff, loop, Contract!cvars, Idempotent
  <1>2. CASE k /\ Finish(c, "unreached")
    <2>1. ~Idempotent(c) => applied[c] = {}
      BY <1>2 DEF IInv, OnceInv, Untouched
    <2>2. QED
      BY <1>2, <2>1, FinishRefines DEF Outcome, Running
  <1>3. CASE Finish(c, "broken")
    BY <1>3, FinishRefines DEF Outcome, Running
  <1>4. QED
    BY <1>1, <1>2, <1>3 DEF TransportError

\* Entering the HTTP client is invisible, unless the client is closed.
LEMMA IssueRefines ==
  ASSUME IInv, NEW c \in Call, Issue(c), UNCHANGED <<method, applied>>,
         pc[c] \in {"auth", "backoff"}
  PROVE  [Contract!Next]_(Contract!cvars)
  <1>1. CASE UNCHANGED outcome
    BY <1>1 DEF Contract!cvars, Idempotent
  <1>2. CASE outcome' = [outcome EXCEPT ![c] = "closed"]
    <2>1. method[c] # "none" /\ outcome[c] = "none" /\ (~Idempotent(c) => applied[c] = {})
      BY DEF IInv, PhaseInv, OnceInv, Untouched
    <2>2. Contract!End(c, "closed")
      BY <1>2, <2>1 DEF Contract!End, Contract!Kind, Contract!NotPerformed, Idempotent
    <2>3. QED
      BY <2>2 DEF Contract!Next, Contract!Result, Contract!NotPerformed
  <1>3. QED
    BY <1>1, <1>2 DEF Issue, Finish

\* The upstream carrying out an attempt is the contract's Perform, or nothing.
LEMMA ServeRefines ==
  ASSUME IInv, NEW m \in wire, NEW s \in Status, NEW p \in BOOLEAN, Serve(m, s, p)
  PROVE  [Contract!Next]_(Contract!cvars)
  <1>1. m.call \in Call /\ m.n \in 0..MaxRetries /\ ~Untouched(m.call)
    BY DEF IInv, TypeOK, Message, Untouched
  <1>2. CASE ~p
    <2>1. applied' = applied
      BY <1>2, <1>1 DEF Serve, IInv, TypeOK
    <2>2. QED
      BY <2>1 DEF Serve, Contract!cvars, Idempotent
  <1>3. CASE p
    <2>1. method[m.call] # "none" /\ outcome[m.call] # "noauth" /\ m.n \notin applied[m.call]
      BY <1>1 DEF IInv, PhaseInv, AttemptInv
    <2>2. ~Idempotent(m.call) =>
            applied[m.call] = {} /\ outcome[m.call] \in {"none", "broken", "cancelled"}
      BY <1>1, <2>1 DEF IInv, OnceInv, TypeOK, Outcome
    <2>3. applied' = [applied EXCEPT ![m.call] = @ \cup {m.n}]
      BY <1>3 DEF Serve
    <2>4. Contract!Perform(m.call, m.n)
      BY <1>1, <2>1, <2>2, <2>3
      DEF Serve, Contract!Perform, Contract!Kind, Contract!Unknown, Idempotent
    <2>5. QED
      BY <1>1, <2>4 DEF Contract!Next
  <1>4. QED
    BY <1>2, <1>3

\* A call that begins is the contract's Invoke; a probe of a closed client ends at once.
LEMMA InvokeRefines ==
  ASSUME IInv, NEW c \in Call, (\E m \in Method : Request(c, m)) \/ Health(c)
  PROVE  Contract!Next
  <1>1. method[c] = "none"
    BY DEF IInv, PhaseInv, Request, Health
  <1>2. PICK m \in Method \cup {"health"} : method' = [method EXCEPT ![c] = m]
    BY DEF Request, Health
  <1>3. m # "none"
    BY <1>2, MethodAssumption DEF IDEMPOTENT_METHODS
  <1>4. PICK r \in {"none", "closed"} : outcome' = [outcome EXCEPT ![c] = r]
    <2>1. outcome[c] = "none"
      BY DEF IInv, PhaseInv, Request, Health
    <2>2. outcome' = outcome => outcome' = [outcome EXCEPT ![c] = "none"]
      BY <2>1 DEF IInv, TypeOK
    <2>3. QED
      BY <2>2 DEF Request, Health, Issue, Finish
  <1>5. DEFINE k == IF m \in IDEMPOTENT_METHODS THEN "repeatable" ELSE "once"
  <1>6. Contract!Invoke(c, k, r)
    BY <1>1, <1>2, <1>3, <1>4
    DEF Contract!Invoke, Request, Health, Idempotent, IInv, TypeOK, IDEMPOTENT_METHODS
  <1>7. QED
    BY <1>4, <1>6 DEF Contract!Next, Contract!Kind, Contract!NotPerformed

\* The retry loop implements CallContract.
THEOREM ContractImplemented == Spec => ImplementsContract
  <1>1. IInv /\ [Next]_vars => [Contract!Next]_(Contract!cvars)
    <2> SUFFICES ASSUME IInv, [Next]_vars PROVE [Contract!Next]_(Contract!cvars)
      OBVIOUS
    <2>1. ASSUME NEW c \in Call, Environment(c) PROVE [Contract!Next]_(Contract!cvars)
      <3>1. CASE Cancel(c)
        BY <3>1, FinishRefines DEF Cancel, Outcome
      <3>2. QED
        BY <2>1, <3>1, InvokeRefines DEF Environment
    <2>2. ASSUME NEW c \in Call, AuthHeaders(c) PROVE [Contract!Next]_(Contract!cvars)
      <3>1. CASE Finish(c, "noauth")
        <4>1. applied[c] = {}
          BY <2>2 DEF AuthHeaders, IInv, PhaseInv, Untouched
        <4>2. QED
          BY <2>2, <3>1, <4>1, FinishRefines DEF AuthHeaders, Outcome, Running
      <3>2. QED
        BY <2>2, <3>1, IssueRefines DEF AuthHeaders, loop
    <2>3. ASSUME NEW c \in Call, Send(c) PROVE [Contract!Next]_(Contract!cvars)
      BY <2>3 DEF Send, Contract!cvars, Idempotent
    <2>4. ASSUME NEW c \in Call, ConnectFailed(c) \/ PoolTimeout(c) \/ ReadFailed(c)
          PROVE  [Contract!Next]_(Contract!cvars)
      BY <2>4, TransportErrorRefines DEF ConnectFailed, PoolTimeout, ReadFailed
    <2>5. ASSUME NEW c \in Call, Response(c) PROVE [Contract!Next]_(Contract!cvars)
      <3>1. CASE \E h \in RetryAfter : SleepBackoff(c, ParseRetryAfter(h))
        BY <2>5, <3>1 DEF Response, SleepBackoff, loop, Contract!cvars, Idempotent
      <3>2. CASE Finish(c, IF answer[c] < 300 THEN "accepted" ELSE "answered")
        <4>1. answer[c] < 300 => applied[c] # {}
          BY <2>5 DEF Response, IInv, PhaseInv
        <4>2. QED
          BY <2>5, <3>2, <4>1, FinishRefines DEF Response, Outcome, Running
      <3>3. QED
        BY <2>5, <3>1, <3>2 DEF Response
    <2>6. ASSUME NEW c \in Call, Wake(c) PROVE [Contract!Next]_(Contract!cvars)
      BY <2>6, IssueRefines DEF Wake
    <2>7. CASE Close \/ UNCHANGED vars
      BY <2>7 DEF Close, vars, Contract!cvars, Idempotent
    <2>8. ASSUME NEW m \in wire, NEW s \in Status, NEW p \in BOOLEAN, Serve(m, s, p)
          PROVE  [Contract!Next]_(Contract!cvars)
      BY <2>8, ServeRefines
    <2>9. QED
      BY <2>1, <2>2, <2>3, <2>4, <2>5, <2>6, <2>7, <2>8 DEF Next, Progress
  <1>2. QED
    BY <1>1, InitRefines, InvariantHolds, PTL
    DEF Spec, ImplementsContract, Contract!Spec

-----------------------------------------------------------------------------
(* RetriedWrites: what a retried write does to the upstream's state.       *)

\* The client over the resource is the client.
LEMMA ResourceRefines == [WNext]_wvars => [Next]_vars
  BY DEF WNext, WServe, Next, wvars

LEMMA ResourceInvariant == WSpec => []IInv
  <1>1. WInit => Init
    BY DEF WInit
  <1>2. QED
    BY <1>1, ResourceRefines, InvariantHolds, PTL DEF WSpec, Spec

-----------------------------------------------------------------------------
(* What a call that alone changes the resource has done to it.             *)

Alone(c) == \A d \in Call \ {c} : effects[d] = 0

\* It has changed nothing; or its representation is what is stored, so that storing it
\* again changes nothing; or it was carried out, for the one time that a method which is
\* not repeated can be.
Left(c) ==
  \/ effects[c] = 0 /\ content = Absent
  \/ effects[c] = 1 /\ method[c] = "PUT" /\ content = c
  \/ effects[c] = 1 /\ Creates(c) /\ content = Absent /\ applied[c] # {}

LoneInv ==
  /\ effects \in [Call -> Nat]
  /\ \A c \in Call : Alone(c) => Left(c)

LEMMA LoneInit == WInit => LoneInv
  BY DEF WInit, LoneInv, Left

\* A step that is not the upstream's leaves a call's method alone once it has one.
LEMMA MethodStays ==
  ASSUME IInv, NEW c \in Call, Progress(c) \/ Environment(c)
  PROVE  /\ UNCHANGED applied
         /\ \A d \in Call : method[d] # "none" => method'[d] = method[d]
  <1>1. UNCHANGED applied
    BY DEF Progress, Environment, AuthHeaders, Send, ConnectFailed, PoolTimeout, ReadFailed,
       Response, Wake, Cancel, Request, Health, loop
  <1>2. \/ UNCHANGED method
        \/ pc[c] = "idle" /\ \E m : method' = [method EXCEPT ![c] = m]
    BY DEF Progress, Environment, AuthHeaders, Send, ConnectFailed, PoolTimeout, ReadFailed,
       Response, Wake, Cancel, Request, Health, loop
  <1>3. pc[c] = "idle" => method[c] = "none"
    BY DEF IInv, PhaseInv
  <1>4. QED
    BY <1>1, <1>2, <1>3 DEF IInv, TypeOK

LEMMA LoneStays ==
  ASSUME LoneInv, UNCHANGED <<content, effects>>,
         \A c \in Call : applied[c] \subseteq applied'[c],
         \A c \in Call : method[c] # "none" => method'[c] = method[c]
  PROVE  LoneInv'
  <1>1. ASSUME NEW c \in Call, Alone(c)' PROVE Left(c)'
    <2>1. Left(c)
      BY <1>1 DEF Alone, LoneInv
    <2>2. QED
      BY <2>1 DEF Left, Creates
  <1>2. QED
    BY <1>1 DEF LoneInv

\* The upstream carries out an attempt of d: of the calls that were alone, only d may
\* have changed the resource, and it has changed it once.
LEMMA LoneServe ==
  ASSUME IInv, LoneInv, NEW m \in wire, NEW s \in Status, NEW performs \in BOOLEAN,
         WServe(m, s, performs)
  PROVE  LoneInv'
  <1> DEFINE d == m.call
  <1>1. /\ d \in Call /\ UNCHANGED method
        /\ applied \in [Call -> SUBSET (0..MaxRetries)]
        /\ applied' = [applied EXCEPT ![d] = IF performs THEN @ \cup {m.n} ELSE @]
    BY DEF WServe, Serve, IInv, TypeOK, Message
  <1>2. \A c \in Call : applied[c] \subseteq applied'[c]
    BY <1>1
  <1>3. CASE ~performs
    BY <1>1, <1>2, <1>3, LoneStays DEF WServe
  <1>4. CASE performs
    <2>1. /\ content' = ContentAfter(d)
          /\ effects' = [effects EXCEPT ![d] =
               IF Creates(d) \/ content' # content THEN effects[d] + 1 ELSE effects[d]]
      BY <1>4 DEF WServe, LoneInv
    <2>2. /\ effects[d] \in Nat /\ \A c \in Call \ {d} : effects'[c] = effects[c]
          /\ effects'[d] =
               IF Creates(d) \/ content' # content THEN effects[d] + 1 ELSE effects[d]
          /\ effects' \in [Call -> Nat]
      BY <1>1, <2>1 DEF LoneInv
    <2>3. applied'[d] # {}
      BY <1>1, <1>4
    <2>4. ASSUME NEW c \in Call, Alone(c)' PROVE Left(c)'
      <3>1. CASE c # d
        <4>1. effects'[d] = 0 /\ ~Creates(d) /\ content' = content
          BY <1>1, <2>2, <2>4, <3>1 DEF Alone
        <4>2. Alone(c)
          BY <2>2, <2>4, <4>1 DEF Alone
        <4>3. Left(c) /\ effects'[c] = effects[c]
          BY <2>2, <3>1, <4>2 DEF LoneInv
        <4>4. QED
          BY <1>1, <1>2, <4>1, <4>3 DEF Left, Creates
      <3>2. CASE c = d
        <4>1. Left(d)
          BY <2>2, <2>4, <3>2 DEF Alone, LoneInv
        <4>2. CASE Creates(d)
          <5>1. applied[d] = {}
            BY <1>1, <4>2, MethodAssumption DEF IInv, OnceInv, Idempotent, Creates,
               IDEMPOTENT_METHODS
          <5>2. effects[d] = 0 /\ content = Absent
            BY <4>1, <4>2, <5>1 DEF Left, Creates
          <5>3. content' = content
            BY <2>1, <4>2 DEF ContentAfter, Creates
          <5>4. QED
            BY <1>1, <2>2, <2>3, <3>2, <4>2, <5>2, <5>3 DEF Left, Creates
        <4>3. CASE method[d] = "PUT"
          <5>1. content' = d /\ ~Creates(d) /\ d # Absent
            BY <1>1, <2>1, <4>3, AbsentAssumption DEF ContentAfter, Creates
          <5>2. (effects[d] = 0 /\ content = Absent) \/ (effects[d] = 1 /\ content = d)
            BY <4>1, <4>3, <5>1 DEF Left
          <5>3. effects'[d] = 1
            BY <2>2, <5>1, <5>2
          <5>4. QED
            BY <1>1, <3>2, <4>3, <5>1, <5>3 DEF Left
        <4>4. CASE ~Creates(d) /\ method[d] # "PUT"
          <5>1. effects[d] = 0 /\ content = Absent
            BY <4>1, <4>4 DEF Left
          <5>2. content' = Absent
            BY <2>1, <4>4, <5>1 DEF ContentAfter
          <5>3. effects'[d] = 0
            BY <2>2, <4>4, <5>1, <5>2
          <5>4. QED
            BY <3>2, <5>2, <5>3 DEF Left
        <4>5. QED
          BY <4>2, <4>3, <4>4
      <3>3. QED
        BY <3>1, <3>2
    <2>5. QED
      BY <2>2, <2>4 DEF LoneInv
  <1>5. QED
    BY <1>3, <1>4

LEMMA LoneNext == IInv /\ LoneInv /\ [WNext]_wvars => LoneInv'
  <1> SUFFICES ASSUME IInv, LoneInv, [WNext]_wvars PROVE LoneInv'
    OBVIOUS
  <1>1. ASSUME NEW c \in Call, Progress(c) \/ Environment(c), UNCHANGED <<content, effects>>
        PROVE  LoneInv'
    BY <1>1, MethodStays, LoneStays
  <1>2. CASE Close /\ UNCHANGED <<content, effects>>
    BY <1>2, LoneStays DEF Close
  <1>3. ASSUME NEW m \in wire, NEW s \in Status, NEW performs \in BOOLEAN, WServe(m, s, performs)
        PROVE  LoneInv'
    BY <1>3, LoneServe
  <1>4. CASE UNCHANGED wvars
    BY <1>4, LoneStays DEF wvars, vars
  <1>5. QED
    BY <1>1, <1>2, <1>3, <1>4 DEF WNext

\* However often a call is retried, it changes the upstream's state a second time only if
\* another call has changed it too (retry.py:21-24, client.py:84-98).
THEOREM DuplicatesNeedAnother == WSpec => []DuplicateNeedsInterference
  <1>1. LoneInv => DuplicateNeedsInterference
    <2> SUFFICES ASSUME LoneInv, NEW c \in Call, effects[c] > 1,
                        \A d \in Call \ {c} : ~(effects[d] > 0)
                 PROVE  FALSE
      BY DEF DuplicateNeedsInterference
    <2>1. Alone(c)
      BY DEF Alone, LoneInv
    <2>2. effects[c] \in {0, 1}
      BY <2>1 DEF LoneInv, Left
    <2>3. QED
      BY <2>2
  <1>2. QED
    BY <1>1, ResourceInvariant, LoneInit, LoneNext, PTL DEF WSpec

-----------------------------------------------------------------------------
(* OnBehalfOf: the resolver is the client's auth_headers() step.           *)

LEMMA ResolutionRefines ==
  ASSUME NEW c \in Call, BeginResolve(c) \/ Lookup(c)
  PROVE  [Next]_vars
  <1>1. pc[c] = "auth" /\ UNCHANGED loop
    BY DEF BeginResolve, Lookup
  <1>2. CASE Issue(c) \/ Finish(c, "noauth")
    BY <1>1, <1>2 DEF AuthHeaders, Progress, Next
  <1>3. CASE UNCHANGED <<pc, outcome, answer, slept>>
    BY <1>1, <1>3 DEF loop, vars
  <1>4. Issue(c) \/ Finish(c, "noauth") \/ UNCHANGED <<pc, outcome, answer, slept>>
    BY DEF BeginResolve, Lookup, Resolved, NotResolved, NextLookup
  <1>5. QED
    BY <1>2, <1>3, <1>4

\* The client with the real resolver in it is a client as UpstreamClient describes it
\* (client.py:83, obo.py:69-111), so every theorem about UpstreamClient holds of it.
THEOREM ClientImplemented == OSpec => ImplementsClient
  <1>1. OInit => Init
    BY DEF OInit
  <1>2. [ONext]_ovars => [Next]_vars
    <2> SUFFICES ASSUME [ONext]_ovars PROVE [Next]_vars
      OBVIOUS
    <2>1. ASSUME NEW c \in Call, NEW m \in Method, NEW j \in Claims \cup {NoCredential},
                 RequestAs(c, m, j)
          PROVE  [Next]_vars
      BY <2>1 DEF RequestAs, Next, Environment
    <2>2. ASSUME NEW c \in Call, BeginResolve(c) \/ Lookup(c) PROVE [Next]_vars
      BY <2>2, ResolutionRefines
    <2>3. ASSUME NEW c \in Call, ClientStep(c) \/ CancelResolving(c) PROVE [Next]_vars
      BY <2>3 DEF ClientStep, CancelResolving, Next, Progress, Environment
    <2>4. CASE Upstream
      BY <2>4 DEF Upstream, Next
    <2>5. ASSUME NEW j, NEW k, StoreToken(j, k) \/ EvictToken(k) PROVE [Next]_vars
      BY <2>5 DEF StoreToken, EvictToken
    <2>6. CASE UNCHANGED ovars
      BY <2>6 DEF ovars
    <2>7. QED
      BY <2>1, <2>2, <2>3, <2>4, <2>5, <2>6 DEF ONext
  <1>3. QED
    BY <1>1, <1>2, PTL DEF OSpec, ImplementsClient, Spec

-----------------------------------------------------------------------------
(* Whose credential goes out.                                              *)

\* Whose upstream token a caller may be given: its own, or, of a key that they share, the
\* token of another.
May(j, u) ==
  /\ j # NoCredential
  /\ \/ u = j.user
     \/ ~j.embeds /\ u \in User /\ SharesKey(j, u)

\* The credential in a call's headers is one that it may use.
Authorized(c) ==
  \/ May(jwt[c], cred[c])
  \/ fallback /\ cred[c] = FallbackCredential

\* The phases of a call whose headers are merged.
Past(l) == l \in {"pool", "waiting", "backoff"}

\* What a key holds was stored there for a user whose key it is.
StorageSound ==
  /\ stored = [k \in Key |-> stored[k]]
  /\ \A k \in Key : stored[k] # NoCredential =>
       stored[k] \in User /\ \E i \in Claims : i.user = stored[k] /\ k \in KeysOf(i)

\* A lookup that is awaited is one of the caller's own, and a request that got past
\* auth_headers(), or a message that it left on the wire, is authorized.
ResolverInv ==
  /\ StorageSound
  /\ jwt \in [Call -> Claims \cup {NoCredential}]
  /\ cursor \in [Call -> Nat]
  /\ DOMAIN cred = Call
  /\ cred = [c \in Call |-> cred[c]]
  /\ \A c \in Call : pc[c] # "auth" => cursor[c] = 0
  /\ \A c \in Call : cursor[c] > 0 =>
       jwt[c] # NoCredential /\ ~jwt[c].embeds /\ cursor[c] \in 1..Len(LookupKeys(jwt[c]))
  /\ \A c \in Call : method[c] # "health" /\ Past(pc[c]) => Authorized(c)
  /\ \A m \in wire : method[m.call] # "health" => Authorized(m.call)

LEMMA IdsTyped ==
  ASSUME NEW j \in Claims, NEW id \in {j.jti, j.sub}
  PROVE  id \in Seq(Part) /\ (id # NoId => id \in Id)
  <1>1. id \in Id \cup {NoId}
    BY ClaimsAssumption DEF Jwt
  <1>2. Id \subseteq Seq(Part) /\ NoId \in Seq(Part)
    BY IdAssumption DEF NoId
  <1>3. QED
    BY <1>1, <1>2

LEMMA KeysForTyped ==
  ASSUME NEW j \in Claims, NEW id \in {j.jti, j.sub}
  PROVE  /\ KeysFor(id) \in Seq(Seq(Part))
         /\ Len(KeysFor(id)) = IF id = NoId THEN 0 ELSE Len(Prefixes)
         /\ id # NoId => \A n \in 1..Len(Prefixes) : KeysFor(id)[n] = Prefixes[n] \o id
  <1>1. CASE id = NoId
    BY <1>1 DEF KeysFor
  <1>2. CASE id # NoId
    <2>1. Len(Prefixes) \in Nat /\ \A n \in 1..Len(Prefixes) : Prefixes[n] \in Seq(Part)
      BY PrefixAssumption
    <2>2. \A n \in 1..Len(Prefixes) : Prefixes[n] \o id \in Seq(Part)
      BY <2>1, IdsTyped, ConcatProperties
    <2>3. KeysFor(id) = [n \in 1..Len(Prefixes) |-> Prefixes[n] \o id]
      BY <1>2, PrefixAssumption DEF KeysFor
    <2>4. KeysFor(id) \in [1..Len(Prefixes) -> Seq(Part)]
      BY <2>2, <2>3
    <2>5. KeysFor(id) \in Seq(Seq(Part)) /\ Len(KeysFor(id)) = Len(Prefixes)
      BY <2>1, <2>4
    <2>6. QED
      BY <1>2, <2>3, <2>5
  <1>3. QED
    BY <1>1, <1>2

LEMMA KeysTyped ==
  ASSUME NEW j \in Claims
  PROVE  /\ LookupKeys(j) \in Seq(Seq(Part))
         /\ Len(LookupKeys(j)) = Len(KeysFor(j.jti)) + Len(KeysFor(j.sub))
  BY KeysForTyped, ConcatProperties DEF LookupKeys

LEMMA KeysForOwn ==
  ASSUME NEW j \in Claims, j # NoCredential, NEW id \in {j.jti, j.sub},
         NEW n \in 1..Len(KeysFor(id))
  PROVE  KeysFor(id)[n] \in KeysOf(j)
  <1>1. id # NoId /\ n \in 1..Len(Prefixes) /\ KeysFor(id)[n] = Prefixes[n] \o id
    <2>1. id # NoId
      <3> SUFFICES ASSUME id = NoId PROVE FALSE
        OBVIOUS
      <3>1. Len(KeysFor(id)) = 0
        BY KeysForTyped
      <3>2. QED
        BY <3>1
    <2>2. QED
      BY <2>1, KeysForTyped
  <1>2. n \in DOMAIN Prefixes
    BY <1>1, PrefixAssumption
  <1>3. KeysFor(id)[n] \in KeysUnder(id)
    BY <1>1, <1>2 DEF KeysUnder
  <1>4. QED
    BY <1>1, <1>3 DEF KeysOf

\* Every key that a caller's lookups may ask for is its own.
LEMMA KeysAreOwn ==
  ASSUME NEW j \in Claims, j # NoCredential, NEW i \in 1..Len(LookupKeys(j))
  PROVE  LookupKeys(j)[i] \in KeysOf(j)
  <1>1. /\ KeysFor(j.jti) \in Seq(Seq(Part)) /\ KeysFor(j.sub) \in Seq(Seq(Part))
        /\ Len(KeysFor(j.jti)) \in Nat /\ Len(KeysFor(j.sub)) \in Nat
    BY KeysForTyped, LenProperties
  <1>2. \A s, t \in Seq(Seq(Part)) : \A n \in 1..Len(s) + Len(t) :
          (s \o t)[n] = IF n <= Len(s) THEN s[n] ELSE t[n - Len(s)]
    BY ConcatProperties
  <1>3. i \in 1..Len(KeysFor(j.jti)) + Len(KeysFor(j.sub))
    BY KeysTyped
  <1>4. LookupKeys(j)[i] = IF i <= Len(KeysFor(j.jti)) THEN KeysFor(j.jti)[i]
                           ELSE KeysFor(j.sub)[i - Len(KeysFor(j.jti))]
    BY <1>1, <1>2, <1>3 DEF LookupKeys
  <1>5. CASE i <= Len(KeysFor(j.jti))
    <2>1. i \in 1..Len(KeysFor(j.jti))
      BY <1>1, <1>3, <1>5
    <2>2. QED
      BY <1>4, <1>5, <2>1, KeysForOwn
  <1>6. CASE ~(i <= Len(KeysFor(j.jti)))
    <2>1. i - Len(KeysFor(j.jti)) \in 1..Len(KeysFor(j.sub))
      BY <1>1, <1>3, <1>6
    <2>2. QED
      BY <1>4, <1>6, <2>1, KeysForOwn
  <1>7. QED
    BY <1>5, <1>6

\* A key of a caller is a key.
LEMMA OwnKeys ==
  ASSUME NEW j \in Claims
  PROVE  KeysOf(j) \subseteq Key
  BY IdsTyped DEF KeysOf, Key

LEMMA ResolverInit == OInit => ResolverInv
  BY DEF OInit, Init, ResolverInv, StorageSound, Past

\* A step of the client moves one call, on from auth_headers() or to its end.
StepsOnly(c) ==
  /\ \A d \in Call \ {c} : pc'[d] = pc[d] /\ method'[d] = method[d]
  /\ Past(pc'[c]) \/ pc'[c] = "done"

LEMMA CallMoves ==
  ASSUME TypeOK, NEW c \in Call, NEW l \in {"pool", "waiting", "backoff", "done"},
         pc' = [pc EXCEPT ![c] = l],
         method' = method \/ method' = [method EXCEPT ![c] = "health"]
  PROVE  StepsOnly(c)
  BY DEF TypeOK, StepsOnly, Past

LEMMA FinishMoves ==
  ASSUME TypeOK, NEW c \in Call, NEW o, Finish(c, o) \/ Issue(c) \/ SleepBackoff(c, o),
         method' = method \/ method' = [method EXCEPT ![c] = "health"]
  PROVE  StepsOnly(c)
  BY CallMoves DEF Finish, Issue, SleepBackoff

\* Only a call past auth_headers(), or a health probe, gets to the pool, and only from
\* the pool does a message get on the wire.
LEMMA ClientSteps ==
  ASSUME TypeOK, NEW c \in Call, ClientStep(c) \/ CancelResolving(c)
  PROVE  /\ UNCHANGED <<jwt, cred, fallback, stored>>
         /\ StepsOnly(c)
         /\ \/ method' = method /\ (Past(pc'[c]) => Past(pc[c]))
            \/ method'[c] = "health" /\ pc[c] = "idle"
         /\ \/ wire' = wire
            \/ /\ pc[c] = "pool" /\ method' = method
               /\ wire' = wire \cup {[call |-> c, n |-> attempt[c]]}
  <1>1. CASE Send(c) /\ UNCHANGED resolver
    <2>1. StepsOnly(c)
      BY <1>1, CallMoves DEF Send
    <2>2. QED
      BY <1>1, <2>1 DEF Send, resolver, Past
  <1>2. CASE (ConnectFailed(c) \/ PoolTimeout(c) \/ ReadFailed(c)) /\ UNCHANGED resolver
    <2>1. Past(pc[c]) /\ UNCHANGED <<jwt, cred, fallback, stored, method, wire>>
      BY <1>2 DEF ConnectFailed, PoolTimeout, ReadFailed, loop, resolver, Past
    <2>2. StepsOnly(c)
      BY <1>2, <2>1, FinishMoves DEF ConnectFailed, PoolTimeout, ReadFailed, TransportError
    <2>3. QED
      BY <2>1, <2>2
  <1>3. CASE Response(c) /\ UNCHANGED resolver
    <2>1. Past(pc[c]) /\ UNCHANGED <<jwt, cred, fallback, stored, method, wire>>
      BY <1>3 DEF Response, loop, resolver, Past
    <2>2. StepsOnly(c)
      BY <1>3, <2>1, FinishMoves DEF Response
    <2>3. QED
      BY <2>1, <2>2
  <1>4. CASE Wake(c) /\ UNCHANGED resolver
    <2>1. Past(pc[c]) /\ UNCHANGED <<jwt, cred, fallback, stored, method, wire>>
      BY <1>4 DEF Wake, resolver, Past
    <2>2. StepsOnly(c)
      BY <1>4, <2>1, FinishMoves DEF Wake
    <2>3. QED
      BY <2>1, <2>2
  <1>5. CASE Health(c) /\ UNCHANGED resolver
    <2>1. method' = [method EXCEPT ![c] = "health"] /\ pc[c] = "idle"
      BY <1>5 DEF Health
    <2>2. method'[c] = "health"
      BY <2>1 DEF TypeOK
    <2>3. StepsOnly(c)
      BY <1>5, <2>1, FinishMoves DEF Health
    <2>4. QED
      BY <1>5, <2>1, <2>2, <2>3 DEF Health, resolver
  <1>6. CASE CancelResolving(c)
    <2>1. UNCHANGED <<jwt, cred, fallback, stored, method, wire>> /\ pc' = [pc EXCEPT ![c] = "done"]
      BY <1>6 DEF CancelResolving, Cancel, Finish, loop
    <2>2. StepsOnly(c) /\ pc'[c] = "done"
      BY <2>1, CallMoves DEF TypeOK
    <2>3. QED
      BY <2>1, <2>2 DEF Past
  <1>7. QED
    BY <1>1, <1>2, <1>3, <1>4, <1>5, <1>6 DEF ClientStep

LEMMA ClientStepInv ==
  ASSUME IInv, ResolverInv, NEW c \in Call, ClientStep(c) \/ CancelResolving(c)
  PROVE  ResolverInv'
  <1>1. TypeOK
    BY DEF IInv
  <1>2. /\ UNCHANGED <<jwt, cred, fallback, stored>>
        /\ cursor' \in [Call -> Nat]
        /\ \A d \in Call \ {c} : cursor'[d] = cursor[d]
        /\ cursor'[c] = 0
    <2>1. CASE CancelResolving(c)
      BY <2>1, ClientSteps, <1>1 DEF CancelResolving, ResolverInv
    <2>2. CASE ClientStep(c)
      <3>1. pc[c] # "auth"
        BY <2>2 DEF ClientStep, Send, ConnectFailed, PoolTimeout, ReadFailed, Response, Wake,
           Health
      <3>2. QED
        BY <2>2, <3>1 DEF ClientStep, resolver, ResolverInv
    <2>3. QED
      BY <2>1, <2>2
  <1>3. \A m \in wire : m.call \in Call /\ pc[m.call] # "idle"
    BY DEF IInv, TypeOK, Message, PhaseInv, Untouched
  <1>4. StepsOnly(c)
    BY <1>1, ClientSteps
  <1>5. \A d \in Call : pc'[d] # "auth" => cursor'[d] = 0
    BY <1>2, <1>4 DEF ResolverInv, StepsOnly
  <1>6. \A d \in Call : Authorized(d) => Authorized(d)'
    BY <1>2 DEF Authorized
  <1>7. \A d \in Call : method'[d] # "health" /\ Past(pc'[d]) => Authorized(d)'
    BY <1>1, <1>4, <1>6, ClientSteps DEF ResolverInv, StepsOnly
  <1>8. ASSUME NEW m \in wire', method'[m.call] # "health" PROVE Authorized(m.call)'
    <2>1. CASE m \in wire
      <3>1. method[m.call] = method'[m.call]
        BY <1>1, <1>3, <1>4, <1>8, <2>1, ClientSteps DEF IInv, PhaseInv, StepsOnly
      <3>2. QED
        BY <1>3, <1>6, <1>8, <2>1, <3>1 DEF ResolverInv
    <2>2. CASE m \notin wire
      <3>1. m.call = c /\ pc[c] = "pool" /\ method' = method
        BY <1>1, <2>2, ClientSteps
      <3>2. QED
        BY <1>6, <1>8, <3>1 DEF ResolverInv, Past
    <2>3. QED
      BY <2>1, <2>2
  <1>9. ASSUME NEW d \in Call, cursor'[d] > 0
        PROVE  /\ jwt'[d] # NoCredential /\ ~jwt'[d].embeds
               /\ cursor'[d] \in 1..Len(LookupKeys(jwt'[d]))
    <2>1. d # c /\ jwt'[d] = jwt[d]
      BY <1>2, <1>9
    <2>2. cursor'[d] = cursor[d]
      BY <1>2, <2>1
    <2>3. /\ jwt[d] # NoCredential /\ ~jwt[d].embeds
          /\ cursor[d] \in 1..Len(LookupKeys(jwt[d]))
      BY <1>9, <2>2 DEF ResolverInv
    <2>4. QED
      BY <2>1, <2>2, <2>3
  <1>10. StorageSound'
    BY <1>2 DEF ResolverInv, StorageSound
  <1>11. jwt' \in [Call -> Claims \cup {NoCredential}] /\ DOMAIN cred' = Call
         /\ cred' = [d \in Call |-> cred'[d]]
    BY <1>2 DEF ResolverInv
  <1>12. QED
    BY <1>2, <1>5, <1>7, <1>8, <1>9, <1>10, <1>11 DEF ResolverInv

LEMMA RequestInv ==
  ASSUME IInv, ResolverInv, NEW c \in Call, NEW m \in Method,
         NEW j \in Claims \cup {NoCredential}, RequestAs(c, m, j)
  PROVE  ResolverInv'
  <1>1. /\ pc[c] = "idle" /\ pc' = [pc EXCEPT ![c] = "auth"]
        /\ method' = [method EXCEPT ![c] = m] /\ jwt' = [jwt EXCEPT ![c] = j]
        /\ UNCHANGED <<wire, cursor, cred, fallback, stored>>
    BY DEF RequestAs, Request
  <1>2. TypeOK /\ \A n \in wire : n.call \in Call \ {c}
    BY <1>1 DEF IInv, TypeOK, Message, PhaseInv, Untouched
  <1>3. \A d \in Call \ {c} : Authorized(d) => Authorized(d)'
    BY <1>1 DEF Authorized, ResolverInv
  <1>4. cursor[c] = 0
    BY <1>1 DEF ResolverInv
  <1>5. \A d \in Call : method'[d] # "health" /\ Past(pc'[d]) => Authorized(d)'
    BY <1>1, <1>2, <1>3 DEF ResolverInv, Past, TypeOK
  <1>6. \A n \in wire' : method'[n.call] # "health" => Authorized(n.call)'
    BY <1>1, <1>2, <1>3 DEF ResolverInv, TypeOK
  <1>7. \A d \in Call : pc'[d] # "auth" => cursor'[d] = 0
    BY <1>1, <1>2, <1>4 DEF ResolverInv, TypeOK
  <1>8. \A d \in Call : cursor'[d] > 0 =>
          jwt'[d] # NoCredential /\ ~jwt'[d].embeds /\ cursor'[d] \in 1..Len(LookupKeys(jwt'[d]))
    BY <1>1, <1>4 DEF ResolverInv
  <1>9. QED
    BY <1>1, <1>5, <1>6, <1>7, <1>8 DEF ResolverInv, StorageSound

\* What a resolution step may do: wait for a lookup of the caller's own, or leave
\* auth_headers() with an authorized credential, or end.
Settles(c) ==
  /\ pc[c] = "auth" /\ UNCHANGED <<loop, jwt, fallback, stored>>
  /\ \/ /\ UNCHANGED <<pc, cred>>
        /\ cursor' = [cursor EXCEPT ![c] = cursor'[c]]
        /\ cursor'[c] \in 1..Len(LookupKeys(jwt[c])) /\ jwt[c] # NoCredential /\ ~jwt[c].embeds
     \/ /\ cursor' = [cursor EXCEPT ![c] = 0]
        /\ \E l \in {"pool", "done"} : \E k :
             /\ pc' = [pc EXCEPT ![c] = l]
             /\ cred' = [cred EXCEPT ![c] = k]
             /\ \/ l = "done"
                \/ fallback /\ k = FallbackCredential
                \/ May(jwt[c], k)

LEMMA SettlesInv ==
  ASSUME IInv, ResolverInv, NEW c \in Call, Settles(c)
  PROVE  ResolverInv'
  <1>1. TypeOK /\ \A n \in wire : n.call \in Call \ {c}
    BY DEF IInv, TypeOK, Message, PhaseInv, Untouched, Settles
  <1>2. \A d \in Call \ {c} : Authorized(d) => Authorized(d)'
    BY DEF Authorized, ResolverInv, Settles
  <1>3. Past(pc'[c]) => Authorized(c)'
    BY <1>1 DEF Authorized, ResolverInv, Settles, Past, TypeOK
  <1>4. /\ UNCHANGED <<wire, method, jwt, fallback, stored>>
        /\ \A d \in Call \ {c} : pc'[d] = pc[d] /\ cursor'[d] = cursor[d]
    BY <1>1 DEF Settles, loop, ResolverInv, TypeOK
  <1>5. /\ pc'[c] = "auth" \/ cursor'[c] = 0
        /\ cursor'[c] > 0 =>
             jwt[c] # NoCredential /\ ~jwt[c].embeds /\ cursor'[c] \in 1..Len(LookupKeys(jwt[c]))
        /\ cursor' \in [Call -> Nat]
    <2>1. CASE UNCHANGED <<pc, cred>>
      <3>1. \/ cursor'[c] = 0
            \/ jwt[c] # NoCredential /\ ~jwt[c].embeds /\ cursor'[c] \in 1..Len(LookupKeys(jwt[c]))
        BY DEF Settles, ResolverInv
      <3>2. cursor' = [cursor EXCEPT ![c] = cursor'[c]] /\ cursor'[c] \in Nat
        BY <3>1 DEF Settles, ResolverInv
      <3>3. QED
        BY <2>1, <3>1, <3>2 DEF Settles, ResolverInv
    <2>2. CASE cursor' = [cursor EXCEPT ![c] = 0]
      BY <2>2 DEF ResolverInv
    <2>3. QED
      BY <2>1, <2>2 DEF Settles
  <1>6. DOMAIN cred' = Call /\ cred' = [d \in Call |-> cred'[d]]
    BY DEF Settles, ResolverInv
  <1>7. QED
    BY <1>1, <1>2, <1>3, <1>4, <1>5, <1>6 DEF ResolverInv, StorageSound

LEMMA IssueSettles ==
  ASSUME ResolverInv, NEW c \in Call, NEW STATE k, pc[c] = "auth", UNCHANGED <<loop, jwt, fallback, stored>>,
         cursor' = [cursor EXCEPT ![c] = 0], cred' = [cred EXCEPT ![c] = k], Issue(c),
         \/ fallback /\ k = FallbackCredential
         \/ May(jwt[c], k)
  PROVE  Settles(c)
  <1>1. PICK l \in {"pool", "done"} : pc' = [pc EXCEPT ![c] = l]
    BY DEF Issue, Finish
  <1>2. QED
    BY <1>1 DEF Settles

LEMMA NotResolvedSettles ==
  ASSUME ResolverInv, NEW c \in Call, pc[c] = "auth", UNCHANGED <<loop, jwt, fallback, stored>>, NotResolved(c)
  PROVE  Settles(c)
  <1>1. CASE fallback
    BY <1>1, IssueSettles DEF NotResolved
  <1>2. CASE ~fallback
    <2>1. cred' = [cred EXCEPT ![c] = cred[c]]
      BY <1>2 DEF NotResolved, ResolverInv
    <2>2. pc' = [pc EXCEPT ![c] = "done"] /\ cursor' = [cursor EXCEPT ![c] = 0]
      BY <1>2 DEF NotResolved, Finish
    <2>3. QED
      BY <2>1, <2>2 DEF Settles
  <1>3. QED
    BY <1>1, <1>2

LEMMA NextLookupSettles ==
  ASSUME ResolverInv, NEW c \in Call, pc[c] = "auth", cursor[c] > 0,
         UNCHANGED <<loop, jwt, fallback, stored>>, NextLookup(c)
  PROVE  Settles(c)
  <1>1. CASE NotResolved(c)
    BY <1>1, NotResolvedSettles
  <1>2. CASE ~NotResolved(c)
    <2>1. /\ cursor[c] < Len(LookupKeys(jwt[c])) /\ UNCHANGED <<pc, cred>>
          /\ cursor' = [cursor EXCEPT ![c] = cursor[c] + 1]
      BY <1>2 DEF NextLookup
    <2>2. cursor'[c] = cursor[c] + 1
      BY <2>1 DEF ResolverInv
    <2>3. cursor[c] \in Nat /\ jwt[c] # NoCredential /\ ~jwt[c].embeds /\ jwt[c] \in Claims
      BY DEF ResolverInv
    <2>4. Len(LookupKeys(jwt[c])) \in Nat
      BY <2>3, KeysTyped
    <2>5. cursor' = [cursor EXCEPT ![c] = cursor'[c]]
      BY <2>1, <2>2
    <2>6. cursor'[c] \in 1..Len(LookupKeys(jwt[c]))
      BY <2>1, <2>2, <2>3, <2>4
    <2>7. QED
      BY <2>1, <2>3, <2>5, <2>6 DEF Settles
  <1>3. QED
    BY <1>1, <1>2

LEMMA ResolutionSettles ==
  ASSUME ResolverInv, NEW c \in Call, BeginResolve(c) \/ Lookup(c)
  PROVE  Settles(c)
  <1>1. pc[c] = "auth" /\ UNCHANGED <<loop, jwt, fallback, stored>>
    BY DEF BeginResolve, Lookup
  <1>2. CASE Embeds(c) /\ Resolved(c, jwt[c].user)
    BY <1>1, <1>2, IssueSettles DEF Embeds, Resolved, May
  <1>3. CASE NotResolved(c)
    BY <1>1, <1>3, NotResolvedSettles
  <1>4. CASE /\ ~Embeds(c) /\ jwt[c] # NoCredential /\ LookupKeys(jwt[c]) # <<>>
             /\ cursor' = [cursor EXCEPT ![c] = 1] /\ UNCHANGED <<pc, cred>>
    <2>1. LookupKeys(jwt[c]) \in Seq(Seq(Part))
      BY <1>4, KeysTyped DEF ResolverInv
    <2>2. cursor'[c] = 1 /\ 1 \in 1..Len(LookupKeys(jwt[c]))
      BY <1>4, <2>1 DEF ResolverInv
    <2>3. QED
      BY <1>1, <1>4, <2>2 DEF Settles, Embeds
  <1>5. CASE Lookup(c)
    <2>1. cursor[c] > 0 /\ jwt[c] \in Claims /\ cursor[c] \in 1..Len(LookupKeys(jwt[c]))
      BY <1>5 DEF Lookup, ResolverInv
    <2>2. jwt[c] # NoCredential /\ ~jwt[c].embeds /\ LookupKeys(jwt[c])[cursor[c]] \in KeysOf(jwt[c])
      BY <2>1, KeysAreOwn DEF ResolverInv
    <2>3. ASSUME NEW k \in Held, k = LookupKeys(jwt[c])[cursor[c]], Resolved(c, stored[k])
          PROVE  Settles(c)
      <3>1. May(jwt[c], stored[k])
        <4>1. stored[k] \in User /\ \E i \in Claims : i.user = stored[k] /\ k \in KeysOf(i)
          BY DEF Held, ResolverInv, StorageSound
        <4>2. SharesKey(jwt[c], stored[k])
          BY <2>2, <2>3, <4>1 DEF SharesKey
        <4>3. QED
          BY <2>2, <4>1, <4>2 DEF May
      <3>2. QED
        BY <1>1, <2>3, <3>1, IssueSettles DEF Resolved
    <2>4. CASE NextLookup(c)
      BY <1>1, <2>1, <2>4, NextLookupSettles
    <2>5. QED
      BY <1>5, <2>3, <2>4 DEF Lookup
  <1>6. QED
    BY <1>2, <1>3, <1>4, <1>5 DEF BeginResolve

LEMMA ResolutionInv ==
  ASSUME IInv, ResolverInv, NEW c \in Call, BeginResolve(c) \/ Lookup(c)
  PROVE  ResolverInv'
  BY ResolutionSettles, SettlesInv

LEMMA StorageInv ==
  ASSUME IInv, ResolverInv, UNCHANGED <<pc, method, jwt, fallback, cursor, cred>>,
         wire' \subseteq wire, StorageSound'
  PROVE  ResolverInv'
  BY DEF ResolverInv, Authorized

\* What the storage does keeps each key with one of its users, or with none.
LEMMA StoreSound ==
  ASSUME StorageSound, NEW k \in Key, NEW u, stored' = [stored EXCEPT ![k] = u],
         u = NoCredential \/ (u \in User /\ \E i \in Claims : i.user = u /\ k \in KeysOf(i))
  PROVE  StorageSound'
  <1>1. stored' = [l \in Key |-> IF l = k THEN u ELSE stored[l]]
    BY DEF StorageSound
  <1>2. stored' = [l \in Key |-> stored'[l]]
    BY <1>1
  <1>3. \A l \in Key : stored'[l] # NoCredential =>
          stored'[l] \in User /\ \E i \in Claims : i.user = stored'[l] /\ l \in KeysOf(i)
    BY <1>1 DEF StorageSound
  <1>4. QED
    BY <1>2, <1>3 DEF StorageSound

\* A key under which a caller's token may be stored is a key, and its user is one.
LEMMA StoredFor ==
  ASSUME NEW j \in Claims, NEW k \in KeysOf(j)
  PROVE  k \in Key /\ j.user \in User
  BY OwnKeys, ClaimsAssumption DEF Jwt

LEMMA ResolverNext == IInv /\ ResolverInv /\ [ONext]_ovars => ResolverInv'
  <1> SUFFICES ASSUME IInv, ResolverInv, [ONext]_ovars PROVE ResolverInv'
    OBVIOUS
  <1>1. ASSUME NEW c \in Call, NEW m \in Method, NEW j \in Claims \cup {NoCredential},
               RequestAs(c, m, j)
        PROVE  ResolverInv'
    BY <1>1, RequestInv
  <1>2. ASSUME NEW c \in Call, BeginResolve(c) \/ Lookup(c) PROVE ResolverInv'
    BY <1>2, ResolutionInv
  <1>3. ASSUME NEW c \in Call, ClientStep(c) \/ CancelResolving(c) PROVE ResolverInv'
    BY <1>3, ClientStepInv
  <1>4. CASE Upstream
    <2>1. UNCHANGED <<pc, method, jwt, fallback, stored, cursor, cred>> /\ wire' \subseteq wire
      BY <1>4 DEF Upstream, Close, Serve, resolver
    <2>2. QED
      BY <2>1, StorageInv DEF ResolverInv, StorageSound
  <1>5. ASSUME NEW j \in Claims, NEW k \in KeysOf(j), StoreToken(j, k) PROVE ResolverInv'
    <2>1. StorageSound'
      BY <1>5, StoredFor, StoreSound DEF StoreToken, ResolverInv
    <2>2. QED
      BY <1>5, <2>1, StorageInv DEF StoreToken, vars
  <1>6. ASSUME NEW k \in Key, EvictToken(k) PROVE ResolverInv'
    <2>1. StorageSound'
      BY <1>6, StoreSound DEF EvictToken, ResolverInv
    <2>2. QED
      BY <1>6, <2>1, StorageInv DEF EvictToken, vars
  <1>7. CASE UNCHANGED ovars
    BY <1>7, StorageInv DEF ovars, vars, ResolverInv, StorageSound
  <1>8. QED
    BY <1>1, <1>2, <1>3, <1>4, <1>5, <1>6, <1>7 DEF ONext

\* For any prefixes and ids, whose keys may coincide: an attempt on the wire carries the
\* caller's own token, or the configured fallback, and another user's only where the two
\* share a key and the JWT embeds no token (obo.py:69-79, 104-111), whatever other calls,
\* evictions and cancellations come in between.
THEOREM OwnCredentialHolds == OSpec => []OwnCredential
  <1>1. OSpec => []IInv
    BY ClientImplemented, InvariantHolds, PTL DEF ImplementsClient
  <1>2. ResolverInv => OwnCredential
    BY DEF ResolverInv, OwnCredential, Authorized, May
  <1>3. QED
    BY <1>1, <1>2, ResolverInit, ResolverNext, PTL DEF OSpec

\* With the real resolver too, a POST is carried out at most once (client.py:84-102).
THEOREM OnceOnBehalf == OSpec => []NonIdempotentOnce
  BY ClientImplemented, NonIdempotentCarriedOutOnce, PTL DEF ImplementsClient

-----------------------------------------------------------------------------
(* Nobody is failed, or given the fallback, without cause.                 *)

\* The keys whose lookups came before the one that a call awaits.
Read(c) == {LookupKeys(jwt[c])[i] : i \in 1..(cursor[c] - 1)}

\* What is owed to a call is stored and its own, and none of the keys that it has read
\* is owed to it any more; a miss is charged to a call only when nothing is owed.
OwedInv ==
  /\ owed = [c \in Call |-> owed[c]]
  /\ \A c \in Call : owed[c] \subseteq Held \cap KeysOf(jwt[c])
  /\ \A c \in Call : cursor[c] > 0 => ~Embeds(c) /\ owed[c] \cap Read(c) = {}
  /\ \A c \in Call : pc[c] \in {"idle", "auth"} => cred[c] = NoCredential
  /\ NoSpuriousMiss

\* The lookups of a token go through every key under which it may be stored.
LEMMA KeysAreLookedUp ==
  ASSUME NEW j \in Claims, NEW k \in KeysOf(j), j # NoCredential
  PROVE  \E n \in 1..Len(LookupKeys(j)) : LookupKeys(j)[n] = k
  <1>1. PICK id \in {j.jti, j.sub} \ {NoId} : k \in KeysUnder(id)
    BY DEF KeysOf
  <1>2. DOMAIN Prefixes = 1..Len(Prefixes) /\ Len(Prefixes) \in Nat
    BY PrefixAssumption
  <1>3. PICK i \in 1..Len(Prefixes) : k = Prefixes[i] \o id
    BY <1>1, <1>2, Zenon DEF KeysUnder
  <1>4. Len(KeysFor(id)) = Len(Prefixes)
    BY <1>1, KeysForTyped
  <1>5. KeysFor(id)[i] = k
    BY <1>1, <1>3, KeysForTyped
  <1>6. \A n \in 1..Len(LookupKeys(j)) :
          LookupKeys(j)[n] = IF n <= Len(KeysFor(j.jti)) THEN KeysFor(j.jti)[n]
                             ELSE KeysFor(j.sub)[n - Len(KeysFor(j.jti))]
    <2>1. KeysFor(j.jti) \in Seq(Seq(Part)) /\ KeysFor(j.sub) \in Seq(Seq(Part))
      BY KeysForTyped
    <2>2. \A s, t \in Seq(Seq(Part)) : \A n \in 1..Len(s) + Len(t) :
            (s \o t)[n] = IF n <= Len(s) THEN s[n] ELSE t[n - Len(s)]
      BY ConcatProperties
    <2>3. QED
      BY <2>1, <2>2, KeysTyped DEF LookupKeys
  <1>7. Len(LookupKeys(j)) = Len(KeysFor(j.jti)) + Len(KeysFor(j.sub))
    BY KeysTyped
  <1>8. Len(KeysFor(j.jti)) \in {0, Len(Prefixes)} /\ Len(KeysFor(j.sub)) \in {0, Len(Prefixes)}
    BY KeysForTyped
  <1>9. CASE id = j.jti
    <2>1. i \in 1..Len(LookupKeys(j)) /\ i <= Len(KeysFor(j.jti))
      BY <1>2, <1>4, <1>7, <1>8, <1>9
    <2>2. QED
      BY <1>5, <1>6, <1>9, <2>1
  <1>10. CASE id = j.sub
    <2>1. /\ Len(KeysFor(j.jti)) + i \in 1..Len(LookupKeys(j))
          /\ ~(Len(KeysFor(j.jti)) + i <= Len(KeysFor(j.jti)))
          /\ (Len(KeysFor(j.jti)) + i) - Len(KeysFor(j.jti)) = i
      BY <1>2, <1>4, <1>7, <1>8, <1>10
    <2>2. LookupKeys(j)[Len(KeysFor(j.jti)) + i] = KeysFor(j.sub)[i]
      BY <1>6, <2>1
    <2>3. QED
      BY <1>5, <1>10, <2>1, <2>2
  <1>11. QED
    BY <1>1, <1>9, <1>10

LEMMA OwedInit == OInit => OwedInv
  <1> SUFFICES ASSUME OInit PROVE OwedInv
    OBVIOUS
  <1>1. \A c \in Call : cred[c] # FallbackCredential /\ outcome[c] # "noauth"
    BY CredentialAssumption DEF OInit, Init
  <1>2. QED
    BY <1>1 DEF OInit, OwedInv, NoSpuriousMiss, Held

\* A call that is not yet past auth_headers() has no outcome.
LEMMA NoOutcomeYet ==
  ASSUME IInv, NEW c \in Call, pc[c] \in {"idle", "auth"}
  PROVE  outcome[c] = "none"
  BY DEF IInv, PhaseInv

\* A step of one call leaves what OwedInv says of the others as it is.
LEMMA OwedElsewhere ==
  ASSUME OwedInv, NEW c \in Call,
         owed' = [d \in Call |-> owed'[d]], UNCHANGED stored,
         \A d \in Call \ {c} : /\ pc'[d] = pc[d] /\ outcome'[d] = outcome[d]
                               /\ jwt'[d] = jwt[d] /\ cursor'[d] = cursor[d]
                               /\ cred'[d] = cred[d] /\ owed'[d] = owed[d],
         owed'[c] \subseteq Held \cap KeysOf(jwt'[c]),
         cursor'[c] > 0 => ~Embeds(c)' /\ owed'[c] \cap Read(c)' = {},
         pc'[c] \in {"idle", "auth"} => cred'[c] = NoCredential,
         cred'[c] = FallbackCredential \/ outcome'[c] = "noauth" => ~Embeds(c)' /\ owed'[c] = {}
  PROVE  OwedInv'
  <1>1. \A d \in Call \ {c} : (Embeds(d)' <=> Embeds(d)) /\ Read(d)' = Read(d)
    BY DEF Embeds, Read
  <1>2. \A d \in Call : owed'[d] \subseteq Held' \cap KeysOf(jwt'[d])
    BY DEF OwedInv, Held
  <1>3. \A d \in Call : cursor'[d] > 0 => ~Embeds(d)' /\ owed'[d] \cap Read(d)' = {}
    BY <1>1 DEF OwedInv
  <1>4. \A d \in Call : pc'[d] \in {"idle", "auth"} => cred'[d] = NoCredential
    BY DEF OwedInv
  <1>5. NoSpuriousMiss'
    BY <1>1 DEF OwedInv, NoSpuriousMiss
  <1>6. QED
    BY <1>2, <1>3, <1>4, <1>5 DEF OwedInv, KeysOf

LEMMA RequestOwed ==
  ASSUME IInv, ResolverInv, OwedInv, NEW c \in Call, NEW m \in Method,
         NEW j \in Claims \cup {NoCredential}, RequestAs(c, m, j)
  PROVE  OwedInv'
  <1>1. /\ pc[c] = "idle" /\ pc' = [pc EXCEPT ![c] = "auth"]
        /\ jwt' = [jwt EXCEPT ![c] = j] /\ owed' = [owed EXCEPT ![c] = Held \cap KeysOf(j)]
        /\ UNCHANGED <<outcome, cursor, cred, stored>>
    BY DEF RequestAs, Request
  <1>2. TypeOK /\ outcome[c] = "none" /\ cursor[c] = 0
    BY <1>1, NoOutcomeYet DEF IInv, ResolverInv
  <1>3. cred[c] = NoCredential /\ NoCredential # FallbackCredential
    BY <1>1, CredentialAssumption DEF OwedInv
  <1>4. \A d \in Call \ {c} : pc'[d] = pc[d] /\ jwt'[d] = jwt[d] /\ owed'[d] = owed[d]
    BY <1>1, <1>2 DEF TypeOK, ResolverInv, OwedInv
  <1>5. jwt'[c] = j /\ owed'[c] = Held \cap KeysOf(j)
    BY <1>1 DEF ResolverInv, OwedInv
  <1>6. owed' = [d \in Call |-> owed'[d]]
    BY <1>1 DEF OwedInv
  <1>7. cursor'[c] = 0 /\ cred'[c] # FallbackCredential /\ outcome'[c] # "noauth"
    BY <1>1, <1>2, <1>3
  <1>8. pc'[c] = "auth" /\ cred'[c] = NoCredential
    BY <1>1, <1>2, <1>3 DEF TypeOK
  <1>9. \A d \in Call \ {c} : cursor'[d] = cursor[d] /\ cred'[d] = cred[d] /\ outcome'[d] = outcome[d]
    BY <1>1
  <1>10. UNCHANGED stored
    BY <1>1
  <1>11. owed'[c] \subseteq Held \cap KeysOf(jwt'[c])
    BY <1>5
  <1>12. QED
    BY <1>4, <1>6, <1>7, <1>8, <1>9, <1>10, <1>11, OwedElsewhere

\* The end of a resolution that missed: nothing that is owed may be left.
LEMMA NotResolvedOwed ==
  ASSUME IInv, ResolverInv, OwedInv, NEW c \in Call, pc[c] = "auth", NotResolved(c),
         UNCHANGED <<jwt, fallback, stored>>, ~Embeds(c), owed' = [owed EXCEPT ![c] = {}]
  PROVE  OwedInv'
  <1>1. cursor' = [cursor EXCEPT ![c] = 0] /\ TypeOK
    BY DEF NotResolved, IInv
  <1>2. \E k : cred' = [cred EXCEPT ![c] = k]
    BY DEF NotResolved, ResolverInv
  <1>3. \E l \in {"pool", "done"} : pc' = [pc EXCEPT ![c] = l]
    BY DEF NotResolved, Issue, Finish
  <1>4. \E o : outcome' = [outcome EXCEPT ![c] = o]
    BY <1>1 DEF NotResolved, Issue, Finish, TypeOK
  <1>5. \A d \in Call \ {c} : /\ pc'[d] = pc[d] /\ outcome'[d] = outcome[d]
                              /\ cursor'[d] = cursor[d] /\ cred'[d] = cred[d]
    BY <1>1, <1>2, <1>3, <1>4 DEF TypeOK, ResolverInv
  <1>6. cursor'[c] = 0 /\ pc'[c] \in {"pool", "done"}
    BY <1>1, <1>3 DEF TypeOK, ResolverInv
  <1>7. /\ owed'[c] = {} /\ owed' = [d \in Call |-> owed'[d]]
        /\ \A d \in Call \ {c} : owed'[d] = owed[d]
    BY DEF OwedInv
  <1>8. ~Embeds(c)'
    BY DEF Embeds
  <1>9. /\ owed'[c] \subseteq Held \cap KeysOf(jwt'[c])
        /\ ~(cursor'[c] > 0) /\ pc'[c] \notin {"idle", "auth"}
    BY <1>6, <1>7
  <1>10. \A d \in Call \ {c} : jwt'[d] = jwt[d]
    OBVIOUS
  <1>11. QED
    BY <1>5, <1>7, <1>8, <1>9, <1>10, OwedElsewhere

LEMMA ResolvedOwed ==
  ASSUME IInv, ResolverInv, OwedInv, NEW c \in Call, pc[c] = "auth", NEW u \in User,
         Resolved(c, u), UNCHANGED <<jwt, fallback, stored>>
  PROVE  OwedInv'
  <1>1. /\ cursor' = [cursor EXCEPT ![c] = 0] /\ cred' = [cred EXCEPT ![c] = u]
        /\ owed' = [owed EXCEPT ![c] = {}] /\ TypeOK
    BY DEF Resolved, IInv
  <1>2. \E l \in {"pool", "done"} : pc' = [pc EXCEPT ![c] = l]
    BY DEF Resolved, Issue, Finish
  <1>3. outcome' = outcome \/ outcome' = [outcome EXCEPT ![c] = "closed"]
    BY DEF Resolved, Issue, Finish
  <1>4. outcome'[c] # "noauth"
    BY <1>1, <1>3, NoOutcomeYet DEF TypeOK
  <1>5. \A d \in Call \ {c} : /\ pc'[d] = pc[d] /\ outcome'[d] = outcome[d]
                              /\ cursor'[d] = cursor[d] /\ cred'[d] = cred[d]
    BY <1>1, <1>2, <1>3 DEF TypeOK, ResolverInv
  <1>6. cursor'[c] = 0 /\ pc'[c] \in {"pool", "done"} /\ cred'[c] = u
    BY <1>1, <1>2 DEF TypeOK, ResolverInv
  <1>7. u # FallbackCredential
    BY CredentialAssumption
  <1>8. /\ owed'[c] = {} /\ owed' = [d \in Call |-> owed'[d]]
        /\ \A d \in Call \ {c} : owed'[d] = owed[d]
    BY <1>1 DEF OwedInv
  <1>9. QED
    BY <1>4, <1>5, <1>6, <1>7, <1>8, OwedElsewhere

LEMMA BeginOwed ==
  ASSUME IInv, ResolverInv, OwedInv, NEW c \in Call, BeginResolve(c)
  PROVE  OwedInv'
  <1>1. pc[c] = "auth" /\ cursor[c] = 0 /\ UNCHANGED <<jwt, fallback, stored>>
    BY DEF BeginResolve
  <1>2. CASE Embeds(c) /\ Resolved(c, jwt[c].user)
    <2>1. jwt[c].user \in User
      BY <1>2, ClaimsAssumption DEF Embeds, ResolverInv, Jwt
    <2>2. QED
      BY <1>1, <1>2, <2>1, ResolvedOwed
  <1>3. CASE ~Embeds(c) /\ NotResolved(c) /\ owed' = [owed EXCEPT ![c] = {}]
    BY <1>1, <1>3, NotResolvedOwed
  <1>4. CASE ~Embeds(c) /\ cursor' = [cursor EXCEPT ![c] = 1] /\ UNCHANGED <<pc, outcome, cred, owed>>
    <2>1. cursor'[c] = 1 /\ \A d \in Call \ {c} : cursor'[d] = cursor[d]
      BY <1>4 DEF ResolverInv
    <2>2. Read(c)' = {} /\ ~Embeds(c)'
      BY <1>1, <1>4, <2>1 DEF Read, Embeds
    <2>3. cred[c] = NoCredential /\ owed[c] \subseteq Held \cap KeysOf(jwt[c])
      BY <1>1 DEF OwedInv
    <2>4. outcome[c] = "none" /\ NoCredential # FallbackCredential
      BY <1>1, NoOutcomeYet, CredentialAssumption
    <2>5. owed' = [d \in Call |-> owed'[d]]
      BY <1>4 DEF OwedInv
    <2>6. QED
      BY <1>1, <1>4, <2>1, <2>2, <2>3, <2>4, <2>5, OwedElsewhere
  <1>5. QED
    BY <1>2, <1>3, <1>4 DEF BeginResolve

\* What is owed after a lookup that missed: its key is no longer.
LEMMA MissOwed ==
  ASSUME IInv, ResolverInv, OwedInv, NEW c \in Call, pc[c] = "auth", cursor[c] > 0,
         UNCHANGED <<jwt, fallback, stored>>, NextLookup(c),
         owed' = [owed EXCEPT ![c] = owed[c] \ {LookupKeys(jwt[c])[cursor[c]]}]
  PROVE  OwedInv'
  <1> DEFINE key == LookupKeys(jwt[c])[cursor[c]]
  <1>1. /\ jwt[c] \in Claims /\ jwt[c] # NoCredential /\ ~Embeds(c)
        /\ cursor[c] \in 1..Len(LookupKeys(jwt[c])) /\ Len(LookupKeys(jwt[c])) \in Nat
    <2>1. jwt[c] \in Claims /\ jwt[c] # NoCredential
      BY DEF ResolverInv
    <2>2. Len(LookupKeys(jwt[c])) \in Nat
      BY <2>1, KeysTyped
    <2>3. QED
      BY <2>1, <2>2 DEF ResolverInv, OwedInv
  <1>2. /\ owed'[c] = owed[c] \ {key} /\ owed' = [d \in Call |-> owed'[d]]
        /\ \A d \in Call \ {c} : owed'[d] = owed[d]
    BY DEF OwedInv
  <1>3. owed[c] \cap Read(c) = {} /\ owed[c] \subseteq Held \cap KeysOf(jwt[c])
    BY DEF OwedInv
  <1>4. CASE NotResolved(c) /\ cursor[c] = Len(LookupKeys(jwt[c]))
    <2>1. \A k \in owed[c] : k = key
      <3> SUFFICES ASSUME NEW k \in owed[c] PROVE k = key
        OBVIOUS
      <3>1. PICK n \in 1..Len(LookupKeys(jwt[c])) : LookupKeys(jwt[c])[n] = k
        BY <1>1, <1>3, KeysAreLookedUp
      <3>2. n = cursor[c] \/ n \in 1..(cursor[c] - 1)
        BY <1>1, <1>4, <3>1
      <3>3. QED
        BY <1>3, <3>1, <3>2 DEF Read
    <2>2. owed' = [owed EXCEPT ![c] = {}]
      BY <2>1 DEF OwedInv
    <2>3. QED
      BY <1>1, <1>4, <2>2, NotResolvedOwed
  <1>5. CASE cursor' = [cursor EXCEPT ![c] = cursor[c] + 1] /\ UNCHANGED <<pc, outcome, cred>>
    <2>1. cursor'[c] = cursor[c] + 1 /\ \A d \in Call \ {c} : cursor'[d] = cursor[d]
      BY <1>5 DEF ResolverInv
    <2>2. Read(c)' \subseteq Read(c) \cup {key}
      <3>1. cursor'[c] - 1 = cursor[c]
        BY <1>1, <2>1
      <3>2. Read(c)' = {LookupKeys(jwt[c])[i] : i \in 1..cursor[c]}
        BY <3>1 DEF Read
      <3>3. \A i \in 1..cursor[c] : i = cursor[c] \/ i \in 1..(cursor[c] - 1)
        BY <1>1
      <3>4. QED
        BY <3>2, <3>3 DEF Read
    <2>3. cred[c] = NoCredential /\ outcome[c] = "none" /\ NoCredential # FallbackCredential
      BY NoOutcomeYet, CredentialAssumption DEF OwedInv
    <2>4. ~Embeds(c)' /\ owed'[c] \cap Read(c)' = {}
      BY <1>1, <1>2, <1>3, <2>2 DEF Embeds
    <2>5. owed'[c] \subseteq Held \cap KeysOf(jwt'[c])
      BY <1>2, <1>3
    <2>6. QED
      BY <1>2, <1>5, <2>1, <2>3, <2>4, <2>5, OwedElsewhere
  <1>6. QED
    BY <1>4, <1>5 DEF NextLookup

LEMMA LookupOwed ==
  ASSUME IInv, ResolverInv, OwedInv, NEW c \in Call, Lookup(c)
  PROVE  OwedInv'
  <1> DEFINE key == LookupKeys(jwt[c])[cursor[c]]
  <1>1. pc[c] = "auth" /\ cursor[c] > 0 /\ UNCHANGED <<jwt, fallback, stored>>
    BY DEF Lookup
  <1>2. CASE key \in Held /\ Resolved(c, stored[key])
    <2>1. stored[key] \in User
      BY <1>2 DEF Held, ResolverInv, StorageSound
    <2>2. QED
      BY <1>1, <1>2, <2>1, ResolvedOwed
  <1>3. CASE NextLookup(c) /\ key \notin Held /\ UNCHANGED owed
    <2>1. owed[c] \ {key} = owed[c]
      BY <1>3 DEF OwedInv
    <2>2. owed' = [owed EXCEPT ![c] = owed[c] \ {key}]
      BY <1>3, <2>1 DEF OwedInv
    <2>3. QED
      BY <1>1, <1>3, <2>2, MissOwed
  <1>4. CASE NextLookup(c) /\ owed' = [owed EXCEPT ![c] = owed[c] \ {key}]
    BY <1>1, <1>4, MissOwed
  <1>5. QED
    BY <1>2, <1>3, <1>4 DEF Lookup

\* No step of the client ends a call for want of a token.
LEMMA ClientOutcome ==
  ASSUME TypeOK, NEW c \in Call, ClientStep(c) \/ CancelResolving(c)
  PROVE  /\ \A d \in Call \ {c} : outcome'[d] = outcome[d]
         /\ outcome'[c] = outcome[c] \/ outcome'[c] # "noauth"
  <1>1. outcome' = outcome \/ \E o : o # "noauth" /\ outcome' = [outcome EXCEPT ![c] = o]
    <2>1. CASE Send(c)
      BY <2>1 DEF Send
    <2>2. CASE ConnectFailed(c) \/ PoolTimeout(c) \/ ReadFailed(c)
      BY <2>2 DEF ConnectFailed, PoolTimeout, ReadFailed, TransportError, SleepBackoff, Finish
    <2>3. CASE Response(c)
      BY <2>3 DEF Response, SleepBackoff, Finish
    <2>4. CASE Wake(c) \/ Health(c)
      BY <2>4 DEF Wake, Health, Issue, Finish
    <2>5. CASE CancelResolving(c)
      BY <2>5 DEF CancelResolving, Cancel, Finish
    <2>6. QED
      BY <2>1, <2>2, <2>3, <2>4, <2>5 DEF ClientStep
  <1>2. QED
    BY <1>1 DEF TypeOK

LEMMA ClientOwed ==
  ASSUME IInv, ResolverInv, OwedInv, NEW c \in Call, ClientStep(c) \/ CancelResolving(c)
  PROVE  OwedInv'
  <1>1. TypeOK /\ StepsOnly(c) /\ UNCHANGED <<jwt, cred, fallback>>
    BY ClientSteps DEF IInv
  <1>2. pc'[c] \notin {"idle", "auth"}
    BY <1>1 DEF StepsOnly, Past
  <1>3. /\ \A d \in Call \ {c} : outcome'[d] = outcome[d]
        /\ outcome'[c] = outcome[c] \/ outcome'[c] # "noauth"
    BY <1>1, ClientOutcome
  <1>4. CASE CancelResolving(c)
    <2>1. /\ cursor' = [cursor EXCEPT ![c] = 0] /\ owed' = [owed EXCEPT ![c] = {}]
          /\ UNCHANGED stored /\ outcome' = [outcome EXCEPT ![c] = "cancelled"]
      BY <1>4 DEF CancelResolving, Cancel, Finish
    <2>2. /\ owed'[c] = {} /\ owed' = [d \in Call |-> owed'[d]]
          /\ \A d \in Call \ {c} : owed'[d] = owed[d]
      BY <2>1 DEF OwedInv
    <2>3. cursor'[c] = 0 /\ \A d \in Call \ {c} : cursor'[d] = cursor[d]
      BY <2>1 DEF ResolverInv
    <2>4. cred'[c] = FallbackCredential => ~Embeds(c)'
      BY <1>1 DEF OwedInv, NoSpuriousMiss, Embeds
    <2>5. outcome'[c] # "noauth"
      BY <1>1, <2>1 DEF TypeOK
    <2>6. UNCHANGED stored /\ owed'[c] \subseteq Held \cap KeysOf(jwt'[c])
      BY <2>1, <2>2
    <2>7. \A d \in Call \ {c} : pc'[d] = pc[d] /\ jwt'[d] = jwt[d] /\ cred'[d] = cred[d]
      BY <1>1 DEF StepsOnly
    <2>8. QED
      BY <1>2, <1>3, <2>2, <2>3, <2>4, <2>5, <2>6, <2>7, OwedElsewhere
  <1>5. CASE ClientStep(c)
    <2>1. UNCHANGED <<stored, cursor, owed>> /\ pc[c] # "auth"
      BY <1>5 DEF ClientStep, resolver, Send, ConnectFailed, PoolTimeout, ReadFailed, Response,
         Wake, Health
    <2>2. cursor'[c] = 0
      BY <2>1 DEF ResolverInv
    <2>3. cred'[c] = FallbackCredential \/ outcome'[c] = "noauth" => ~Embeds(c)' /\ owed'[c] = {}
      BY <1>1, <1>3, <2>1 DEF OwedInv, NoSpuriousMiss, Embeds
    <2>4. owed' = [d \in Call |-> owed'[d]] /\ owed'[c] \subseteq Held \cap KeysOf(jwt'[c])
      BY <1>1, <2>1 DEF OwedInv
    <2>5. QED
      BY <1>1, <1>2, <1>3, <2>1, <2>2, <2>3, <2>4, OwedElsewhere DEF StepsOnly
  <1>6. QED
    BY <1>4, <1>5

\* A step of the storage: what is owed shrinks with it.
LEMMA StorageOwed ==
  ASSUME OwedInv, UNCHANGED <<pc, outcome, jwt, cursor, cred>>,
         owed' = [c \in Call |-> owed'[c]],
         \A c \in Call : owed'[c] \subseteq owed[c] \cap Held'
  PROVE  OwedInv'
  <1>1. \A c \in Call : (Embeds(c)' <=> Embeds(c)) /\ Read(c)' = Read(c)
    BY DEF Embeds, Read
  <1>2. \A c \in Call : owed'[c] \subseteq Held' \cap KeysOf(jwt'[c])
    BY DEF OwedInv
  <1>3. \A c \in Call : cursor'[c] > 0 => ~Embeds(c)' /\ owed'[c] \cap Read(c)' = {}
    BY <1>1 DEF OwedInv
  <1>4. NoSpuriousMiss'
    BY <1>1 DEF OwedInv, NoSpuriousMiss
  <1>5. QED
    BY <1>2, <1>3, <1>4 DEF OwedInv, KeysOf

LEMMA OwedNext == IInv /\ ResolverInv /\ OwedInv /\ [ONext]_ovars => OwedInv'
  <1> SUFFICES ASSUME IInv, ResolverInv, OwedInv, [ONext]_ovars PROVE OwedInv'
    OBVIOUS
  <1>1. ASSUME NEW c \in Call, NEW m \in Method, NEW j \in Claims \cup {NoCredential},
               RequestAs(c, m, j)
        PROVE  OwedInv'
    BY <1>1, RequestOwed
  <1>2. ASSUME NEW c \in Call, BeginResolve(c) \/ Lookup(c) PROVE OwedInv'
    BY <1>2, BeginOwed, LookupOwed
  <1>3. ASSUME NEW c \in Call, ClientStep(c) \/ CancelResolving(c) PROVE OwedInv'
    BY <1>3, ClientOwed
  <1>4. CASE Upstream
    <2>1. UNCHANGED <<pc, outcome, jwt, stored, cursor, cred, owed>>
      BY <1>4 DEF Upstream, Close, Serve, resolver
    <2>2. QED
      BY <2>1, StorageOwed DEF OwedInv, Held
  <1>5. ASSUME NEW j \in Claims, NEW k \in KeysOf(j), StoreToken(j, k) PROVE OwedInv'
    <2>1. /\ UNCHANGED <<pc, outcome, jwt, cursor, cred, owed>>
          /\ stored' = [stored EXCEPT ![k] = j.user]
      BY <1>5 DEF StoreToken, vars
    <2>2. j.user # NoCredential
      BY StoredFor, CredentialAssumption
    <2>3. Held \subseteq Held'
      BY <2>1, <2>2 DEF Held, ResolverInv, StorageSound
    <2>4. QED
      BY <2>1, <2>3, StorageOwed DEF OwedInv
  <1>6. ASSUME NEW k \in Key, EvictToken(k) PROVE OwedInv'
    <2>1. /\ UNCHANGED <<pc, outcome, jwt, cursor, cred>>
          /\ stored' = [stored EXCEPT ![k] = NoCredential]
          /\ owed' = [c \in Call |-> owed[c] \ {k}]
      BY <1>6 DEF EvictToken, vars
    <2>2. Held' = Held \ {k}
      BY <2>1 DEF Held, ResolverInv, StorageSound
    <2>3. \A c \in Call : owed'[c] \subseteq owed[c] \cap Held'
      BY <2>1, <2>2 DEF OwedInv
    <2>4. owed' = [c \in Call |-> owed'[c]]
      BY <2>1
    <2>5. QED
      BY <2>1, <2>3, <2>4, StorageOwed
  <1>7. CASE UNCHANGED ovars
    <2>1. UNCHANGED <<pc, outcome, jwt, stored, cursor, cred, owed>>
      BY <1>7 DEF ovars, vars
    <2>2. QED
      BY <2>1, StorageOwed DEF OwedInv, Held
  <1>8. QED
    BY <1>1, <1>2, <1>3, <1>4, <1>5, <1>6, <1>7 DEF ONext

\* However its lookups interleave with the storage, a caller is failed or given the
\* shared fallback only if none of its keys held a token throughout (obo.py:86-111).
THEOREM MissHasACause == OSpec => []NoSpuriousMiss
  <1>1. OSpec => []IInv
    BY ClientImplemented, InvariantHolds, PTL DEF ImplementsClient
  <1>2. OSpec => []ResolverInv
    BY <1>1, ResolverInit, ResolverNext, PTL DEF OSpec
  <1>3. OwedInv => NoSpuriousMiss
    BY DEF OwedInv
  <1>4. QED
    BY <1>1, <1>2, <1>3, OwedInit, OwedNext, PTL DEF OSpec

-----------------------------------------------------------------------------
(* Type correctness.                                                       *)

\* The types that the other invariants leave open.
Types ==
  /\ fallback \in BOOLEAN
  /\ cred \in [Call -> User \cup {NoCredential, FallbackCredential}]

LEMMA CursorBound ==
  ASSUME NEW j \in Claims
  PROVE  Len(LookupKeys(j)) <= 2 * Len(Prefixes)
  <1>1. Len(Prefixes) \in Nat
    BY PrefixAssumption
  <1>2. \A id \in {j.jti, j.sub} : Len(KeysFor(id)) \in {0, Len(Prefixes)}
    BY KeysForTyped
  <1>3. QED
    BY <1>1, <1>2, KeysTyped

LEMMA TypesInit == OInit => Types
  BY DEF OInit, Types

LEMMA TypesNext == ResolverInv /\ Types /\ [ONext]_ovars => Types'
  <1> SUFFICES ASSUME ResolverInv, Types, [ONext]_ovars PROVE Types'
    OBVIOUS
  <1>1. ASSUME NEW c \in Call, NEW u \in User, Resolved(c, u), UNCHANGED fallback
        PROVE  Types'
    BY <1>1 DEF Resolved, Types
  <1>2. ASSUME NEW c \in Call, NotResolved(c), UNCHANGED fallback PROVE Types'
    BY <1>2 DEF NotResolved, Types
  <1>3. ASSUME NEW c \in Call, BeginResolve(c) PROVE Types'
    <2>1. Embeds(c) => jwt[c].user \in User
      BY ClaimsAssumption DEF Embeds, ResolverInv, Jwt
    <2>2. QED
      BY <1>1, <1>2, <1>3, <2>1 DEF BeginResolve, Types
  <1>4. ASSUME NEW c \in Call, Lookup(c) PROVE Types'
    <2>1. \A k \in Held : stored[k] \in User
      BY DEF Held, ResolverInv, StorageSound
    <2>2. QED
      BY <1>1, <1>2, <1>4, <2>1 DEF Lookup, NextLookup, Types
  <1>5. CASE \E c \in Call : \/ ClientStep(c) \/ CancelResolving(c)
                             \/ \E m \in Method, j \in Claims \cup {NoCredential} : RequestAs(c, m, j)
    BY <1>5 DEF ClientStep, CancelResolving, RequestAs, resolver, Types
  <1>6. CASE Upstream \/ UNCHANGED ovars
    BY <1>6 DEF Upstream, resolver, ovars, Types
  <1>7. ASSUME NEW j, NEW k, StoreToken(j, k) \/ EvictToken(k) PROVE Types'
    BY <1>7 DEF StoreToken, EvictToken, Types
  <1>8. QED
    BY <1>3, <1>4, <1>5, <1>6, <1>7 DEF ONext

\* Every variable of the composition of client, resolver and storage stays in its type.
THEOREM OnBehalfTypeCorrect == OSpec => []OTypeOK
  <1>1. OSpec => []IInv
    BY ClientImplemented, InvariantHolds, PTL DEF ImplementsClient
  <1>2. OSpec => []ResolverInv
    BY <1>1, ResolverInit, ResolverNext, PTL DEF OSpec
  <1>3. OSpec => []OwedInv
    BY <1>1, <1>2, OwedInit, OwedNext, PTL DEF OSpec
  <1>4. OSpec => []Types
    BY <1>2, TypesInit, TypesNext, PTL DEF OSpec
  <1>5. IInv /\ ResolverInv /\ OwedInv /\ Types => OTypeOK
    <2> SUFFICES ASSUME IInv, ResolverInv, OwedInv, Types PROVE OTypeOK
      OBVIOUS
    <2>1. ASSUME NEW c \in Call PROVE cursor[c] \in 0..(2 * Len(Prefixes))
      <3>1. cursor[c] \in Nat /\ Len(Prefixes) \in Nat
        BY PrefixAssumption DEF ResolverInv
      <3>2. CASE cursor[c] > 0
        <4>1. /\ jwt[c] \in Claims /\ cursor[c] \in 1..Len(LookupKeys(jwt[c]))
          BY <3>2 DEF ResolverInv
        <4>2. Len(LookupKeys(jwt[c])) \in Nat
          BY <4>1, KeysTyped
        <4>3. QED
          BY <3>1, <4>1, <4>2, CursorBound
      <3>3. QED
        BY <3>1, <3>2
    <2>2. cursor \in [Call -> 0..(2 * Len(Prefixes))]
      BY <2>1 DEF ResolverInv
    <2>3. \A c \in Call : owed[c] \in SUBSET Key
      BY DEF OwedInv, Held
    <2>4. owed \in [Call -> SUBSET Key]
      BY <2>3 DEF OwedInv
    <2>5. stored \in [Key -> User \cup {NoCredential}]
      BY DEF ResolverInv, StorageSound
    <2>6. QED
      BY <2>2, <2>4, <2>5 DEF OTypeOK, IInv, ResolverInv, Types
  <1>6. QED
    BY <1>1, <1>2, <1>3, <1>4, <1>5, PTL
=============================================================================
