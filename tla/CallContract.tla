---------------------------- MODULE CallContract ----------------------------
(***************************************************************************)
(* What a caller of the HTTP client may rely on, with no retry loop, no    *)
(* network and no clock: the upstream performs attempts of a call, the     *)
(* call ends with one result, and the result tells the caller what the     *)
(* upstream did and may still do.  UpstreamClient implements this module.  *)
(***************************************************************************)
EXTENDS Naturals

CONSTANTS
  Call,     \* the calls made through one client
  Attempt   \* what tells two attempts of one call apart

VARIABLES
  kind,       \* of each call: "unset", "once" or "repeatable"
  performed,  \* of each call: the attempts that the upstream carried out
  result      \* of each call: "none" until it ends

cvars == <<kind, performed, result>>

Kind == {"once", "repeatable"}

\* Results under which a "once" call was not performed and never will be:
\* its caller may safely issue it again.
NotPerformed == {"noauth", "closed", "unreached"}

\* Results after which the upstream may still perform a "once" call: the caller
\* cannot know.
Unknown == {"none", "broken", "cancelled"}

Result == NotPerformed \cup Unknown \cup {"accepted", "answered"}

Init ==
  /\ kind = [c \in Call |-> "unset"]
  /\ performed = [c \in Call |-> {}]
  /\ result = [c \in Call |-> "none"]

\* A call begins; it may be refused in the same step.
Invoke(c, k, r) ==
  /\ kind[c] = "unset"
  /\ kind' = [kind EXCEPT ![c] = k]
  /\ result' = [result EXCEPT ![c] = r]
  /\ UNCHANGED performed

\* A repeatable call is performed at most once per attempt, also after the call
\* has ended; a once call is performed once, and not after a definite result.
Perform(c, n) ==
  /\ kind[c] \in Kind
  /\ n \notin performed[c]
  /\ result[c] # "noauth"
  /\ kind[c] = "once" => performed[c] = {} /\ result[c] \in Unknown
  /\ performed' = [performed EXCEPT ![c] = @ \cup {n}]
  /\ UNCHANGED <<kind, result>>

End(c, r) ==
  /\ kind[c] \in Kind
  /\ result[c] = "none"
  /\ r = "accepted" => performed[c] # {}
  /\ kind[c] = "once" /\ r \in NotPerformed => performed[c] = {}
  /\ result' = [result EXCEPT ![c] = r]
  /\ UNCHANGED <<kind, performed>>

Next ==
  \E c \in Call :
    \/ \E k \in Kind, r \in {"none"} \cup NotPerformed : Invoke(c, k, r)
    \/ \E n \in Attempt : Perform(c, n)
    \/ \E r \in Result \ {"none"} : End(c, r)

Spec == Init /\ [][Next]_cvars
=============================================================================
