---------------------------- MODULE RetriedWrites ----------------------------
(***************************************************************************)
(* UpstreamClient over an upstream that keeps one shared resource: a PUT   *)
(* stores the call's own representation, a DELETE removes it, a POST adds  *)
(* a new item each time it is carried out, a GET changes nothing.  The     *)
(* resource makes visible what a retried write does beside other writers.  *)
(***************************************************************************)
EXTENDS UpstreamClient

CONSTANT Absent   \* the content once deleted; not a call

ASSUME AbsentAssumption == Absent \notin Call

VARIABLES
  content,   \* the call whose PUT is stored, or Absent
  effects    \* of each call: how many times it changed the upstream's state

wvars == <<vars, content, effects>>

ContentAfter(c) ==
  CASE method[c] = "PUT" -> c
    [] method[c] = "DELETE" -> Absent
    [] OTHER -> content

Creates(c) == method[c] \in {"POST", "PATCH"}

WInit ==
  /\ Init
  /\ content = Absent
  /\ effects = [c \in Call |-> 0]

\* Carrying out an attempt is the only step that touches the resource.
WServe(m, s, performs) ==
  /\ Serve(m, s, performs)
  /\ IF performs
       THEN /\ content' = ContentAfter(m.call)
            /\ effects' = [effects EXCEPT ![m.call] =
                 IF Creates(m.call) \/ content' # content THEN @ + 1 ELSE @]
       ELSE UNCHANGED <<content, effects>>

WNext ==
  \/ /\ \/ \E c \in Call : Progress(c) \/ Environment(c)
        \/ Close
     /\ UNCHANGED <<content, effects>>
  \/ \E m \in wire, s \in Status, performs \in BOOLEAN : WServe(m, s, performs)

WSpec == WInit /\ [][WNext]_wvars

WFairSpec == WSpec /\ \A c \in Call : WF_vars(Progress(c))

-----------------------------------------------------------------------------
(* Properties.                                                             *)

\* "re-issuing them cannot cause a duplicate side effect" (retry.py:21-23, of the methods
\* that are retried on a status) holds of a lone writer only: a call changes the upstream's
\* state twice only if another call changed it too (retry.py:21-24, client.py:84-98).
DuplicateNeedsInterference ==
  \A c \in Call : effects[c] > 1 => \E d \in Call \ {c} : effects[d] > 0
=============================================================================
