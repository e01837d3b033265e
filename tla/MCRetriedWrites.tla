--------------------------- MODULE MCRetriedWrites ---------------------------
(* Two concurrent calls that write one resource over one connection.         *)
EXTENDS RetriedWrites, TLC

MCMethod == {"PUT", "DELETE", "POST"}
MCStatus == {200, 404, 503}
MCRetryAfter == {[form |-> "absent", n |-> 0], [form |-> "seconds", n |-> 60],
                 [form |-> "seconds", n |-> -5], [form |-> "date", n |-> -5]}
CallSymmetry == Permutations(Call)
=============================================================================
