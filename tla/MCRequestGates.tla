---------------------------- MODULE MCRequestGates ----------------------------
(* Two requests of two users or two hosts, one of which may arrive with an      *)
(* address of the other in its header; no proxy or two, and fewer, as many or   *)
(* more trusted hops; a bucket of one token and one tick of refill.             *)
EXTENDS RequestGates, TLC

CONSTANTS u1, u2, t1, t2, admin, guest, a1, a2, p1, p2

MCClaims ==
  {[sub |-> u1, tid |-> t1, roles |-> {admin}],
   [sub |-> u1, tid |-> t2, roles |-> NoClaim],
   [sub |-> u2, tid |-> t1, roles |-> {}],
   [sub |-> NoClaim, tid |-> NoClaim, roles |-> {guest}]}

Open == [stdio |-> FALSE, auth |-> "none", limiter |-> TRUE, global |-> FALSE, hops |-> 2,
         proxies |-> <<p1, p2>>, tenants |-> {}, gate |-> FALSE, roles |-> {}, audit |-> FALSE]
MultiTenant ==
  [Open EXCEPT !.auth = "entra-multi", !.tenants = {t1}, !.gate = TRUE, !.roles = {admin}]

MCSettings ==
  {Open,
   [Open EXCEPT !.hops = 0],
   [Open EXCEPT !.hops = 1],
   [Open EXCEPT !.hops = 3],
   [Open EXCEPT !.hops = 4],
   [Open EXCEPT !.hops = 0, !.proxies = <<>>],
   [Open EXCEPT !.hops = 1, !.proxies = <<>>],
   [Open EXCEPT !.stdio = TRUE],
   [Open EXCEPT !.auth = "oidc", !.global = TRUE],
   [Open EXCEPT !.auth = "oidc", !.hops = 1, !.proxies = <<>>],
   MultiTenant,
   [MultiTenant EXCEPT !.audit = TRUE, !.limiter = FALSE],
   [MultiTenant EXCEPT !.auth = "oidc"]}

MCHeader == {<<>>, <<a2>>}
RequestSymmetry == Permutations(Request)
=============================================================================
