---------------------------- MODULE MCOnBehalfOf ----------------------------
(* Two concurrent requests of two users: u1's carry a jti and a sub, neither, *)
(* or the token itself; u2's carry a sub that under a prefix is the key of    *)
(* u1's jti without one.                                                      *)
EXTENDS OnBehalfOf, TLC

CONSTANTS c1, c2, u1, u2, x, y

MCUser == {u1, u2}
MCPart == {x, y}
MCPrefixes == <<<<x>>, <<>>>>
MCId == {<<y>>, <<x, y>>, <<x, x, y>>}
MCJwt(u, e, j, s) == [user |-> u, embeds |-> e, jti |-> j, sub |-> s]
MCClaims ==
  {MCJwt(u1, TRUE, <<x, y>>, <<x, x, y>>), MCJwt(u1, FALSE, <<x, y>>, <<x, x, y>>),
   MCJwt(u1, FALSE, NoId, NoId), MCJwt(u2, FALSE, NoId, <<y>>)}
MCMethod == {"GET"}
MCStatus == {200}
MCRetryAfter == {[form |-> "absent", n |-> 0]}
MCSymmetry == Permutations({c1, c2})
=============================================================================
