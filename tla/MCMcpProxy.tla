------------------------------ MODULE MCMcpProxy ------------------------------
(***************************************************************************)
(* An admin and a member, two clients, two tokens, and two requests of any *)
(* kind at a time, again and again.                                        *)
(***************************************************************************)
EXTENDS McpProxy, TLC

CONSTANTS admin, member, c1, c2, t1, t2, r1, r2
Users == {admin, member}
Admins == {admin}
Clients == {c1, c2}
Tokens == {t1, t2}
Requests == {r1, r2}

Symmetry == Permutations(Clients) \cup Permutations(Tokens) \cup Permutations(Requests)
=============================================================================
