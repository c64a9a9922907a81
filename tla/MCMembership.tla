---------------------------- MODULE MCMembership ----------------------------
(* The owner and one other user; the ids of invites and the requests are   *)
(* interchangeable.                                                        *)
EXTENDS Membership, TLC

CONSTANTS o, g, i1, i2, r1, r2, r3

Users == {o, g}
Invites == {i1, i2}
Requests == {r1, r2, r3}
Sym == Permutations(Invites) \cup Permutations(Requests)
=============================================================================
