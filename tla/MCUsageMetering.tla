--------------------------- MODULE MCUsageMetering ---------------------------
(***************************************************************************)
(* Three requests, one of which Stripe never accepts, with one free.  The  *)
(* fault is left for the retry loop that can report at all.                *)
(***************************************************************************)
EXTENDS UsageMetering, TLC

CONSTANTS c1, c2, c3, p1, p2

Calls == {c1, c2, c3}
Passes == {p1, p2}

MeteringInit == Init /\ (rawDates <=> faults = 0)
MeteringSpec == MeteringInit /\ [][Next]_vars /\ Fairness
=============================================================================
