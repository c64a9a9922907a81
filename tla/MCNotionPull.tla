----------------------------- MODULE MCNotionPull -----------------------------
(***************************************************************************)
(* Three pages and cycles of two: a full import takes two cycles, and any  *)
(* page can be edited before, between and after them.                      *)
(***************************************************************************)
EXTENDS NotionPull, TLC

CONSTANTS p1, p2, p3
Pages == {p1, p2, p3}

\* All three pages are there when the connection is made.
PullInit == Init /\ version = [p \in Pages |-> 1]
PullSpec == PullInit /\ [][Next]_vars /\ Fairness
=============================================================================
