------------------------------ MODULE MCRepoSync ------------------------------
(***************************************************************************)
(* At most two connections of a private repository in a workspace that     *)
(* pulls periodically.  Either two requests meet, next to one push; or     *)
(* there are two failures, one request and one push; or two pushes, whose  *)
(* webhooks may swap, and a failure.                                       *)
(***************************************************************************)
EXTENDS RepoSync, TLC

CONSTANTS r1, r2
Reqs == {r1, r2}

New(r) == req[r] = NoRequest
FewAtOnce ==
  /\ RepoInit
  /\ New(r2) => New(r1)
  /\ head = IF New(r1) THEN MaxCommit - 1 ELSE MaxCommit - 2
  /\ failures = CASE New(r2) -> MaxFailures [] ~New(r1) -> MaxFailures - 1 [] OTHER -> 0
BoundedRepoSpec == FewAtOnce /\ [][RepoNext]_repoVars /\ RepoFairness
=============================================================================
