------------------------------ MODULE LeaseLock ------------------------------
(***************************************************************************)
(* What the ingest lock promises to the rest of the system: at any moment  *)
(* the workspace belongs to one worker or to nobody, and it only passes    *)
(* from one worker to another through "nobody".  How the promise is kept   *)
(* (a timestamp column, compare-and-set updates, a database clock) is the  *)
(* business of IngestLock, which implements this specification.            *)
(***************************************************************************)

CONSTANTS Worker,   \* the runs of an ingest cycle that compete for a workspace
          Nobody    \* the owner of a workspace whose lock is free or expired

VARIABLE owner

TypeOK == owner \in Worker \cup {Nobody}

Init == owner = Nobody

Take(w) == owner = Nobody /\ owner' = w

\* The owner gives the lock back, or loses it because its time ran out.
GiveUp == owner # Nobody /\ owner' = Nobody

Next == GiveUp \/ \E w \in Worker : Take(w)

Spec == Init /\ [][Next]_owner
=============================================================================
