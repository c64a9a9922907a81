----------------------------- MODULE IngestLock -----------------------------
(***************************************************************************)
(* The per-workspace ingest lock of apps/api/src/ingest/locks.ts, and the  *)
(* heartbeat loop of runWorkspaceCycle that keeps it.                      *)
(*                                                                         *)
(* The lock is one column, workspaces.ingest_lock_until: NULL, or the      *)
(* instant until which it is held.  That instant is also the token: every  *)
(* later statement of the worker names the value it expects to find        *)
(* (compare-and-set), and a heartbeat replaces the value.  A heartbeat is  *)
(* two steps, the UPDATE in the database and the assignment of its result  *)
(* to expectedLease in the worker, and anything may happen in between.     *)
(*                                                                         *)
(* Leases are distinct instants (milliseconds, granted at least one        *)
(* heartbeat interval before they are replaced); no worker's heartbeat is  *)
(* modelled after its lease was given up.                                  *)
(***************************************************************************)
EXTENDS Naturals

CONSTANTS Worker,         \* runs of an ingest cycle (one workspace)
          NoLease,        \* SQL NULL in the column, null in the worker
          AcquireTTL,     \* ACQUIRE_TTL_MIN
          HeartbeatTTL,   \* HEARTBEAT_TTL_MIN
          MaxLease,       \* bound: no lease is granted or extended beyond it
          MaxTime         \* bound on the clock

ASSUME NoLeaseIsNull == NoLease \notin Nat /\ NoLease \notin Worker
ASSUME TTLsArePositive == AcquireTTL \in Nat \ {0} /\ HeartbeatTTL \in Nat \ {0}
ASSUME BoundsAreNumbers == MaxLease \in Nat /\ MaxTime \in Nat

VARIABLES now,           \* the database clock, now()
          lockUntil,     \* workspaces.ingest_lock_until
          lastCycleAt,   \* workspaces.ingest_last_cycle_at
          lease,         \* lease[w]: expectedLease of worker w
          beat           \* beat[w]: value an unreturned heartbeat of w wrote

lockVars == <<now, lockUntil, lastCycleAt, lease, beat>>

Instant == Nat \cup {NoLease}

LockTypeOK ==
  /\ now \in Nat
  /\ lockUntil \in Instant
  /\ lastCycleAt \in Instant
  /\ lease \in [Worker -> Instant]
  /\ beat \in [Worker -> Instant]

LockInit ==
  /\ now = 1
  /\ lockUntil = NoLease
  /\ lastCycleAt = NoLease
  /\ lease = [w \in Worker |-> NoLease]
  /\ beat = [w \in Worker |-> NoLease]

-----------------------------------------------------------------------------
\* State functions.

ExpiredTooEarly(t) == t # NoLease /\ t <= now        \* mutant: <= for <
Expired(t) == t # NoLease /\ t < now

LockIsFree == lockUntil = NoLease \/ Expired(lockUntil)

Later(s, t) == IF s > t THEN s ELSE t

\* The compare-and-set of every statement after the first: the row still
\* holds the value the worker expects.
Matches(w) == lease[w] # NoLease /\ lockUntil = lease[w]

\* The last value worker w put into the column and has not given up.
Token(w) == IF beat[w] # NoLease THEN beat[w] ELSE lease[w]

Holds(w) == Token(w) # NoLease /\ lockUntil = Token(w)

-----------------------------------------------------------------------------
\* Steps.

Tick ==
  /\ now < MaxTime
  /\ now' = now + 1
  /\ UNCHANGED <<lockUntil, lastCycleAt, lease, beat>>

AcquireWithoutTest(w) ==     \* mutant: the WHERE clause on the lock is lost
  /\ lease[w] = NoLease
  /\ now + AcquireTTL <= MaxLease
  /\ lockUntil' = now + AcquireTTL
  /\ lease' = [lease EXCEPT ![w] = now + AcquireTTL]
  /\ UNCHANGED <<now, lastCycleAt, beat>>

AcquireWorkspaceLock(w) ==
  /\ lease[w] = NoLease
  /\ LockIsFree
  /\ now + AcquireTTL <= MaxLease
  /\ lockUntil' = now + AcquireTTL
  /\ lease' = [lease EXCEPT ![w] = now + AcquireTTL]
  /\ UNCHANGED <<now, lastCycleAt, beat>>

\* The UPDATE of a heartbeat that finds its lease in the row.
HeartbeatWrite(w) ==
  /\ beat[w] = NoLease
  /\ Matches(w)
  /\ Later(now, lease[w]) + HeartbeatTTL <= MaxLease
  /\ lockUntil' = Later(now, lease[w]) + HeartbeatTTL
  /\ beat' = [beat EXCEPT ![w] = Later(now, lease[w]) + HeartbeatTTL]
  /\ UNCHANGED <<now, lastCycleAt, lease>>

\* expectedLease = newLease, once the UPDATE's answer is back.
HeartbeatReturn(w) ==
  /\ beat[w] # NoLease
  /\ lease' = [lease EXCEPT ![w] = beat[w]]
  /\ beat' = [beat EXCEPT ![w] = NoLease]
  /\ UNCHANGED <<now, lockUntil, lastCycleAt>>

\* The worker is done with its lease.
Drop(w) ==
  /\ lease' = [lease EXCEPT ![w] = NoLease]
  /\ beat' = [beat EXCEPT ![w] = NoLease]

\* Both releases, matched or not, are the last thing a worker does with
\* its lease.
ReleaseLockOnSuccess(w) ==
  /\ lease[w] # NoLease
  /\ IF Matches(w) THEN lockUntil' = NoLease /\ lastCycleAt' = now
                   ELSE UNCHANGED <<lockUntil, lastCycleAt>>
  /\ Drop(w)
  /\ UNCHANGED now

ReleaseLockWithoutAdvancing(w) ==
  /\ lease[w] # NoLease
  /\ lockUntil' = IF Matches(w) THEN NoLease ELSE lockUntil
  /\ Drop(w)
  /\ UNCHANGED <<now, lastCycleAt>>

\* The worker stops without a release: the process dies, an error propagates,
\* or the cycle believes that the lock is lost.
Abandon(w) ==
  /\ lease[w] # NoLease
  /\ Drop(w)
  /\ UNCHANGED <<now, lockUntil, lastCycleAt>>

ReclaimExpiredLocks ==
  /\ Expired(lockUntil)
  /\ lockUntil' = NoLease
  /\ UNCHANGED <<now, lastCycleAt, lease, beat>>

LockNext ==
  \/ Tick
  \/ ReclaimExpiredLocks
  \/ \E w \in Worker :
       \/ AcquireWorkspaceLock(w)
       \/ HeartbeatWrite(w)
       \/ HeartbeatReturn(w)
       \/ ReleaseLockOnSuccess(w)
       \/ ReleaseLockWithoutAdvancing(w)
       \/ Abandon(w)

LockSpec == LockInit /\ [][LockNext]_lockVars

-----------------------------------------------------------------------------
\* Properties.

\* At most one worker's own token is in the row: two workers can never both
\* pass the compare-and-set of heartbeatLock, commitIfStillOwned or a release.
MutualExclusion == \A v, w \in Worker : Holds(v) /\ Holds(w) => v = w

\* The lease as the worker may rely on it without asking the database: until
\* the instant it was promised, nobody else can have taken the workspace.
LeaseGuarantee ==
  \A w \in Worker : Token(w) # NoLease /\ Token(w) >= now => lockUntil = Token(w)

-----------------------------------------------------------------------------
\* The abstract lock this one implements: the owner is the worker whose token
\* is in the row, as long as it has not expired.
Owner ==
  IF ~LockIsFree /\ \E w \in Worker : Holds(w)
    THEN CHOOSE w \in Worker : Holds(w)
    ELSE NoLease

Abstract == INSTANCE LeaseLock WITH Nobody <- NoLease, owner <- Owner

ImplementsLeaseLock == Abstract!Spec
=============================================================================
