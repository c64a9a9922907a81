------------------------- MODULE IngestCycle_proofs -------------------------
(***************************************************************************)
(* Proofs about the ingest lock, for every set of workers, every pair of   *)
(* TTLs and every bound, and about the ingest cycle, which follows it, for *)
(* every set of connections and every kind of connection; and, at the end, *)
(* about the scheduler that starts the cycles, for any number of           *)
(* workspaces and any cap.                                                 *)
(***************************************************************************)
EXTENDS IngestCycle, IngestScheduler, FiniteSetTheorems, TLAPS

-----------------------------------------------------------------------------
\* Every step of the lock protocol keeps the types.
LEMMA LockTypeStep == LockTypeOK /\ [LockNext]_lockVars => LockTypeOK'
<1> SUFFICES ASSUME LockTypeOK, [LockNext]_lockVars PROVE LockTypeOK'
  OBVIOUS
<1> USE NoLeaseIsNull, TTLsArePositive, BoundsAreNumbers DEF LockTypeOK, Instant
<1>1. CASE Tick
  BY <1>1 DEF Tick
<1>2. CASE ReclaimExpiredLocks
  BY <1>2 DEF ReclaimExpiredLocks
<1>3. ASSUME NEW w \in Worker, AcquireWorkspaceLock(w) PROVE LockTypeOK'
  BY <1>3 DEF AcquireWorkspaceLock
<1>4. ASSUME NEW w \in Worker, HeartbeatWrite(w) PROVE LockTypeOK'
  BY <1>4 DEF HeartbeatWrite, Matches, Later
<1>5. ASSUME NEW w \in Worker, HeartbeatReturn(w) PROVE LockTypeOK'
  BY <1>5 DEF HeartbeatReturn
<1>6. ASSUME NEW w \in Worker, ReleaseLockOnSuccess(w) PROVE LockTypeOK'
  BY <1>6 DEF ReleaseLockOnSuccess, Drop
<1>7. ASSUME NEW w \in Worker, ReleaseLockWithoutAdvancing(w) PROVE LockTypeOK'
  BY <1>7 DEF ReleaseLockWithoutAdvancing, Drop
<1>8. ASSUME NEW w \in Worker, Abandon(w) PROVE LockTypeOK'
  BY <1>8 DEF Abandon, Drop
<1>9. CASE UNCHANGED lockVars
  BY <1>9 DEF lockVars
<1> QED
  BY <1>1, <1>2, <1>3, <1>4, <1>5, <1>6, <1>7, <1>8, <1>9 DEF LockNext

\* Type correctness: the column, the stamp and every worker's copies of its
\* lease are instants or null after every step of the lock protocol.
THEOREM TypeCorrect == LockSpec => []LockTypeOK
<1>1. LockInit => LockTypeOK
  BY DEF LockInit, LockTypeOK, Instant
<1> QED
  BY <1>1, LockTypeStep, PTL DEF LockSpec

-----------------------------------------------------------------------------
\* The inductive invariant.  MutualExclusion alone is not inductive: a worker
\* that lost the lock still carries a token, and only the clock keeps that
\* token apart from the ones granted later.
PastOrPresent ==
  \A w \in Worker : Token(w) # NoLease => Holds(w) \/ Token(w) < now

\* A heartbeat that is not back yet has promised more than the lease it renews.
BeatIsRenewal ==
  \A w \in Worker : beat[w] # NoLease => lease[w] # NoLease /\ lease[w] < beat[w]

IInv == LockTypeOK /\ PastOrPresent /\ BeatIsRenewal /\ MutualExclusion

USE NoLeaseIsNull, TTLsArePositive, BoundsAreNumbers

LEMMA InitIInv == LockInit => IInv
  BY DEF LockInit, IInv, LockTypeOK, Instant, PastOrPresent, BeatIsRenewal,
         MutualExclusion, Holds, Token

\* An acquired lease is later than every token any other worker still carries.
LEMMA AcquireKeepsIInv ==
  ASSUME LockTypeOK, PastOrPresent, BeatIsRenewal, MutualExclusion,
         NEW w \in Worker, AcquireWorkspaceLock(w)
  PROVE  (PastOrPresent /\ BeatIsRenewal /\ MutualExclusion)'
<1> USE DEF LockTypeOK, Instant
<1>1. beat[w] = NoLease
  BY DEF BeatIsRenewal, AcquireWorkspaceLock
<1>2. \A v \in Worker : Token(v) # NoLease => Token(v) < now
  BY DEF PastOrPresent, AcquireWorkspaceLock, LockIsFree, Expired, Holds, Token
<1>3. /\ Token(w)' = now + AcquireTTL
      /\ \A v \in Worker \ {w} : Token(v)' = Token(v)
  BY <1>1 DEF AcquireWorkspaceLock, Token
<1>4. PastOrPresent'
  BY <1>2, <1>3 DEF PastOrPresent, Holds, AcquireWorkspaceLock, Token
<1>5. BeatIsRenewal'
  BY <1>1 DEF BeatIsRenewal, AcquireWorkspaceLock
<1>6. MutualExclusion'
  <2>1. \A v \in Worker \ {w} : ~Holds(v)'
    BY <1>2, <1>3 DEF Holds, AcquireWorkspaceLock, Token
  <2> QED
    BY <2>1 DEF MutualExclusion
<1> QED
  BY <1>4, <1>5, <1>6

\* A heartbeat that finds its lease moves the row and its own token together.
LEMMA HeartbeatKeepsIInv ==
  ASSUME LockTypeOK, PastOrPresent, BeatIsRenewal, MutualExclusion,
         NEW w \in Worker, HeartbeatWrite(w)
  PROVE  (PastOrPresent /\ BeatIsRenewal /\ MutualExclusion)'
<1> USE DEF LockTypeOK, Instant
<1> DEFINE new == Later(now, lease[w]) + HeartbeatTTL
<1>1. /\ lease[w] \in Nat /\ beat[w] = NoLease /\ lockUntil = lease[w]
      /\ new \in Nat /\ new > now /\ new > lease[w]
  BY DEF HeartbeatWrite, Matches, Later
<1>2. Holds(w)
  BY <1>1 DEF Holds, Token
<1>3. \A v \in Worker \ {w} : Token(v) # NoLease => Token(v) < now
  BY <1>2 DEF PastOrPresent, MutualExclusion
<1>4. /\ lockUntil' = new /\ beat'[w] = new /\ lease' = lease /\ now' = now
      /\ Token(w)' = new
      /\ \A v \in Worker \ {w} : Token(v)' = Token(v) /\ beat'[v] = beat[v]
  BY <1>1 DEF HeartbeatWrite, Token
<1> HIDE DEF new
<1>5. \A v \in Worker \ {w} : ~Holds(v)'
  BY <1>1, <1>3, <1>4 DEF Holds, Token
<1>6. PastOrPresent'
  BY <1>1, <1>3, <1>4 DEF PastOrPresent, Holds
<1>7. BeatIsRenewal'
  BY <1>1, <1>4 DEF BeatIsRenewal
<1>8. MutualExclusion'
  BY <1>5 DEF MutualExclusion
<1> QED
  BY <1>6, <1>7, <1>8

\* The answer of a heartbeat changes what the worker knows, not its token.
LEMMA ReturnKeepsIInv ==
  ASSUME LockTypeOK, PastOrPresent, BeatIsRenewal, MutualExclusion,
         NEW w \in Worker, HeartbeatReturn(w)
  PROVE  (PastOrPresent /\ BeatIsRenewal /\ MutualExclusion)'
<1> USE DEF LockTypeOK, Instant
<1>1. \A v \in Worker : Token(v)' = Token(v)
  BY DEF HeartbeatReturn, Token
<1>2. \A v \in Worker : Holds(v)' <=> Holds(v)
  BY <1>1 DEF HeartbeatReturn, Holds
<1> QED
  BY <1>1, <1>2 DEF PastOrPresent, BeatIsRenewal, MutualExclusion, HeartbeatReturn

\* A worker that gives its lease up, whether the row is freed or not, carries
\* no token any more; the row is unchanged or NULL.
LEMMA DropKeepsIInv ==
  ASSUME LockTypeOK, PastOrPresent, BeatIsRenewal, MutualExclusion,
         NEW w \in Worker, Drop(w), now' = now,
         \/ lockUntil' = lockUntil
         \/ Matches(w) /\ lockUntil' = NoLease
  PROVE  (PastOrPresent /\ BeatIsRenewal /\ MutualExclusion)'
<1> USE DEF LockTypeOK, Instant
<1>1. /\ Token(w)' = NoLease
      /\ \A v \in Worker \ {w} : Token(v)' = Token(v)
  BY DEF Drop, Token
<1>2. \A v \in Worker \ {w} : Token(v) # NoLease /\ ~(Token(v) < now) => Holds(v)'
  <2> SUFFICES ASSUME NEW v \in Worker \ {w}, Token(v) # NoLease, ~(Token(v) < now)
               PROVE  Holds(v)'
    OBVIOUS
  <2>1. Holds(v)
    BY DEF PastOrPresent
  <2>2. ~Matches(w)
    <3> SUFFICES ASSUME Matches(w) PROVE FALSE
      OBVIOUS
    <3>1. CASE beat[w] = NoLease
      BY <3>1, <2>1 DEF Matches, MutualExclusion, Holds, Token
    <3>2. CASE beat[w] # NoLease
      <4>1. ~Holds(w)
        BY <2>1 DEF MutualExclusion
      <4>2. Token(w) = beat[w] /\ beat[w] < now /\ lease[w] < beat[w]
        BY <3>2, <4>1 DEF PastOrPresent, BeatIsRenewal, Token
      <4>3. lease[w] < now /\ lease[w] = Token(v) /\ Token(v) \in Nat /\ lease[w] \in Nat
        BY <4>2, <2>1, <3>2 DEF Matches, Holds, Token, BeatIsRenewal
      <4> QED
        BY <4>3
    <3> QED
      BY <3>1, <3>2
  <2> QED
    BY <2>1, <2>2, <1>1 DEF Holds
<1>3. PastOrPresent'
  BY <1>1, <1>2 DEF PastOrPresent
<1>4. BeatIsRenewal'
  BY DEF BeatIsRenewal, Drop
<1>5. MutualExclusion'
  BY <1>1 DEF MutualExclusion, Holds
<1> QED
  BY <1>3, <1>4, <1>5

\* Time only moves tokens into the past, and only an expired row is reclaimed.
LEMMA TickKeepsIInv ==
  ASSUME LockTypeOK, PastOrPresent, BeatIsRenewal, MutualExclusion, Tick
  PROVE  (PastOrPresent /\ BeatIsRenewal /\ MutualExclusion)'
  BY DEF LockTypeOK, Instant, Tick, PastOrPresent, BeatIsRenewal, MutualExclusion,
         Holds, Token

LEMMA ReclaimKeepsIInv ==
  ASSUME LockTypeOK, PastOrPresent, BeatIsRenewal, MutualExclusion, ReclaimExpiredLocks
  PROVE  (PastOrPresent /\ BeatIsRenewal /\ MutualExclusion)'
  BY DEF LockTypeOK, Instant, ReclaimExpiredLocks, Expired, PastOrPresent,
         BeatIsRenewal, MutualExclusion, Holds, Token

LEMMA NextIInv == IInv /\ LockTypeOK' /\ [LockNext]_lockVars => IInv'
<1> SUFFICES ASSUME IInv, LockTypeOK', [LockNext]_lockVars
             PROVE  (PastOrPresent /\ BeatIsRenewal /\ MutualExclusion)'
  BY DEF IInv
<1>0. LockTypeOK /\ PastOrPresent /\ BeatIsRenewal /\ MutualExclusion
  BY DEF IInv
<1> DEFINE Kept == (PastOrPresent /\ BeatIsRenewal /\ MutualExclusion)'
<1>1. CASE Tick
  BY <1>0, <1>1, TickKeepsIInv
<1>2. CASE ReclaimExpiredLocks
  BY <1>0, <1>2, ReclaimKeepsIInv
<1>3. ASSUME NEW w \in Worker, AcquireWorkspaceLock(w) PROVE Kept
  BY <1>0, <1>3, AcquireKeepsIInv
<1>4. ASSUME NEW w \in Worker, HeartbeatWrite(w) PROVE Kept
  BY <1>0, <1>4, HeartbeatKeepsIInv
<1>5. ASSUME NEW w \in Worker, HeartbeatReturn(w) PROVE Kept
  BY <1>0, <1>5, ReturnKeepsIInv
<1>6. ASSUME NEW w \in Worker, ReleaseLockOnSuccess(w) PROVE Kept
  BY <1>0, <1>6, DropKeepsIInv DEF ReleaseLockOnSuccess
<1>7. ASSUME NEW w \in Worker, ReleaseLockWithoutAdvancing(w) PROVE Kept
  BY <1>0, <1>7, DropKeepsIInv DEF ReleaseLockWithoutAdvancing
<1>8. ASSUME NEW w \in Worker, Abandon(w) PROVE Kept
  BY <1>0, <1>8, DropKeepsIInv DEF Abandon
<1>9. CASE UNCHANGED lockVars
  BY <1>0, <1>9 DEF lockVars, PastOrPresent, BeatIsRenewal, MutualExclusion, Holds, Token
<1> QED
  BY <1>1, <1>2, <1>3, <1>4, <1>5, <1>6, <1>7, <1>8, <1>9 DEF LockNext

LEMMA Inductive == LockSpec => []IInv
<1>1. LockInit => IInv
  BY InitIInv
<1>2. IInv /\ LockTypeOK' /\ [LockNext]_lockVars => IInv'
  BY NextIInv
<1> QED
  BY <1>1, <1>2, TypeCorrect, PTL DEF LockSpec

-----------------------------------------------------------------------------
\* Two workers never both pass the compare-and-set of the lock row.
THEOREM LockIsExclusive == LockSpec => []MutualExclusion
<1>1. IInv => MutualExclusion
  BY DEF IInv
<1> QED
  BY <1>1, Inductive, PTL

\* The row never falls behind a token that is still out, so that a worker whose
\* heartbeat went through unnoticed does not find its old lease in the row.
RowIsNewest ==
  lockUntil # NoLease => \A w \in Worker : Token(w) # NoLease => Token(w) <= lockUntil

LEMMA NextRowIsNewest == IInv /\ RowIsNewest /\ [LockNext]_lockVars => RowIsNewest'
<1> SUFFICES ASSUME IInv, RowIsNewest, [LockNext]_lockVars PROVE RowIsNewest'
  OBVIOUS
<1> USE DEF IInv, LockTypeOK, Instant, RowIsNewest, Token
<1>1. CASE Tick \/ ReclaimExpiredLocks \/ UNCHANGED lockVars
  BY <1>1 DEF Tick, ReclaimExpiredLocks, lockVars
<1>2. ASSUME NEW w \in Worker, AcquireWorkspaceLock(w) PROVE RowIsNewest'
  <2>1. \A v \in Worker : Token(v) # NoLease => Token(v) < now
    BY <1>2 DEF PastOrPresent, AcquireWorkspaceLock, LockIsFree, Expired, Holds
  <2>2. beat[w] = NoLease
    BY <1>2 DEF BeatIsRenewal, AcquireWorkspaceLock
  <2> QED
    BY <1>2, <2>1, <2>2 DEF AcquireWorkspaceLock
<1>3. ASSUME NEW w \in Worker, HeartbeatWrite(w) PROVE RowIsNewest'
  <2>1. \A v \in Worker \ {w} : Token(v) # NoLease => Token(v) <= lockUntil
    BY <1>3 DEF HeartbeatWrite, Matches
  <2>2. lockUntil \in Nat /\ lockUntil' \in Nat /\ lockUntil <= lockUntil'
    BY <1>3 DEF HeartbeatWrite, Matches, Later
  <2> QED
    BY <1>3, <2>1, <2>2 DEF HeartbeatWrite, Matches
<1>4. ASSUME NEW w \in Worker, HeartbeatReturn(w) PROVE RowIsNewest'
  BY <1>4 DEF HeartbeatReturn
<1>5. ASSUME NEW w \in Worker, \/ ReleaseLockOnSuccess(w) \/ ReleaseLockWithoutAdvancing(w)
                               \/ Abandon(w)
      PROVE  RowIsNewest'
  BY <1>5 DEF ReleaseLockOnSuccess, ReleaseLockWithoutAdvancing, Abandon, Drop
<1> QED
  BY <1>1, <1>2, <1>3, <1>4, <1>5 DEF LockNext

\* The compare-and-set of a release or of commitIfStillOwned, which compares the
\* lease the worker knows, succeeds only for the worker whose token is in the row.
MatchesIsHolds == \A w \in Worker : Matches(w) => Holds(w)

THEOREM OwnedMeansHeld == LockSpec => []MatchesIsHolds
<1>1. LockInit => RowIsNewest
  BY DEF LockInit, RowIsNewest
<1>2. IInv /\ RowIsNewest => MatchesIsHolds
  BY DEF IInv, LockTypeOK, Instant, RowIsNewest, BeatIsRenewal, MatchesIsHolds, Matches,
         Holds, Token
<1> QED
  BY <1>1, <1>2, Inductive, NextRowIsNewest, PTL DEF LockSpec

\* Until the instant its lease was promised, a worker is the owner: a fencing
\* guarantee that needs no further read of the database.
THEOREM LeaseIsKept == LockSpec => []LeaseGuarantee
<1>1. IInv => LeaseGuarantee
  BY DEF IInv, PastOrPresent, LeaseGuarantee, Holds, LockTypeOK, Instant, Token
<1> QED
  BY <1>1, Inductive, PTL

-----------------------------------------------------------------------------
\* IngestLock implements LeaseLock.

OwnerIsHolder ==
  Owner # NoLease => Owner \in Worker /\ Holds(Owner) /\ ~LockIsFree

LEMMA OwnerIsTheHolder == OwnerIsHolder
<1>1. \A w \in Worker : Holds(w) => Holds(CHOOSE v \in Worker : Holds(v))
                                   /\ (CHOOSE v \in Worker : Holds(v)) \in Worker
  OBVIOUS
<1> QED
  BY <1>1 DEF OwnerIsHolder, Owner

\* The workspace never passes from one worker directly to another.
LEMMA NoHandOver ==
  ASSUME IInv, IInv', [LockNext]_lockVars,
         NEW v \in Worker, Holds(v), ~LockIsFree,
         NEW w \in Worker, Holds(w)', ~LockIsFree'
  PROVE  v = w
<1> USE DEF IInv, LockTypeOK, Instant
<1>1. CASE Tick
  BY <1>1 DEF Tick, Holds, Token, MutualExclusion
<1>2. CASE ReclaimExpiredLocks
  BY <1>2 DEF ReclaimExpiredLocks, LockIsFree
<1>3. ASSUME NEW u \in Worker, AcquireWorkspaceLock(u) PROVE v = w
  BY <1>3 DEF AcquireWorkspaceLock
<1>4. ASSUME NEW u \in Worker, HeartbeatWrite(u) PROVE v = w
  <2>1. u = v
    BY <1>4 DEF HeartbeatWrite, Matches, Holds, Token, MutualExclusion
  <2>2. Holds(v)'
    BY <1>4, <2>1 DEF HeartbeatWrite, Matches, Later, Holds, Token
  <2> QED
    BY <2>2 DEF MutualExclusion
<1>5. ASSUME NEW u \in Worker, HeartbeatReturn(u) PROVE v = w
  BY <1>5 DEF HeartbeatReturn, Holds, Token, MutualExclusion
<1>6. ASSUME NEW u \in Worker, Drop(u), lockUntil' \in {lockUntil, NoLease} PROVE v = w
  <2>1. lockUntil' = lockUntil
    BY <1>6 DEF LockIsFree
  <2>2. Holds(w)
    BY <1>6, <2>1 DEF Drop, Holds, Token
  <2> QED
    BY <2>2 DEF MutualExclusion
<1>7. ASSUME NEW u \in Worker, ReleaseLockOnSuccess(u) PROVE v = w
  BY <1>6, <1>7 DEF ReleaseLockOnSuccess
<1>8. ASSUME NEW u \in Worker, ReleaseLockWithoutAdvancing(u) PROVE v = w
  BY <1>6, <1>8 DEF ReleaseLockWithoutAdvancing
<1>9. ASSUME NEW u \in Worker, Abandon(u) PROVE v = w
  BY <1>6, <1>9 DEF Abandon
<1>10. CASE UNCHANGED lockVars
  BY <1>10 DEF lockVars, Holds, Token, MutualExclusion
<1> QED
  BY <1>1, <1>2, <1>3, <1>4, <1>5, <1>7, <1>8, <1>9, <1>10 DEF LockNext

\* Every behaviour of the timestamp protocol is, seen through Owner, a
\* behaviour of the abstract lock: a worker is granted the workspace only after
\* the previous owner gave it up or ran out of time.
THEOREM Refinement == LockSpec => ImplementsLeaseLock
<1>1. LockInit => Abstract!Init
  BY DEF LockInit, Abstract!Init, Owner, LockIsFree
<1>2. IInv /\ IInv' /\ [LockNext]_lockVars => [Abstract!Next]_Owner
  <2> SUFFICES ASSUME IInv, IInv', [LockNext]_lockVars, Owner' # Owner
               PROVE  Abstract!Next
    OBVIOUS
  <2>2. OwnerIsHolder
    BY OwnerIsTheHolder
  <2>3. OwnerIsHolder'
    BY OwnerIsTheHolder, PTL
  <2>4. Owner = NoLease \/ Owner' = NoLease
    <3> SUFFICES ASSUME Owner # NoLease, Owner' # NoLease PROVE FALSE
      OBVIOUS
    <3>1. PICK v \in Worker : v = Owner /\ Holds(v) /\ ~LockIsFree
      BY <2>2 DEF OwnerIsHolder
    <3>2. PICK w \in Worker : w = Owner' /\ Holds(w)' /\ ~LockIsFree'
      BY <2>3 DEF OwnerIsHolder
    <3> QED
      BY <3>1, <3>2, NoHandOver
  <2> QED
    BY <2>2, <2>3, <2>4 DEF OwnerIsHolder, Abstract!Next, Abstract!GiveUp, Abstract!Take
<1> QED
  BY <1>1, <1>2, Inductive, PTL DEF LockSpec, ImplementsLeaseLock, Abstract!Spec
-----------------------------------------------------------------------------
\* The cycle and the lock.

\* A step of the cycle is a step of the lock protocol or leaves the lock alone.
LEMMA StepFollowsLock == [Next]_vars => [LockNext]_lockVars
<1> SUFFICES ASSUME [Next]_vars PROVE LockNext \/ UNCHANGED lockVars
  OBVIOUS
<1>1. CASE UNCHANGED vars
  BY <1>1 DEF vars
<1>2. CASE ClockTicks \/ SchedulerReclaims
  BY <1>2 DEF ClockTicks, SchedulerReclaims, LockNext
<1>3. ASSUME NEW k \in Conn, Connect(k) \/ Disconnect(k) \/ Edit(k)
      PROVE  UNCHANGED lockVars
  BY <1>3 DEF Connect, Disconnect, Edit
<1>4. ASSUME NEW w \in Worker,
             Start(w) \/ Heartbeat(w) \/ Throws(w) \/ Die(w) \/ ImportCompletes(w) \/ ImportFails(w)
      PROVE  LockNext \/ UNCHANGED lockVars
  BY <1>4 DEF Start, Heartbeat, HeartbeatFires, HeartbeatComesBack, HeartbeatMisses,
       HeartbeatFails, Throws, Die, ImportCompletes, ImportFails, LockNext
<1>5. ASSUME NEW w \in Worker, Proceed(w) PROVE LockNext \/ UNCHANGED lockVars
  <2>1. CASE InsertJobFails(w) \/ ReleaseFailed(w)
    BY <2>1 DEF InsertJobFails, ReleaseFailed, LockNext
  <2>2. CASE ReleaseCompleted(w)
    BY <2>2 DEF ReleaseCompleted, LockNext
  <2>3. CASE IndexRejects(w) \/ AbortLockLost(w)
    BY <2>3 DEF IndexRejects, AbortLockLost, LockNext
  <2>4. CASE InsertJob(w) \/ LoadConnections(w) \/ SyncGitHubSucceeds(w)
             \/ SyncGitHubFails(w) \/ EndExtraction(w) \/ SubmitImport(w)
             \/ SubmitFails(w) \/ PollSeesCompletion(w) \/ PollGivesUp(w)
             \/ PollSeesAbort(w) \/ FailJob(w) \/ CommitCursor(w)
             \/ CheckComplete(w) \/ CompleteJob(w)
    BY <2>4 DEF InsertJob, LoadConnections, SyncGitHubSucceeds, SyncGitHubFails,
         EndExtraction, SubmitImport, SubmitFails, PollSeesCompletion, PollGivesUp,
         PollSeesAbort, FailJob, CommitCursor, CheckComplete, CompleteJob
  <2>5. ASSUME NEW k \in Conn,
               \/ ExtractDocs(w, k) \/ ExtractFails(w, k) \/ RejectAccount(w, k)
               \/ SyncGitHub(w, k) \/ CheckCommit(w, k)
        PROVE  UNCHANGED lockVars
    BY <2>5 DEF ExtractDocs, ExtractFails, RejectAccount, SyncGitHub, CheckCommit
  <2> QED
    BY <1>5, <2>1, <2>2, <2>3, <2>4, <2>5 DEF Proceed
<1> QED
  BY <1>1, <1>2, <1>3, <1>4, <1>5 DEF Next

\* The cycle uses the lock as its protocol demands: it never writes the column
\* except by acquire, heartbeat, release or reclaim, and never after it gave
\* its lease up.
THEOREM CycleFollowsLock == Spec => LockSpec
<1>1. Init => LockInit
  BY DEF Init
<1> QED
  BY <1>1, StepFollowsLock, PTL DEF Spec, LockSpec

\* However many cycles of the workspace run, wherever they are and whatever
\* dies, at most one of them has its token in the lock row.
THEOREM CycleIsExclusive == Spec => []MutualExclusion
  BY CycleFollowsLock, LockIsExclusive, PTL

\* A cycle keeps the workspace until the instant of its lease.
THEOREM CycleKeepsLease == Spec => []LeaseGuarantee
  BY CycleFollowsLock, LeaseIsKept, PTL

-----------------------------------------------------------------------------
\* The inductive invariant of the cycle.  NothingLost speaks of cursors and
\* archives; what keeps it true is what every worker carries towards them.

\* The statements after a successful import.
Committing == {"commit", "write", "complete", "release"}

\* The statements before the connections are read, with nothing extracted yet.
Fresh == {"idle", "insert", "load"}

\* The labels the invariant speaks of.
Watched == Committing \cup Fresh \cup {"github", "submit", "poll"}

\* The cursors a worker started from were covered when it read them, and
\* nothing is ever taken out of gbrain.
SnapIsCovered(w) == \A k \in DOMAIN snap[w] : 1..snap[w][k] \subseteq imported[k]

\* An archive is extracted as a whole, and a repository counts as extracted
\* when gbrain has imported it.
GotIsSound(w) ==
  \A k \in DOMAIN got[w] : /\ k \in Zip => got[w][k] = head[k]
                           /\ Kind[k] = "github-repo" => 1..got[w][k] \subseteq imported[k]

\* The import job a worker polls is about what it has extracted since.
ImportIsOwn(w) ==
  pc[w] = "poll" =>
    /\ gjob[w] = "running" => staged[w] = Merged(w)
    /\ gjob[w] = "completed" => \A k \in Conn : Merged(w)[k] \subseteq imported[k]

GotIsCovered(w) ==
  pc[w] \in Committing => \A k \in DOMAIN got[w] : 1..got[w][k] \subseteq imported[k]

\* The connection of a two-step operation, and those still to commit.
TargetsAreRight(w) ==
  /\ pc[w] \in Fresh => DOMAIN got[w] = {}
  /\ pc[w] = "github" => cur[w] \in DOMAIN snap[w] /\ Kind[cur[w]] = "github-repo"
  /\ pc[w] \in {"submit", "poll", "commit", "write"} => todo[w] \subseteq DOMAIN got[w]
  /\ pc[w] = "write" => cur[w] \in DOMAIN got[w]

WorkerInv(w) ==
  /\ LocalTypeOK(w)
  /\ SnapIsCovered(w)
  /\ GotIsSound(w)
  /\ ImportIsOwn(w)
  /\ GotIsCovered(w)
  /\ TargetsAreRight(w)

CycleInv == TypeOK /\ NothingLost /\ \A w \in Worker : WorkerInv(w)

USE KindsAreKnown, CycleBounds

LEMMA EmptyMap == DOMAIN <<>> = {}
  OBVIOUS

LEMMA InitCycleInv == Init => CycleInv
<1> SUFFICES ASSUME Init PROVE CycleInv
  OBVIOUS
<1> USE DEF Init
<1>1. LockTypeOK
  BY DEF LockInit, LockTypeOK, Instant
<1>2. WorkTypeOK /\ RowTypeOK
  BY DEF WorkTypeOK, RowTypeOK, Pcs
<1>3. WorldTypeOK
  BY DEF WorldTypeOK, Zip
<1>4. NothingLost
  BY DEF NothingLost
<1>5. \A w \in Worker : WorkerInv(w)
  BY EmptyMap DEF WorkerInv, LocalTypeOK, SnapIsCovered, GotIsSound, ImportIsOwn, GotIsCovered,
         TargetsAreRight, Committing, Fresh
<1> QED
  BY <1>1, <1>2, <1>3, <1>4, <1>5 DEF CycleInv, TypeOK, WorkerInv

\* What a worker carries, and its import job.
Local(w) == <<snap[w], got[w], todo[w], cur[w], gjob[w], staged[w]>>

\* gbrain forgets nothing and archives do not change.
Grows == /\ \A k \in Conn : imported[k] \subseteq imported'[k]
         /\ \A k \in Zip : head'[k] = head[k]

\* A worker that keeps what it carries keeps its invariant, wherever it goes
\* outside the labels the invariant speaks of.
LEMMA WorkerStays ==
  ASSUME NEW w \in Worker, WorkerInv(w), Local(w)' = Local(w), Grows,
         \/ pc'[w] = pc[w]
         \/ pc[w] \in Fresh /\ pc'[w] \in Fresh
         \/ pc'[w] \notin Watched
  PROVE  WorkerInv(w)'
<1> USE DEF Local, Grows, WorkerInv, Watched, Fresh, Committing
<1>1. LocalTypeOK(w)' /\ TargetsAreRight(w)'
  BY DEF LocalTypeOK, TargetsAreRight, Committing, Fresh
<1>2. SnapIsCovered(w)' /\ GotIsSound(w)' /\ GotIsCovered(w)'
  BY DEF LocalTypeOK, SnapIsCovered, GotIsSound, GotIsCovered
<1>3. Merged(w)' = Merged(w)
  BY DEF Merged, WithDocs
<1>4. ImportIsOwn(w)'
  BY <1>3 DEF ImportIsOwn
<1> QED
  BY <1>1, <1>2, <1>4

\* So does one whose call has returned.
LEMMA WorkerLeaves ==
  ASSUME NEW w \in Worker, NEW label \in {"done", "thrown", "dead"}, WorkTypeOK, Leave(w, label)
  PROVE  WorkerInv(w)'
BY EmptyMap DEF WorkTypeOK, Leave, Go, WorkerInv, LocalTypeOK, SnapIsCovered, GotIsSound,
       ImportIsOwn, GotIsCovered, TargetsAreRight, Committing, Fresh

\* An ownership check leaves a boolean and a label.
LEMMA OwnedTypes ==
  ASSUME WorkTypeOK, NEW w \in Worker, NEW label \in Pcs, CheckOwned(w, label)
  PROVE  pc' \in [Worker -> Pcs] /\ aborted' \in [Worker -> BOOLEAN]
<1>1. (aborted[w] \/ ~Matches(w)) \in BOOLEAN
  OBVIOUS
<1>2. aborted' \in [Worker -> BOOLEAN]
  BY <1>1 DEF WorkTypeOK, CheckOwned
<1>3. pc' \in [Worker -> Pcs]
  BY DEF WorkTypeOK, CheckOwned, Pcs, Go
<1> QED
  BY <1>2, <1>3

\* Types of everything that is not a map of some worker.
LEMMA FlatTypes ==
  ASSUME CycleInv, [Next]_vars PROVE (WorkTypeOK /\ RowTypeOK /\ WorldTypeOK)'
<1> DEFINE Flat == WorkTypeOK /\ RowTypeOK /\ WorldTypeOK
<1> USE DEF CycleInv, TypeOK, workVars, connVars, worldVars
<1>1. CASE UNCHANGED vars \/ ClockTicks \/ SchedulerReclaims
  <2> USE <1>1 DEF vars, ClockTicks, SchedulerReclaims
  <2>1. WorkTypeOK'
    BY DEF WorkTypeOK, Pcs, Go, At
  <2>2. RowTypeOK'
    BY DEF RowTypeOK, WorkTypeOK
  <2>3. WorldTypeOK'
    BY DEF WorldTypeOK
  <2> QED
    BY <2>1, <2>2, <2>3
<1>2. ASSUME NEW k \in Conn, Connect(k) \/ Disconnect(k) PROVE Flat'
  <2> USE <1>2 DEF Connect, Disconnect
  <2>1. WorkTypeOK'
    BY DEF WorkTypeOK, Pcs, Go, At
  <2>2. RowTypeOK'
    BY DEF RowTypeOK, WorkTypeOK
  <2>3. WorldTypeOK'
    BY DEF WorldTypeOK
  <2> QED
    BY <2>1, <2>2, <2>3
<1>3. ASSUME NEW k \in Conn, Edit(k) PROVE Flat'
  <2> USE <1>3 DEF Edit
  <2>1. WorkTypeOK'
    BY DEF WorkTypeOK, Pcs, Go, At
  <2>2. RowTypeOK'
    BY DEF RowTypeOK, WorkTypeOK
  <2>3. WorldTypeOK'
    <3>1. head[k] + 1 \in 0..MaxHead
      BY DEF WorldTypeOK
    <3> QED
      BY <3>1 DEF WorldTypeOK
  <2> QED
    BY <2>1, <2>2, <2>3
<1>4. ASSUME NEW w \in Worker, Start(w) \/ Heartbeat(w) PROVE Flat'
  <2> USE <1>4 DEF Start, Heartbeat, HeartbeatFires, HeartbeatComesBack,
         HeartbeatMisses, HeartbeatFails
  <2>1. WorkTypeOK'
    BY DEF WorkTypeOK, Pcs, Go, At
  <2>2. RowTypeOK'
    BY DEF RowTypeOK, WorkTypeOK
  <2>3. WorldTypeOK'
    BY DEF WorldTypeOK
  <2> QED
    BY <2>1, <2>2, <2>3
<1>5. ASSUME NEW w \in Worker, ImportCompletes(w) \/ ImportFails(w) PROVE Flat'
  <2> USE <1>5 DEF ImportCompletes, ImportFails
  <2>1. WorkTypeOK'
    BY DEF WorkTypeOK, Pcs, Go, At
  <2>2. RowTypeOK'
    BY DEF RowTypeOK, WorkTypeOK
  <2>3. imported' \in [Conn -> SUBSET Version] /\ staged' \in [Worker -> [Conn -> SUBSET Version]]
    BY DEF WorldTypeOK
  <2>4. gjob' \in [Worker -> {None, "running", "completed", "failed"}]
    BY DEF WorldTypeOK
  <2>5. WorldTypeOK'
    BY <2>3, <2>4 DEF WorldTypeOK
  <2> QED
    BY <2>1, <2>2, <2>5
<1>6. ASSUME NEW w \in Worker,
             \/ InsertJobFails(w) \/ ReleaseFailed(w) \/ ReleaseCompleted(w)
             \/ IndexRejects(w) \/ AbortLockLost(w) \/ Throws(w) \/ Die(w)
      PROVE  Flat'
  <2> USE <1>6 DEF InsertJobFails, ReleaseFailed, ReleaseCompleted,
         IndexRejects, AbortLockLost, Throws, Die, Leave
  <2>1. WorkTypeOK'
    BY DEF WorkTypeOK, Pcs, Go, At
  <2>2. RowTypeOK'
    BY DEF RowTypeOK, WorkTypeOK
  <2>3. WorldTypeOK'
    BY DEF WorldTypeOK
  <2> QED
    BY <2>1, <2>2, <2>3
<1>7. ASSUME NEW w \in Worker,
             \/ InsertJob(w) \/ LoadConnections(w) \/ SubmitFails(w)
             \/ PollSeesCompletion(w) \/ PollGivesUp(w) \/ PollSeesAbort(w)
             \/ FailJob(w) \/ CompleteJob(w)
      PROVE  Flat'
  <2> USE <1>7 DEF InsertJob, LoadConnections, Selected, SubmitFails,
         PollSeesCompletion, PollGivesUp, PollSeesAbort, FailJob, CompleteJob
  <2>1. WorkTypeOK'
    BY DEF WorkTypeOK, Pcs, Go, At
  <2>2. RowTypeOK'
    BY DEF RowTypeOK, WorkTypeOK
  <2>3. WorldTypeOK'
    BY DEF WorldTypeOK
  <2> QED
    BY <2>1, <2>2, <2>3
<1>8. ASSUME NEW w \in Worker, SyncGitHubSucceeds(w) PROVE Flat'
  <2> USE <1>8 DEF SyncGitHubSucceeds
  <2>1. WorkTypeOK'
    BY DEF WorkTypeOK, Pcs, Go, At
  <2>2. RowTypeOK'
    BY DEF RowTypeOK, WorkTypeOK
  <2>3. WorldTypeOK'
    <3>1. cur[w] \in Conn
      BY DEF WorkerInv, TargetsAreRight, LocalTypeOK, At
    <3>2. 1..head[cur[w]] \subseteq Version
      BY <3>1 DEF WorldTypeOK, Version
    <3> QED
      BY <3>1, <3>2 DEF WorldTypeOK
  <2> QED
    BY <2>1, <2>2, <2>3
<1>9. ASSUME NEW w \in Worker, SyncGitHubFails(w) PROVE Flat'
  <2> USE <1>9 DEF SyncGitHubFails
  <2>1. WorkTypeOK'
    BY DEF WorkTypeOK, Pcs, Go, At
  <2>2. RowTypeOK'
    BY DEF RowTypeOK, WorkTypeOK
  <2>3. WorldTypeOK'
    BY DEF WorldTypeOK
  <2> QED
    BY <2>1, <2>2, <2>3
<1>10. ASSUME NEW w \in Worker, EndExtraction(w) PROVE Flat'
  <2> USE <1>10 DEF EndExtraction, WorkerInv, LocalTypeOK
  <2>1. WorkTypeOK'
    BY DEF WorkTypeOK, Pcs, Go, At
  <2>2. RowTypeOK'
    BY DEF RowTypeOK, WorkTypeOK
  <2>3. WorldTypeOK'
    BY DEF WorldTypeOK
  <2> QED
    BY <2>1, <2>2, <2>3
<1>11. ASSUME NEW w \in Worker, CheckComplete(w) PROVE Flat'
  <2> USE <1>11 DEF CheckComplete
  <2>1. WorkTypeOK'
    BY OwnedTypes DEF WorkTypeOK, Pcs
  <2>2. RowTypeOK'
    BY DEF RowTypeOK, WorkTypeOK
  <2>3. WorldTypeOK'
    BY DEF WorldTypeOK
  <2> QED
    BY <2>1, <2>2, <2>3
<1>12. ASSUME NEW w \in Worker, SubmitImport(w) PROVE Flat'
  <2> USE <1>12 DEF SubmitImport, Merged
  <2>1. WorkTypeOK'
    BY DEF WorkTypeOK, Pcs, Go, At
  <2>2. RowTypeOK'
    BY DEF RowTypeOK, WorkTypeOK
  <2>3. WorldTypeOK'
    BY DEF WorldTypeOK
  <2> QED
    BY <2>1, <2>2, <2>3
<1>13. ASSUME NEW w \in Worker, CommitCursor(w) PROVE Flat'
  <2> USE <1>13 DEF CommitCursor
  <2>1. WorkTypeOK'
    BY DEF WorkTypeOK, Pcs, Go, At
  <2>2. RowTypeOK'
    <3>1. cur[w] \in Conn /\ got[w][cur[w]] \in 0..MaxHead
      BY DEF WorkerInv, TargetsAreRight, LocalTypeOK, At
    <3> QED
      BY <3>1 DEF RowTypeOK
  <2>3. WorldTypeOK'
    BY DEF WorldTypeOK
  <2> QED
    BY <2>1, <2>2, <2>3
<1>14. ASSUME NEW w \in Worker, NEW k \in Conn,
             \/ ExtractDocs(w, k) \/ ExtractFails(w, k) \/ RejectAccount(w, k)
             \/ SyncGitHub(w, k)
      PROVE  Flat'
  <2> USE <1>14 DEF ExtractDocs, ExtractFails, RejectAccount, SyncGitHub, Extracting
  <2>1. WorkTypeOK'
    BY DEF WorkTypeOK, Pcs, Go, At
  <2>2. RowTypeOK'
    BY DEF RowTypeOK, WorkTypeOK
  <2>3. WorldTypeOK'
    BY DEF WorldTypeOK
  <2> QED
    BY <2>1, <2>2, <2>3
<1>15. ASSUME NEW w \in Worker, NEW k \in Conn, CheckCommit(w, k) PROVE Flat'
  <2> USE <1>15 DEF CheckCommit
  <2>1. WorkTypeOK'
    BY OwnedTypes DEF WorkTypeOK, Pcs
  <2>2. RowTypeOK'
    BY DEF RowTypeOK, WorkTypeOK
  <2>3. WorldTypeOK'
    BY DEF WorldTypeOK
  <2> QED
    BY <2>1, <2>2, <2>3
<1> QED
  BY <1>1, <1>2, <1>3, <1>4, <1>5, <1>6, <1>7, <1>8, <1>9, <1>10,
     <1>11, <1>12, <1>13, <1>14, <1>15
  DEF Next, Proceed

-----------------------------------------------------------------------------
\* Steps of one worker.

\* gbrain and the archives only grow, whatever happens.
LEMMA StepGrows == ASSUME TypeOK, [Next]_vars PROVE Grows
<1> USE DEF TypeOK, WorldTypeOK, Grows, Zip, workVars, connVars, worldVars
<1>1. CASE UNCHANGED vars \/ ClockTicks \/ SchedulerReclaims
  BY <1>1 DEF vars, ClockTicks, SchedulerReclaims
<1>2. ASSUME NEW k \in Conn, Connect(k) \/ Disconnect(k) PROVE Grows
  BY <1>2 DEF Connect, Disconnect
<1>3. ASSUME NEW k \in Conn, Edit(k) PROVE Grows
  BY <1>3 DEF Edit
<1>4. ASSUME NEW w \in Worker,
             Start(w) \/ Heartbeat(w) \/ Throws(w) \/ Die(w) \/ ImportCompletes(w) \/ ImportFails(w)
      PROVE  Grows
  BY <1>4 DEF Start, Heartbeat, HeartbeatFires, HeartbeatComesBack, HeartbeatMisses,
       HeartbeatFails, Throws, Die, ImportCompletes, ImportFails
<1>5. ASSUME NEW w \in Worker, SyncGitHubSucceeds(w) PROVE Grows
  BY <1>5 DEF SyncGitHubSucceeds
<1>6. ASSUME NEW w \in Worker, NEW k \in Conn,
             \/ ExtractDocs(w, k) \/ ExtractFails(w, k) \/ RejectAccount(w, k)
             \/ SyncGitHub(w, k) \/ CheckCommit(w, k)
      PROVE  Grows
  BY <1>6 DEF ExtractDocs, ExtractFails, RejectAccount, SyncGitHub, CheckCommit
<1>7. ASSUME NEW w \in Worker, Proceed(w), ~SyncGitHubSucceeds(w) PROVE Grows
  BY <1>6, <1>7 DEF Proceed, InsertJob, InsertJobFails, LoadConnections, SyncGitHubFails,
       EndExtraction, SubmitImport, SubmitFails, PollSeesCompletion, PollGivesUp,
       PollSeesAbort, FailJob, ReleaseFailed, CommitCursor, IndexRejects,
       CheckComplete, CompleteJob, ReleaseCompleted, AbortLockLost
<1> QED
  BY <1>1, <1>2, <1>3, <1>4, <1>5, <1>7 DEF Next

\* A step of one worker is no step of another.
OthersKeep(w) == \A v \in Worker \ {w} : Local(v)' = Local(v) /\ pc'[v] = pc[v]

LEMMA StepIsOwn ==
  ASSUME TypeOK, NEW w \in Worker,
         \/ Start(w) \/ Proceed(w) \/ Heartbeat(w) \/ Throws(w) \/ Die(w)
         \/ ImportCompletes(w) \/ ImportFails(w)
  PROVE  OthersKeep(w)
<1> USE DEF TypeOK, WorkTypeOK, WorldTypeOK, OthersKeep, Local, Go, workVars, connVars, worldVars
<1>1. CASE Start(w) \/ Heartbeat(w)
  BY <1>1 DEF Start, Heartbeat, HeartbeatFires, HeartbeatComesBack, HeartbeatMisses,
       HeartbeatFails
<1>2. CASE ImportCompletes(w) \/ ImportFails(w)
  BY <1>2 DEF ImportCompletes, ImportFails
<1>3. CASE InsertJobFails(w) \/ ReleaseFailed(w) \/ ReleaseCompleted(w)
           \/ IndexRejects(w) \/ AbortLockLost(w) \/ Throws(w) \/ Die(w)
  BY <1>3 DEF InsertJobFails, ReleaseFailed, ReleaseCompleted, IndexRejects,
       AbortLockLost, Throws, Die, Leave
<1>4. CASE InsertJob(w) \/ LoadConnections(w) \/ SubmitImport(w) \/ SubmitFails(w)
           \/ PollSeesCompletion(w) \/ PollGivesUp(w) \/ PollSeesAbort(w)
           \/ FailJob(w) \/ CompleteJob(w)
  BY <1>4 DEF InsertJob, LoadConnections, SubmitImport, SubmitFails,
       PollSeesCompletion, PollGivesUp, PollSeesAbort, FailJob, CompleteJob
<1>5. CASE SyncGitHubSucceeds(w) \/ SyncGitHubFails(w) \/ EndExtraction(w)
           \/ CommitCursor(w)
  BY <1>5 DEF SyncGitHubSucceeds, SyncGitHubFails, EndExtraction, CommitCursor
<1>6. CASE CheckComplete(w)
  BY <1>6 DEF CheckComplete, CheckOwned
<1>7. ASSUME NEW k \in Conn,
             \/ ExtractDocs(w, k) \/ ExtractFails(w, k) \/ RejectAccount(w, k)
             \/ SyncGitHub(w, k) \/ CheckCommit(w, k)
      PROVE  OthersKeep(w)
  BY <1>7 DEF ExtractDocs, ExtractFails, RejectAccount, SyncGitHub, CheckCommit, CheckOwned
<1> QED
  BY <1>1, <1>2, <1>3, <1>4, <1>5, <1>6, <1>7 DEF Proceed

-----------------------------------------------------------------------------
\* How every step keeps the invariant of its worker.

\* Steps that only change the label, and those after which nothing is carried.
LEMMA PassingSteps ==
  ASSUME CycleInv, NEW w \in Worker, [Next]_vars,
         \/ Start(w) \/ Heartbeat(w) \/ InsertJob(w) \/ SubmitFails(w) \/ PollGivesUp(w)
         \/ PollSeesAbort(w) \/ FailJob(w)
         \/ InsertJobFails(w) \/ ReleaseFailed(w) \/ ReleaseCompleted(w)
         \/ IndexRejects(w) \/ AbortLockLost(w) \/ Throws(w) \/ Die(w)
  PROVE  WorkerInv(w)'
<1> USE DEF CycleInv, TypeOK
<1>1. Grows
  BY StepGrows
<1>2. CASE Start(w) \/ Heartbeat(w) \/ InsertJob(w) \/ SubmitFails(w) \/ PollGivesUp(w)
           \/ PollSeesAbort(w) \/ FailJob(w)
  <2>1. Local(w)' = Local(w)
    BY <1>2 DEF Local, worldVars, workVars, Start, Heartbeat, HeartbeatFires,
         HeartbeatComesBack, HeartbeatMisses, HeartbeatFails, InsertJob, SubmitFails,
         PollGivesUp, PollSeesAbort, FailJob
  <2>2. \/ pc'[w] = pc[w]
        \/ pc[w] \in Fresh /\ pc'[w] \in Fresh
        \/ pc'[w] \notin Watched
    BY <1>2 DEF WorkTypeOK, Watched, Committing, Fresh, At, Go, workVars, Start, Heartbeat, HeartbeatFires,
         HeartbeatComesBack, HeartbeatMisses, HeartbeatFails, InsertJob, SubmitFails,
         PollGivesUp, PollSeesAbort, FailJob
  <2> QED
    BY <1>1, <2>1, <2>2, WorkerStays
<1>3. CASE InsertJobFails(w) \/ ReleaseFailed(w) \/ ReleaseCompleted(w)
           \/ IndexRejects(w) \/ AbortLockLost(w) \/ Throws(w) \/ Die(w)
  BY <1>3, WorkerLeaves DEF InsertJobFails, ReleaseFailed, ReleaseCompleted,
     IndexRejects, AbortLockLost, Throws, Die
<1> QED
  BY <1>2, <1>3

\* A worker outside the labels of the invariant has only its maps to keep right.
LEMMA CarriesOnly ==
  ASSUME NEW w \in Worker, LocalTypeOK(w)', SnapIsCovered(w)', GotIsSound(w)',
         pc'[w] \notin Watched
  PROVE  WorkerInv(w)'
BY DEF WorkerInv, ImportIsOwn, GotIsCovered, TargetsAreRight, Watched, Committing, Fresh

LEMMA ExtractionSteps ==
  ASSUME CycleInv, NEW w \in Worker, [Next]_vars
  PROVE  /\ LoadConnections(w) => WorkerInv(w)'
         /\ \A k \in Conn : (\/ ExtractDocs(w, k) \/ ExtractFails(w, k)
                             \/ RejectAccount(w, k) \/ SyncGitHub(w, k)) => WorkerInv(w)'
         /\ SyncGitHubSucceeds(w) \/ SyncGitHubFails(w) => WorkerInv(w)'
<1> USE DEF CycleInv, TypeOK
<1>1. Grows
  BY StepGrows
<1>2. WorkerInv(w)
  OBVIOUS
<1>3. ASSUME LoadConnections(w) PROVE WorkerInv(w)'
  <2> USE <1>3 DEF LoadConnections, Selected, Go
  <2>1. /\ snap'[w] = [k \in Selected |-> cursor[k]]
        /\ todo'[w] = Selected
        /\ got'[w] = got[w] /\ pc'[w] = "extract"
    BY DEF WorkTypeOK
  <2>2. DOMAIN got[w] = {}
    BY <1>2 DEF WorkerInv, TargetsAreRight, Fresh, At
  <2>3. LocalTypeOK(w)'
    BY <2>1, <2>2 DEF LocalTypeOK, RowTypeOK
  <2>4. SnapIsCovered(w)'
    BY <2>1, <1>1 DEF SnapIsCovered, NothingLost, worldVars
  <2>5. GotIsSound(w)'
    BY <2>1, <2>2 DEF GotIsSound
  <2> QED
    BY <2>1, <2>3, <2>4, <2>5, CarriesOnly DEF Watched, Committing, Fresh
<1>4. ASSUME NEW k \in Conn, ExtractDocs(w, k) PROVE WorkerInv(w)'
  <2> USE <1>4 DEF ExtractDocs, Extracting, At, worldVars
  <2>1. /\ got'[w] = [j \in DOMAIN got[w] \cup {k} |-> IF j = k THEN head[k] ELSE got[w][j]]
        /\ todo'[w] \subseteq todo[w]
        /\ k \in todo[w] /\ snap'[w] = snap[w] /\ pc'[w] = "extract"
    BY DEF WorkTypeOK
  <2>2. LocalTypeOK(w)'
    BY <2>1, <1>2 DEF WorkerInv, LocalTypeOK, WorldTypeOK
  <2>3. SnapIsCovered(w)'
    BY <2>1, <1>2 DEF WorkerInv, SnapIsCovered
  <2>4. GotIsSound(w)'
    BY <2>1, <1>2 DEF WorkerInv, GotIsSound, Zip
  <2> QED
    BY <2>1, <2>2, <2>3, <2>4, CarriesOnly DEF Watched, Committing, Fresh
<1>5. ASSUME NEW k \in Conn, ExtractFails(w, k) \/ RejectAccount(w, k) PROVE WorkerInv(w)'
  <2> USE <1>5 DEF ExtractFails, RejectAccount, Extracting, At, worldVars
  <2>1. /\ todo'[w] \subseteq todo[w]
        /\ got'[w] = got[w] /\ snap'[w] = snap[w] /\ pc'[w] = "extract"
    BY DEF WorkTypeOK
  <2>2. LocalTypeOK(w)' /\ SnapIsCovered(w)' /\ GotIsSound(w)'
    BY <2>1, <1>2 DEF WorkerInv, LocalTypeOK, SnapIsCovered, GotIsSound
  <2> QED
    BY <2>1, <2>2, CarriesOnly DEF Watched, Committing, Fresh
<1>6. ASSUME NEW k \in Conn, SyncGitHub(w, k) PROVE WorkerInv(w)'
  <2> USE <1>6 DEF SyncGitHub, Extracting, At, Go, worldVars
  <2>1. /\ todo'[w] \subseteq todo[w] /\ k \in todo[w] /\ cur'[w] = k
        /\ got'[w] = got[w] /\ snap'[w] = snap[w] /\ pc'[w] = "github"
    BY DEF WorkTypeOK
  <2>2. LocalTypeOK(w)' /\ SnapIsCovered(w)' /\ GotIsSound(w)'
    BY <2>1, <1>2 DEF WorkerInv, LocalTypeOK, SnapIsCovered, GotIsSound
  <2>3. ImportIsOwn(w)' /\ GotIsCovered(w)'
    BY <2>1 DEF ImportIsOwn, GotIsCovered, Committing
  <2>4. TargetsAreRight(w)'
    BY <2>1, <1>2 DEF WorkerInv, LocalTypeOK, TargetsAreRight, Committing, Fresh
  <2> QED
    BY <2>2, <2>3, <2>4 DEF WorkerInv
<1>7. ASSUME SyncGitHubSucceeds(w) PROVE WorkerInv(w)'
  <2> DEFINE k == cur[w]
  <2> USE <1>7 DEF SyncGitHubSucceeds, At, Go
  <2>1. /\ got'[w] = [j \in DOMAIN got[w] \cup {k} |-> IF j = k THEN head[k] ELSE got[w][j]]
        /\ todo'[w] = todo[w] /\ snap'[w] = snap[w] /\ pc'[w] = "extract"
    BY DEF WorkTypeOK
  <2>2. k \in DOMAIN snap[w] /\ Kind[k] = "github-repo" /\ k \in Conn
    BY <1>2 DEF WorkerInv, TargetsAreRight, LocalTypeOK
  <2>3. LocalTypeOK(w)'
    BY <2>1, <2>2, <1>2 DEF WorkerInv, LocalTypeOK, WorldTypeOK
  <2>4. SnapIsCovered(w)'
    BY <2>1, <1>1, <1>2 DEF WorkerInv, LocalTypeOK, SnapIsCovered, Grows
  <2>5. 1..head[k] \subseteq imported'[k]
    BY <2>2 DEF WorldTypeOK
  <2>6. GotIsSound(w)'
    BY <2>1, <2>2, <2>5, <1>1, <1>2 DEF WorkerInv, LocalTypeOK, GotIsSound, Zip, Grows
  <2> QED
    BY <2>1, <2>3, <2>4, <2>6, CarriesOnly DEF Watched, Committing, Fresh
<1>8. ASSUME SyncGitHubFails(w) PROVE WorkerInv(w)'
  <2> USE <1>8 DEF SyncGitHubFails, At, Go, worldVars
  <2>1. /\ got'[w] = got[w] /\ todo'[w] = todo[w]
        /\ snap'[w] = snap[w] /\ pc'[w] = "extract"
    BY DEF WorkTypeOK
  <2>2. LocalTypeOK(w)' /\ SnapIsCovered(w)' /\ GotIsSound(w)'
    BY <2>1, <1>2 DEF WorkerInv, LocalTypeOK, SnapIsCovered, GotIsSound
  <2> QED
    BY <2>1, <2>2, CarriesOnly DEF Watched, Committing, Fresh
<1> QED
  BY <1>3, <1>4, <1>5, <1>6, <1>7, <1>8

\* What is covered when a worker reaches its commits: a connection with
\* documents through its import, an archive or a database without new documents
\* through the cursor it started from, a repository through its own pull.
LEMMA CoveredAtCommit ==
  ASSUME NEW w \in Worker, TypeOK, LocalTypeOK(w), SnapIsCovered(w), GotIsSound(w),
         \A k \in WithDocs(w) : Merged(w)[k] \subseteq imported[k]
  PROVE  \A k \in DOMAIN got[w] : 1..got[w][k] \subseteq imported[k]
<1> SUFFICES ASSUME NEW k \in DOMAIN got[w], NEW v \in 1..got[w][k]
             PROVE  v \in imported[k]
  OBVIOUS
<1>1. /\ k \in Conn /\ k \in DOMAIN snap[w]
      /\ got[w][k] \in 0..MaxHead /\ snap[w][k] \in 0..MaxHead
      /\ v \in Nat \ {0}
  BY DEF LocalTypeOK
<1>2. CASE Kind[k] = "github-repo"
  BY <1>2 DEF GotIsSound
<1>3. CASE v <= snap[w][k]
  BY <1>1, <1>3 DEF SnapIsCovered
<1>4. CASE Kind[k] # "github-repo" /\ snap[w][k] < v
  <2>1. k \in WithDocs(w)
    BY <1>1, <1>4 DEF WithDocs
  <2>2. v \in Merged(w)[k]
    BY <1>1, <1>4, <2>1 DEF Merged, Version
  <2> QED
    BY <2>1, <2>2
<1> QED
  BY <1>1, <1>2, <1>3, <1>4

\* Steps of a worker that keep its maps and import and change only todo and cur.
LEMMA MapsStay ==
  ASSUME NEW w \in Worker, WorkerInv(w), Grows,
         UNCHANGED <<snap[w], got[w]>>, todo'[w] \subseteq DOMAIN snap[w]
  PROVE  LocalTypeOK(w)' /\ SnapIsCovered(w)' /\ GotIsSound(w)'
<1> USE DEF WorkerInv, Grows, LocalTypeOK
<1>1. LocalTypeOK(w)'
  OBVIOUS
<1>2. SnapIsCovered(w)'
  BY DEF SnapIsCovered
<1>3. GotIsSound(w)'
  BY DEF GotIsSound
<1> QED
  BY <1>1, <1>2, <1>3

LEMMA ImportSteps ==
  ASSUME CycleInv, NEW w \in Worker, [Next]_vars
  PROVE  /\ EndExtraction(w) => WorkerInv(w)'
         /\ SubmitImport(w) => WorkerInv(w)'
         /\ ImportCompletes(w) \/ ImportFails(w) => WorkerInv(w)'
         /\ PollSeesCompletion(w) => WorkerInv(w)'
<1> USE DEF CycleInv, TypeOK
<1>1. Grows
  BY StepGrows
<1>2. WorkerInv(w)
  OBVIOUS
<1>3. ASSUME EndExtraction(w) PROVE WorkerInv(w)'
  <2> USE <1>3 DEF EndExtraction, Go
  <2>1. /\ todo'[w] = DOMAIN got[w] /\ cur'[w] = cur[w]
        /\ UNCHANGED <<snap[w], got[w], gjob[w], staged[w]>>
    BY <1>2 DEF WorkTypeOK, WorkerInv, LocalTypeOK, worldVars
  <2>2. /\ pc'[w] \in {"abort", "commit", "submit"}
        /\ pc'[w] = "commit" => WithDocs(w) = {}
    BY DEF WorkTypeOK
  <2>3. LocalTypeOK(w)' /\ SnapIsCovered(w)' /\ GotIsSound(w)'
    BY <1>1, <1>2, <2>1, MapsStay DEF WorkerInv, LocalTypeOK
  <2>4. ImportIsOwn(w)'
    BY <2>2 DEF ImportIsOwn
  <2>5. GotIsCovered(w)'
    <3>1. WithDocs(w) = {} => \A k \in DOMAIN got[w] : 1..got[w][k] \subseteq imported[k]
      BY <1>2, CoveredAtCommit DEF WorkerInv
    <3> QED
      BY <2>1, <2>2, <3>1 DEF GotIsCovered, Committing, worldVars
  <2>6. TargetsAreRight(w)'
    BY <2>1, <2>2 DEF TargetsAreRight, Fresh
  <2> QED
    BY <2>3, <2>4, <2>5, <2>6 DEF WorkerInv
<1>4. ASSUME SubmitImport(w) PROVE WorkerInv(w)'
  <2> USE <1>4 DEF SubmitImport, Go
  <2>1. /\ todo'[w] = todo[w] /\ UNCHANGED <<snap[w], got[w]>>
        /\ gjob'[w] = "running" /\ staged'[w] = Merged(w)
        /\ pc'[w] \in {"poll", "fail"}
    BY DEF WorkTypeOK, WorldTypeOK
  <2>2. LocalTypeOK(w)' /\ SnapIsCovered(w)' /\ GotIsSound(w)'
    BY <1>1, <1>2, <2>1, MapsStay DEF WorkerInv, LocalTypeOK
  <2>3. ImportIsOwn(w)'
    BY <2>1 DEF ImportIsOwn, Merged, WithDocs
  <2>4. GotIsCovered(w)' /\ TargetsAreRight(w)'
    BY <1>2, <2>1 DEF GotIsCovered, WorkerInv, TargetsAreRight, Committing, Fresh, At
  <2> QED
    BY <2>2, <2>3, <2>4 DEF WorkerInv
<1>5. ASSUME ImportCompletes(w) PROVE WorkerInv(w)'
  <2> USE <1>5 DEF ImportCompletes, workVars
  <2>1. LocalTypeOK(w)' /\ SnapIsCovered(w)' /\ GotIsSound(w)'
    BY <1>1, <1>2, MapsStay DEF WorkerInv, LocalTypeOK
  <2>2. Merged(w)' = Merged(w)
    BY DEF Merged, WithDocs
  <2>3. pc[w] = "poll" => \A k \in Conn : staged[w][k] \subseteq imported'[k]
    BY DEF DirectoryGone, WorldTypeOK
  <2>4. gjob'[w] = "completed"
    BY DEF WorldTypeOK
  <2>5. ImportIsOwn(w)'
    BY <1>2, <2>2, <2>3, <2>4 DEF ImportIsOwn, WorkerInv
  <2>6. GotIsCovered(w)'
    BY <1>1, <1>2 DEF GotIsCovered, WorkerInv, LocalTypeOK, Grows, Committing
  <2>7. TargetsAreRight(w)'
    BY <1>2 DEF TargetsAreRight, WorkerInv, Committing, Fresh
  <2> QED
    BY <2>1, <2>5, <2>6, <2>7 DEF WorkerInv
<1>6. ASSUME ImportFails(w) PROVE WorkerInv(w)'
  <2> USE <1>6 DEF ImportFails, workVars
  <2>1. LocalTypeOK(w)' /\ SnapIsCovered(w)' /\ GotIsSound(w)'
    BY <1>1, <1>2, MapsStay DEF WorkerInv, LocalTypeOK
  <2>2. gjob'[w] = "failed"
    BY DEF WorldTypeOK
  <2>3. ImportIsOwn(w)'
    BY <2>2 DEF ImportIsOwn
  <2>4. GotIsCovered(w)' /\ TargetsAreRight(w)'
    BY <1>2 DEF GotIsCovered, TargetsAreRight, WorkerInv, Committing, Fresh
  <2> QED
    BY <2>1, <2>3, <2>4 DEF WorkerInv
<1>7. ASSUME PollSeesCompletion(w) PROVE WorkerInv(w)'
  <2> USE <1>7 DEF PollSeesCompletion, Go, At, worldVars
  <2>1. /\ todo'[w] = todo[w] /\ UNCHANGED <<snap[w], got[w]>>
        /\ pc'[w] = "commit"
    BY DEF WorkTypeOK
  <2>2. LocalTypeOK(w)' /\ SnapIsCovered(w)' /\ GotIsSound(w)'
    BY <1>1, <1>2, <2>1, MapsStay DEF WorkerInv, LocalTypeOK
  <2>3. ImportIsOwn(w)'
    BY <2>1 DEF ImportIsOwn
  <2>4. WithDocs(w) \subseteq Conn
    BY <1>2 DEF WithDocs, WorkerInv, LocalTypeOK
  <2>5. GotIsCovered(w)'
    BY <1>2, <2>1, <2>4, CoveredAtCommit DEF GotIsCovered, WorkerInv, ImportIsOwn
  <2>6. TargetsAreRight(w)'
    BY <1>2, <2>1 DEF TargetsAreRight, WorkerInv, Fresh
  <2> QED
    BY <2>2, <2>3, <2>5, <2>6 DEF WorkerInv
<1> QED
  BY <1>3, <1>4, <1>5, <1>6, <1>7

LEMMA CommitSteps ==
  ASSUME CycleInv, NEW w \in Worker, [Next]_vars
  PROVE  /\ \A k \in Conn : CheckCommit(w, k) => WorkerInv(w)'
         /\ CommitCursor(w) => WorkerInv(w)'
         /\ CheckComplete(w) => WorkerInv(w)'
         /\ CompleteJob(w) => WorkerInv(w)'
<1> USE DEF CycleInv, TypeOK
<1>1. Grows
  BY StepGrows
<1>2. WorkerInv(w)
  OBVIOUS
<1> DEFINE Keeps == /\ UNCHANGED <<snap[w], got[w], imported>>
                    /\ todo'[w] \subseteq todo[w]
                    /\ pc[w] \in Committing
                    /\ pc'[w] \in Committing \cup {"abort"}
<1>3. ASSUME Keeps PROVE LocalTypeOK(w)' /\ SnapIsCovered(w)' /\ GotIsSound(w)'
                         /\ ImportIsOwn(w)' /\ GotIsCovered(w)'
  <2>1. LocalTypeOK(w)' /\ SnapIsCovered(w)' /\ GotIsSound(w)'
    BY <1>1, <1>2, <1>3, MapsStay DEF WorkerInv, LocalTypeOK
  <2>2. ImportIsOwn(w)' /\ GotIsCovered(w)'
    BY <1>2, <1>3 DEF ImportIsOwn, GotIsCovered, WorkerInv, Committing
  <2> QED
    BY <2>1, <2>2
<1>4. ASSUME NEW k \in Conn, CheckCommit(w, k) PROVE WorkerInv(w)'
  <2> USE <1>4 DEF CheckCommit, At, worldVars
  <2>1. Keeps /\ todo'[w] = todo[w] /\ cur'[w] = k /\ k \in todo[w]
        /\ pc'[w] \in {"abort", "write"} /\ pc[w] = "commit"
    BY DEF WorkTypeOK, Committing, CheckOwned, Go
  <2>2. TargetsAreRight(w)'
    BY <1>2, <2>1 DEF WorkerInv, TargetsAreRight, Fresh
  <2> QED
    BY <1>3, <2>1, <2>2 DEF WorkerInv
<1>5. ASSUME CommitCursor(w) PROVE WorkerInv(w)'
  <2> USE <1>5 DEF CommitCursor, At, worldVars
  <2>1. Keeps /\ pc'[w] = "commit" /\ pc[w] = "write"
    BY DEF WorkTypeOK, Committing, Go
  <2>2. TargetsAreRight(w)'
    BY <1>2, <2>1 DEF WorkerInv, TargetsAreRight, Fresh
  <2> QED
    BY <1>3, <2>1, <2>2 DEF WorkerInv
<1>6. ASSUME CheckComplete(w) PROVE WorkerInv(w)'
  <2> USE <1>6 DEF CheckComplete, At, worldVars
  <2>1. Keeps /\ pc'[w] \in {"abort", "complete"}
    BY DEF WorkTypeOK, Committing, CheckOwned, Go
  <2>2. TargetsAreRight(w)'
    BY <2>1 DEF TargetsAreRight, Fresh
  <2> QED
    BY <1>3, <2>1, <2>2 DEF WorkerInv
<1>7. ASSUME CompleteJob(w) PROVE WorkerInv(w)'
  <2> USE <1>7 DEF CompleteJob, At, worldVars
  <2>1. Keeps /\ pc'[w] = "release"
    BY DEF WorkTypeOK, Committing, Go
  <2>2. TargetsAreRight(w)'
    BY <2>1 DEF TargetsAreRight, Fresh
  <2> QED
    BY <1>3, <2>1, <2>2 DEF WorkerInv
<1> QED
  BY <1>4, <1>5, <1>6, <1>7

\* Every worker keeps its invariant, whoever moves.
LEMMA WorkersKeep == ASSUME CycleInv, [Next]_vars PROVE (\A w \in Worker : WorkerInv(w))'
<1> SUFFICES ASSUME NEW v \in Worker PROVE WorkerInv(v)'
  OBVIOUS
<1>1. Grows
  BY StepGrows DEF CycleInv
<1>2. ASSUME Local(v)' = Local(v), pc'[v] = pc[v] PROVE WorkerInv(v)'
  BY <1>1, <1>2, WorkerStays DEF CycleInv
<1>3. CASE UNCHANGED vars \/ ClockTicks \/ SchedulerReclaims
           \/ \E k \in Conn : Connect(k) \/ Disconnect(k) \/ Edit(k)
  <2>1. Local(v)' = Local(v) /\ pc'[v] = pc[v]
    BY <1>3 DEF Local, vars, workVars, worldVars, ClockTicks, SchedulerReclaims,
         Connect, Disconnect, Edit
  <2> QED
    BY <1>2, <2>1
<1>4. ASSUME NEW w \in Worker,
             \/ Start(w) \/ Proceed(w) \/ Heartbeat(w) \/ Throws(w) \/ Die(w)
             \/ ImportCompletes(w) \/ ImportFails(w)
      PROVE  WorkerInv(v)'
  <2>1. CASE v # w
    BY <1>2, <1>4, <2>1, StepIsOwn DEF CycleInv, OthersKeep
  <2>2. WorkerInv(w)'
    BY <1>4, PassingSteps, ExtractionSteps, ImportSteps, CommitSteps DEF Proceed
  <2> QED
    BY <2>1, <2>2
<1> QED
  BY <1>3, <1>4 DEF Next

\* A cursor moves, an archive goes and a source grows only as NothingLost allows.
LEMMA NothingGetsLost == ASSUME CycleInv, [Next]_vars PROVE NothingLost'
<1>1. Grows
  BY StepGrows DEF CycleInv
<1>2. CASE UNCHANGED <<cursor, zips>>
  <2>1. \A k \in Zip : head'[k] = head[k]
    BY <1>1 DEF Grows
  <2> QED
    BY <1>1, <1>2, <2>1 DEF CycleInv, NothingLost, Grows, Zip
<1>3. ASSUME NEW w \in Worker, CommitCursor(w) PROVE NothingLost'
  <2> DEFINE k == cur[w]
  <2>1. k \in DOMAIN got[w] /\ k \in Conn /\ 1..got[w][k] \subseteq imported[k]
    BY <1>3 DEF CycleInv, CommitCursor, At, WorkerInv, LocalTypeOK, TargetsAreRight,
         GotIsCovered, Committing
  <2>2. /\ cursor' = [cursor EXCEPT ![k] = got[w][k]]
        /\ UNCHANGED <<imported, zips, head>>
    BY <1>3 DEF CommitCursor, worldVars
  <2> QED
    BY <2>1, <2>2 DEF CycleInv, TypeOK, RowTypeOK, NothingLost
<1>4. ASSUME NEW w \in Worker, ReleaseCompleted(w) PROVE NothingLost'
  <2>1. zips \ zips' \subseteq DOMAIN got[w] /\ UNCHANGED <<cursor, imported, head>>
    BY <1>4 DEF ReleaseCompleted, connVars
  <2>2. \A k \in Zip \cap DOMAIN got[w] : 1..head[k] \subseteq imported[k]
    BY <1>4 DEF CycleInv, WorkerInv, GotIsSound, GotIsCovered, ReleaseCompleted, At,
         Committing
  <2> QED
    BY <2>1, <2>2 DEF CycleInv, NothingLost, Zip
<1>5. UNCHANGED <<cursor, zips>> \/ \E w \in Worker : CommitCursor(w) \/ ReleaseCompleted(w)
  <2> USE DEF connVars, worldVars
  <2>1. CASE UNCHANGED vars \/ ClockTicks \/ SchedulerReclaims
             \/ \E k \in Conn : Connect(k) \/ Disconnect(k) \/ Edit(k)
    BY <2>1 DEF vars, ClockTicks, SchedulerReclaims, Connect, Disconnect, Edit
  <2>2. ASSUME NEW w \in Worker, Start(w) \/ Heartbeat(w) \/ Throws(w) \/ Die(w)
                                 \/ ImportCompletes(w) \/ ImportFails(w)
        PROVE  UNCHANGED <<cursor, zips>>
    BY <2>2 DEF Start, Heartbeat, HeartbeatFires, HeartbeatComesBack, HeartbeatMisses,
         HeartbeatFails, Throws, Die, ImportCompletes, ImportFails
  <2>3. ASSUME NEW w \in Worker, Proceed(w), ~CommitCursor(w), ~ReleaseCompleted(w)
        PROVE  UNCHANGED <<cursor, zips>>
    BY <2>3 DEF Proceed, InsertJob, InsertJobFails, LoadConnections, ExtractDocs,
         ExtractFails, RejectAccount, SyncGitHub, CheckCommit, SyncGitHubSucceeds,
         SyncGitHubFails, EndExtraction, SubmitImport, SubmitFails, PollSeesCompletion,
         PollGivesUp, PollSeesAbort, FailJob, ReleaseFailed, IndexRejects,
         CheckComplete, CompleteJob, AbortLockLost
  <2> QED
    BY <2>1, <2>2, <2>3 DEF Next
<1> QED
  BY <1>2, <1>3, <1>4, <1>5

-----------------------------------------------------------------------------
\* The invariant and what follows from it.

\* The lock keeps its type: the cycle only follows it.
LEMMA NextCycleInv == CycleInv /\ [Next]_vars => CycleInv'
<1> SUFFICES ASSUME CycleInv, [Next]_vars PROVE CycleInv'
  OBVIOUS
<1>1. LockTypeOK'
  BY StepFollowsLock, LockTypeStep DEF CycleInv, TypeOK
<1>2. (WorkTypeOK /\ RowTypeOK /\ WorldTypeOK)'
  BY FlatTypes
<1>3. (\A w \in Worker : WorkerInv(w))'
  BY WorkersKeep
<1>4. NothingLost'
  BY NothingGetsLost
<1> QED
  BY <1>1, <1>2, <1>3, <1>4 DEF CycleInv, TypeOK, WorkerInv

LEMMA CycleInvariant == Spec => []CycleInv
  BY InitCycleInv, NextCycleInv, PTL DEF Spec

\* Every variable keeps its type, and what a worker carries stays about
\* connections it selected.
THEOREM CycleTypeCorrect == Spec => []TypeOK
<1>1. CycleInv => TypeOK
  BY DEF CycleInv
<1> QED
  BY <1>1, CycleInvariant, PTL

\* Whatever cycles are aborted, race, die or fail, and however users connect,
\* disconnect and edit meanwhile: what a cursor covers, and what was on a
\* removed archive, is in gbrain.
THEOREM NothingIsLost == Spec => []NothingLost
<1>1. CycleInv => NothingLost
  BY DEF CycleInv
<1> QED
  BY <1>1, CycleInvariant, PTL

\* A worker that has lost the lock is not sent to another cursor update, nor to
\* the statement that completes its job.
THEOREM StaleWriterIsStopped == Spec => StaleWriterStops
<1> DEFINE Stops == \A w \in Worker : At(w, "commit") /\ ~Holds(w) =>
                      pc'[w] \in {"commit", "abort", "thrown", "dead"}
<1>1. CycleInv /\ MatchesIsHolds /\ [Next]_vars => [Stops]_vars
  <2> SUFFICES ASSUME CycleInv, MatchesIsHolds, Next, NEW w \in Worker, At(w, "commit"), ~Holds(w)
               PROVE  pc'[w] \in {"commit", "abort", "thrown", "dead"}
    OBVIOUS
  <2> USE DEF At
  <2>1. ~Matches(w)
    BY DEF MatchesIsHolds
  <2>2. CASE UNCHANGED pc
    BY <2>2
  <2>3. ASSUME NEW v \in Worker, v # w,
               \/ Start(v) \/ Proceed(v) \/ Heartbeat(v) \/ Throws(v) \/ Die(v)
               \/ ImportCompletes(v) \/ ImportFails(v)
        PROVE  pc'[w] = pc[w]
    BY <2>3, StepIsOwn DEF CycleInv, OthersKeep
  <2>4. CASE Start(w) \/ Heartbeat(w) \/ Throws(w) \/ Die(w) \/ ImportCompletes(w) \/ ImportFails(w)
    BY <2>4 DEF CycleInv, TypeOK, WorkTypeOK, Go, Leave, workVars, Start, Heartbeat,
         HeartbeatFires, HeartbeatComesBack, HeartbeatMisses, HeartbeatFails, Throws, Die,
         ImportCompletes, ImportFails
  <2>5. ASSUME NEW k \in Conn, CheckCommit(w, k) PROVE pc'[w] = "abort"
    BY <2>1, <2>5 DEF CycleInv, TypeOK, WorkTypeOK, CheckCommit, CheckOwned, Go
  <2>6. CASE CheckComplete(w)
    BY <2>1, <2>6 DEF CycleInv, TypeOK, WorkTypeOK, CheckComplete, CheckOwned, Go
  <2>7. CASE Proceed(w)
    BY <2>5, <2>6, <2>7 DEF Proceed, InsertJob, InsertJobFails, LoadConnections,
         Extracting, ExtractDocs, ExtractFails, RejectAccount, SyncGitHub,
         SyncGitHubSucceeds, SyncGitHubFails, EndExtraction, SubmitImport, SubmitFails,
         PollSeesCompletion, PollGivesUp, PollSeesAbort, FailJob, ReleaseFailed,
         CommitCursor, IndexRejects, CompleteJob, ReleaseCompleted, AbortLockLost
  <2>8. UNCHANGED pc \/ \E v \in Worker : \/ Start(v) \/ Proceed(v) \/ Heartbeat(v)
                                          \/ Throws(v) \/ Die(v) \/ ImportCompletes(v) \/ ImportFails(v)
    BY DEF Next, Connect, Disconnect, Edit, ClockTicks, SchedulerReclaims, workVars
  <2> QED
    BY <2>2, <2>3, <2>4, <2>7, <2>8
<1> QED
  BY <1>1, CycleInvariant, CycleFollowsLock, OwnedMeansHeld, PTL DEF Spec, StaleWriterStops

-----------------------------------------------------------------------------
\* IngestCycle implements SourceMirror.

\* Cursors, documents under way and gbrain's copy are of versions the source has had.
Sourced ==
  /\ \A k \in Conn : cursor[k] <= head[k] /\ imported[k] \subseteq 1..head[k]
  /\ \A w \in Worker : /\ \A k \in DOMAIN got[w] : got[w][k] <= head[k]
                       /\ \A k \in Conn : staged[w][k] \subseteq 1..head[k]

LEMMA InitSourced == Init => Sourced
BY EmptyMap DEF Init, Sourced

LEMMA NextSourced ==
  ASSUME CycleInv, Sourced, [Next]_vars PROVE Sourced'
<1> USE DEF workVars, connVars, worldVars
<1>t. /\ TypeOK /\ WorkTypeOK /\ RowTypeOK /\ WorldTypeOK
      /\ \A w \in Worker : WorkerInv(w) /\ LocalTypeOK(w)
      /\ \A k \in Conn : head[k] \in Nat
  BY DEF CycleInv, TypeOK, WorkerInv, WorldTypeOK
<1>1. CASE UNCHANGED <<cursor, got, imported, staged, head>>
  BY <1>1 DEF Sourced
<1>2. ASSUME NEW w \in Worker, got' = [got EXCEPT ![w] = <<>>],
             UNCHANGED <<cursor, imported, staged, head>>
      PROVE  Sourced'
  <2>1. \A v \in Worker : got'[v] = got[v] \/ got'[v] = <<>>
    BY <1>2, <1>t DEF WorkTypeOK
  <2> QED
    BY <1>2, <2>1, EmptyMap DEF Sourced
<1>3. ASSUME NEW k \in Conn, Edit(k) PROVE Sourced'
  <2>1. /\ \A j \in Conn : head'[j] \in Nat /\ head[j] <= head'[j]
        /\ UNCHANGED <<cursor, got, imported, staged>>
    BY <1>3, <1>t DEF Edit, WorldTypeOK
  <2>2. \A j \in Conn : 1..head[j] \subseteq 1..head'[j] /\ cursor[j] \in Nat
    BY <2>1, <1>t DEF RowTypeOK
  <2>3. \A v \in Worker : \A j \in DOMAIN got[v] : j \in Conn /\ got[v][j] \in Nat
    BY <1>t DEF LocalTypeOK
  <2>4. \A j \in Conn : cursor'[j] <= head'[j] /\ imported'[j] \subseteq 1..head'[j]
    BY <2>1, <2>2, <1>t DEF Sourced
  <2>5. ASSUME NEW v \in Worker
        PROVE  /\ \A j \in DOMAIN got'[v] : got'[v][j] <= head'[j]
               /\ \A j \in Conn : staged'[v][j] \subseteq 1..head'[j]
    BY <2>1, <2>2, <2>3, <1>t DEF Sourced
  <2> QED
    BY <2>4, <2>5 DEF Sourced
<1>4. ASSUME NEW w \in Worker, NEW k \in Conn,
             got' = [got EXCEPT ![w] = [j \in DOMAIN got[w] \cup {k} |->
                                  IF j = k THEN head[k] ELSE got[w][j]]],
             imported' = imported \/ imported' = [imported EXCEPT ![k] = @ \cup 1..head[k]],
             UNCHANGED <<cursor, staged, head>>
      PROVE  Sourced'
  <2>1. \A v \in Worker : \A j \in DOMAIN got'[v] :
          \/ j = k /\ got'[v][j] = head[k]
          \/ j \in DOMAIN got[v] /\ got'[v][j] = got[v][j]
    BY <1>4, <1>t DEF WorkTypeOK
  <2>2. \A v \in Worker : \A j \in DOMAIN got'[v] : got'[v][j] <= head'[j]
    BY <1>4, <2>1, <1>t DEF Sourced
  <2>3. \A j \in Conn : imported'[j] \subseteq imported[j] \cup 1..head[j]
    BY <1>4, <1>t DEF WorldTypeOK
  <2> QED
    BY <1>4, <2>2, <2>3 DEF Sourced
<1>5. ASSUME NEW w \in Worker, SubmitImport(w) PROVE Sourced'
  <2>1. UNCHANGED <<cursor, got, imported, head>> /\ staged' = [staged EXCEPT ![w] = Merged(w)]
    BY <1>5 DEF SubmitImport
  <2>2. ASSUME NEW k \in Conn, NEW v \in Merged(w)[k] PROVE v \in 1..head[k]
    <3>1. k \in DOMAIN got[w] /\ v \in Version /\ v <= got[w][k]
      BY <2>2 DEF Merged, WithDocs
    <3> QED
      BY <3>1, <1>t DEF Sourced, Version, LocalTypeOK
  <2>3. \A v \in Worker : staged'[v] = staged[v] \/ staged'[v] = Merged(w)
    BY <2>1, <1>t DEF WorldTypeOK
  <2> QED
    BY <2>1, <2>2, <2>3 DEF Sourced
<1>6. ASSUME NEW w \in Worker, ImportCompletes(w) \/ ImportFails(w) PROVE Sourced'
  <2>1. /\ UNCHANGED <<cursor, got, head>> /\ staged' = [staged EXCEPT ![w] = [k \in Conn |-> {}]]
        /\ \A k \in Conn : imported'[k] \subseteq imported[k] \cup staged[w][k]
    BY <1>6 DEF ImportCompletes, ImportFails
  <2>2. \A v \in Worker : \A k \in Conn : staged'[v][k] \subseteq staged[v][k]
    BY <2>1, <1>t DEF WorldTypeOK
  <2> QED
    BY <2>1, <2>2 DEF Sourced
<1>7. ASSUME NEW w \in Worker, CommitCursor(w) PROVE Sourced'
  <2>1. cursor' = [cursor EXCEPT ![cur[w]] = got[w][cur[w]]] /\ UNCHANGED <<got, imported, staged, head>>
    BY <1>7 DEF CommitCursor
  <2>2. cur[w] \in DOMAIN got[w] /\ cur[w] \in Conn
    BY <1>7, <1>t DEF WorkerInv, TargetsAreRight, CommitCursor, At, LocalTypeOK
  <2> QED
    BY <2>1, <2>2, <1>t DEF Sourced, RowTypeOK
<1>8. CASE UNCHANGED vars \/ ClockTicks \/ SchedulerReclaims \/ \E k \in Conn : Connect(k) \/ Disconnect(k)
  BY <1>1, <1>8 DEF vars, ClockTicks, SchedulerReclaims, Connect, Disconnect
<1>9. ASSUME NEW w \in Worker, Start(w) \/ Heartbeat(w) PROVE Sourced'
  BY <1>1, <1>9 DEF Start, Heartbeat, HeartbeatFires, HeartbeatComesBack, HeartbeatMisses, HeartbeatFails
<1>10. ASSUME NEW w \in Worker, Throws(w) \/ Die(w) PROVE Sourced'
  BY <1>2, <1>10 DEF Throws, Die, Leave
<1>11. ASSUME NEW w \in Worker, Proceed(w) PROVE Sourced'
  <2>1. CASE \/ InsertJobFails(w) \/ ReleaseFailed(w) \/ ReleaseCompleted(w)
             \/ IndexRejects(w) \/ AbortLockLost(w)
    BY <1>2, <2>1 DEF InsertJobFails, ReleaseFailed, ReleaseCompleted, IndexRejects,
       AbortLockLost, Leave
  <2>2. CASE \/ InsertJob(w) \/ LoadConnections(w) \/ SyncGitHubFails(w) \/ EndExtraction(w)
             \/ SubmitFails(w) \/ PollSeesCompletion(w) \/ PollGivesUp(w) \/ PollSeesAbort(w)
             \/ FailJob(w) \/ CheckComplete(w) \/ CompleteJob(w)
             \/ \E k \in Conn : ExtractFails(w, k) \/ RejectAccount(w, k) \/ SyncGitHub(w, k)
                                \/ CheckCommit(w, k)
    BY <1>1, <2>2 DEF InsertJob, LoadConnections, SyncGitHubFails, EndExtraction, SubmitFails,
       PollSeesCompletion, PollGivesUp, PollSeesAbort, FailJob, CheckComplete, CompleteJob,
       ExtractFails, RejectAccount, SyncGitHub, CheckCommit
  <2>3. ASSUME NEW k \in Conn, ExtractDocs(w, k) PROVE Sourced'
    BY <1>4, <2>3 DEF ExtractDocs
  <2>4. CASE SyncGitHubSucceeds(w)
    <3>1. cur[w] \in Conn
      BY <2>4, <1>t DEF SyncGitHubSucceeds, At, WorkerInv, TargetsAreRight, LocalTypeOK
    <3> QED
      BY <1>4, <2>4, <3>1 DEF SyncGitHubSucceeds
  <2> QED
    BY <1>5, <1>7, <1>11, <2>1, <2>2, <2>3, <2>4 DEF Proceed
<1> QED
  BY <1>3, <1>6, <1>8, <1>9, <1>10, <1>11 DEF Next

NotOwedIsImported == \A k \in Conn \ Owed : 1..head[k] \subseteq imported[k]

LEMMA NothingElseIsOwed == CycleInv => NotOwedIsImported
<1> SUFFICES ASSUME CycleInv, NEW k \in Conn \ Owed PROVE 1..head[k] \subseteq imported[k]
  BY DEF NotOwedIsImported
<1>1. head[k] \in Nat /\ cursor[k] \in Nat /\ NothingLost
  BY DEF CycleInv, TypeOK, WorldTypeOK, RowTypeOK
<1>2. CASE k \in Zip \ zips
  BY <1>1, <1>2 DEF NothingLost
<1>3. CASE head[k] <= cursor[k]
  BY <1>1, <1>3 DEF NothingLost
<1> QED
  BY <1>1, <1>2, <1>3 DEF Owed

LEMMA InitMirrors == ASSUME Init PROVE Mirror!Init
<1>1. CycleInv /\ Sourced
  BY InitCycleInv, InitSourced
<1>2. [k \in Conn |-> 1..head[k]] \in [Conn -> SUBSET Version]
  <2>1. \A k \in Conn : head[k] \in 0..MaxHead
    BY <1>1 DEF CycleInv, TypeOK, WorldTypeOK
  <2>2. \A k \in Conn : 1..head[k] \subseteq Version
    BY <2>1, CycleBounds DEF Version
  <2> QED
    BY <2>2
<1>3. imported \in [Conn -> SUBSET Version] /\ Owed \subseteq Conn
  BY <1>1 DEF CycleInv, TypeOK, WorldTypeOK, Owed
<1> QED
  BY <1>1, <1>2, <1>3, NothingElseIsOwed DEF NotOwedIsImported, Mirror!Init, Mirror!UpToDate, Sourced

LEMMA EditMirrors ==
  ASSUME CycleInv, Sourced, NEW k \in Conn, Edit(k) PROVE Mirror!Write(k)
<1> DEFINE content == [j \in Conn |-> 1..head[j]]
<1>1. /\ head[k] \in 0..MaxHead /\ head[k] < MaxHead /\ head' = [head EXCEPT ![k] = @ + 1]
      /\ head \in [Conn -> 0..MaxHead] /\ k \notin Zip /\ cursor[k] \in Nat
      /\ UNCHANGED <<imported, cursor, zips>>
  BY DEF Edit, CycleInv, TypeOK, WorldTypeOK, RowTypeOK, connVars
<1>2. head[k] + 1 \in Version \ content[k]
  <2>1. head[k] + 1 \in 1..MaxHead /\ head[k] + 1 \notin 1..head[k]
    BY <1>1, CycleBounds
  <2> QED
    BY <2>1 DEF Version
<1>3. content' = [content EXCEPT ![k] = @ \cup {head[k] + 1}]
  <2>1. head'[k] = head[k] + 1 /\ \A j \in Conn \ {k} : head'[j] = head[j]
    BY <1>1
  <2>2. 1..(head[k] + 1) = 1..head[k] \cup {head[k] + 1}
    BY <1>1
  <2> QED
    BY <2>1, <2>2
<1>4. Owed \cup {k} \subseteq Owed'
  <2>1. cursor[k] < head[k] + 1
    BY <1>1 DEF Sourced
  <2>2. head'[k] = head[k] + 1 /\ \A j \in Conn \ {k} : head'[j] = head[j]
    BY <1>1
  <2> QED
    BY <1>1, <2>1, <2>2 DEF Owed
<1>5. Owed' \subseteq Conn
  BY DEF Owed
<1> QED
  BY <1>1, <1>2, <1>3, <1>4, <1>5 DEF Mirror!Write

LEMMA ImportMirrors ==
  ASSUME CycleInv, CycleInv', Sourced, Sourced', [Next]_vars, UNCHANGED <<head, cursor, zips>>
  PROVE  Mirror!Import
<1>1. \A k \in Conn : imported[k] \subseteq imported'[k]
  BY StepGrows DEF CycleInv, Grows
<1>2. imported' \in [Conn -> SUBSET Version] /\ Owed' = Owed
  BY DEF CycleInv, TypeOK, WorldTypeOK, Owed
<1>3. [k \in Conn |-> 1..head[k]]' = [k \in Conn |-> 1..head[k]]
  OBVIOUS
<1> QED
  BY <1>1, <1>2, <1>3 DEF Mirror!Import, Sourced

LEMMA SettleMirrors ==
  ASSUME CycleInv', UNCHANGED <<head, imported>> PROVE Mirror!Settle
<1>1. Owed' \subseteq Conn
  BY DEF Owed
<1>2. NotOwedIsImported'
  BY NothingElseIsOwed, PTL
<1> QED
  BY <1>1, <1>2 DEF NotOwedIsImported, Mirror!Settle, Mirror!UpToDate

\* What sources contain, what gbrain has of them and what is owed changes in steps of
\* the abstract mirror: users write, gbrain takes, a cursor or an archive settles.
THEOREM CycleMirrors == Spec => ImplementsMirror
<1>1. CycleInv /\ CycleInv' /\ Sourced /\ Sourced' /\ [Next]_vars => [Mirror!Next]_(Mirror!mirrorVars)
  <2> SUFFICES ASSUME CycleInv, CycleInv', Sourced, Sourced', [Next]_vars
               PROVE  Mirror!Next
    OBVIOUS
  <2>1. \/ \E k \in Conn : Edit(k)
        \/ UNCHANGED <<head, cursor, zips>>
        \/ UNCHANGED <<head, imported>>
    <3> USE DEF workVars, connVars, worldVars
    <3>1. CASE UNCHANGED vars \/ ClockTicks \/ SchedulerReclaims
               \/ \E k \in Conn : Connect(k) \/ Disconnect(k)
      BY <3>1 DEF vars, ClockTicks, SchedulerReclaims, Connect, Disconnect
    <3>2. ASSUME NEW w \in Worker, Start(w) \/ Heartbeat(w) \/ Throws(w) \/ Die(w)
                                   \/ ImportCompletes(w) \/ ImportFails(w)
          PROVE  UNCHANGED <<head, cursor, zips>>
      BY <3>2 DEF Start, Heartbeat, HeartbeatFires, HeartbeatComesBack, HeartbeatMisses,
           HeartbeatFails, Throws, Die, ImportCompletes, ImportFails
    <3>3. ASSUME NEW w \in Worker, Proceed(w)
          PROVE  UNCHANGED <<head, cursor, zips>> \/ UNCHANGED <<head, imported>>
      BY <3>3 DEF Proceed, InsertJob, InsertJobFails, LoadConnections, ExtractDocs,
         ExtractFails, RejectAccount, SyncGitHub, CheckCommit, SyncGitHubSucceeds,
         SyncGitHubFails, EndExtraction, SubmitImport, SubmitFails, PollSeesCompletion,
         PollGivesUp, PollSeesAbort, FailJob, ReleaseFailed, IndexRejects,
         CheckComplete, CompleteJob, AbortLockLost, CommitCursor, ReleaseCompleted
    <3> QED
      BY <3>1, <3>2, <3>3 DEF Next
  <2> QED
    BY <2>1, EditMirrors, ImportMirrors, SettleMirrors DEF Mirror!Next
<1>2. Spec => []Sourced
  BY InitSourced, NextSourced, CycleInvariant, PTL DEF Spec
<1>3. Init => Mirror!Init
  BY InitMirrors
<1> QED
  BY <1>1, <1>2, <1>3, CycleInvariant, PTL DEF Spec, ImplementsMirror, Mirror!Spec

-----------------------------------------------------------------------------
\* The scheduler.

SchedulerInv == SchedulerTypeOK /\ SlotsMatchLeases

LEMMA SchedulerStarts == SchedulerInit => SchedulerInv
BY SchedulerConstants DEF SchedulerInit, SchedulerInv, SchedulerTypeOK, SlotsMatchLeases

\* The environment of the scheduler, and the process as a whole.
LEMMA ProcessKeepsSlots ==
  ASSUME SchedulerInv,
         \/ Stop \/ StopReturns \/ Exit \/ Crash \/ Boot
         \/ \E w \in Workspace : BecomesDue(w) \/ LockExpires(w) \/ Lapses(w)
  PROVE  SchedulerInv'
<1> USE SchedulerConstants DEF SchedulerInv, SchedulerTypeOK, SlotsMatchLeases, cycleVars
<1>1. ASSUME NEW w \in Workspace, BecomesDue(w) PROVE SchedulerInv'
  BY <1>1 DEF BecomesDue
<1>2. ASSUME NEW w \in Workspace, LockExpires(w) \/ Lapses(w) PROVE SchedulerInv'
  BY <1>2 DEF LockExpires, Lapses
<1>3. CASE Stop \/ StopReturns
  BY <1>3 DEF Stop, StopReturns
<1>4. CASE Dies /\ outages' \in 0..MaxOutages
  BY <1>4 DEF Dies
<1>5. CASE Boot
  BY <1>5 DEF Boot
<1> QED
  BY <1>1, <1>2, <1>3, <1>4, <1>5 DEF Exit, Crash

\* The tick and the kicks only take slots.
LEMMA TickKeepsSlots ==
  ASSUME SchedulerInv, Query \/ QueryFails \/ Loop \/ \E w \in Workspace : Kick(w) \/ LateKick(w)
  PROVE  SchedulerInv'
<1> USE SchedulerConstants DEF SchedulerInv, SchedulerTypeOK, SlotsMatchLeases, cycleVars
<1>1. CASE Query
  BY <1>1 DEF Query
<1>2. CASE QueryFails
  BY <1>2 DEF QueryFails
<1>3. CASE Loop
  <2>1. inFlight \subseteq inFlight' /\ inFlight' \subseteq Workspace
    BY <1>3 DEF Loop, Starts
  <2> QED
    BY <1>3, <2>1 DEF Loop
<1>4. ASSUME NEW w \in Workspace, Kick(w) \/ LateKick(w) PROVE SchedulerInv'
  BY <1>4 DEF Kick, LateKick
<1> QED
  BY <1>1, <1>2, <1>3, <1>4

\* Cycles: a slot is given back at the end of the cycle, or by one that was refused.
LEMMA CyclesKeepSlots ==
  ASSUME SchedulerInv, NEW w \in Workspace,
         Acquire(w) \/ CycleEnds(w) \/ SyncNow(w) \/ ManualCycleEnds(w)
  PROVE  SchedulerInv'
<1> USE DEF SchedulerInv, SchedulerTypeOK, SlotsMatchLeases
<1>1. CASE Acquire(w)
  BY <1>1 DEF Acquire
<1>2. CASE CycleEnds(w)
  <2>1. /\ \A v \in Workspace \ {w} : lock'[v] = lock[v]
        /\ lock' \in [Workspace -> {"free", "scheduled", "manual", "left"}]
        /\ lock'[w] # "scheduled"
        /\ process = "down" => lock'[w] # "manual"
    BY <1>2 DEF CycleEnds, Releases
  <2>2. due' \in [Workspace -> BOOLEAN]
    BY <1>2 DEF CycleEnds, Leaves
  <2> QED
    BY <1>2, <2>1, <2>2 DEF CycleEnds
<1>3. CASE SyncNow(w)
  BY <1>3 DEF SyncNow
<1>4. CASE ManualCycleEnds(w)
  <2>1. /\ \A v \in Workspace \ {w} : lock'[v] = lock[v]
        /\ lock' \in [Workspace -> {"free", "scheduled", "manual", "left"}]
        /\ lock'[w] \in {"free", "left"}
    BY <1>4 DEF ManualCycleEnds, Releases
  <2>2. due' \in [Workspace -> BOOLEAN]
    BY <1>4 DEF ManualCycleEnds, Leaves
  <2> QED
    BY <1>4, <2>1, <2>2 DEF ManualCycleEnds
<1> QED
  BY <1>1, <1>2, <1>3, <1>4

LEMMA SchedulerGoesOn == SchedulerInv /\ [SchedulerNext]_schedulerVars => SchedulerInv'
<1> SUFFICES ASSUME SchedulerInv, [SchedulerNext]_schedulerVars PROVE SchedulerInv'
  OBVIOUS
<1>1. CASE UNCHANGED schedulerVars
  BY <1>1 DEF SchedulerInv, SchedulerTypeOK, SlotsMatchLeases, schedulerVars, cycleVars
<1>2. ASSUME NEW w \in Workspace, Acquire(w) \/ CycleEnds(w) \/ SyncNow(w) \/ ManualCycleEnds(w)
      PROVE  SchedulerInv'
  BY <1>2, CyclesKeepSlots
<1>3. CASE \/ Stop \/ StopReturns \/ Exit \/ Crash \/ Boot
           \/ \E w \in Workspace : BecomesDue(w) \/ LockExpires(w) \/ Lapses(w)
  BY <1>3, ProcessKeepsSlots
<1>4. CASE Query \/ QueryFails \/ Loop \/ \E w \in Workspace : Kick(w) \/ LateKick(w)
  BY <1>4, TickKeepsSlots
<1> QED
  BY <1>1, <1>2, <1>3, <1>4 DEF SchedulerNext

LEMMA SchedulerIsInductive == SchedulerSpec => []SchedulerInv
BY SchedulerStarts, SchedulerGoesOn, PTL DEF SchedulerSpec

\* What the scheduler remembers and reads keeps its type.
THEOREM SchedulerTypeCorrect == SchedulerSpec => []SchedulerTypeOK
<1>1. SchedulerInv => SchedulerTypeOK
  BY DEF SchedulerInv
<1> QED
  BY <1>1, SchedulerIsInductive, PTL

\* A workspace with a running cycle of the scheduler is in inFlight, also when the cycle
\* has lost its lease, so that no tick and no kick starts a second cycle next to the
\* first; the leases of the scheduler are its running cycles', and the lease that a missed
\* or skipped release leaves in the row is not among them.
THEOREM LeasesHaveSlots == SchedulerSpec => []SlotsMatchLeases
<1>1. SchedulerInv => SlotsMatchLeases
  BY DEF SchedulerInv
<1> QED
  BY <1>1, SchedulerIsInductive, PTL

\* stop() returns only when the cycles of the scheduler are over, and what is in flight
\* after that has been kicked late.
THEOREM StopWaitsForCycles == SchedulerSpec => StopWaits
<1>1. SchedulerInv /\ [SchedulerNext]_schedulerVars => [StopIsClean]_schedulerVars
  <2> SUFFICES ASSUME SchedulerInv, SchedulerNext PROVE StopIsClean
    OBVIOUS
  <2> USE DEF SchedulerInv, SchedulerTypeOK, SlotsMatchLeases, cycleVars
  <2>1. CASE StopReturns
    BY <2>1 DEF StopReturns, StopIsClean
  <2>2. ASSUME NEW w \in Workspace, LateKick(w) PROVE StopIsClean
    BY <2>2 DEF LateKick, StopIsClean
  <2>3. CASE Query \/ QueryFails \/ Loop \/ Stop \/ Exit \/ Crash \/ Boot
    BY <2>3 DEF Query, QueryFails, Loop, Stop, Exit, Crash, Dies, Boot, StopIsClean
  <2>4. ASSUME NEW w \in Workspace,
               \/ BecomesDue(w) \/ LockExpires(w) \/ Lapses(w) \/ Kick(w) \/ Acquire(w)
               \/ CycleEnds(w) \/ SyncNow(w) \/ ManualCycleEnds(w)
        PROVE  StopIsClean
    BY <2>4 DEF BecomesDue, LockExpires, Lapses, Kick, Acquire, CycleEnds, SyncNow,
       ManualCycleEnds, StopIsClean
  <2> QED
    BY <2>1, <2>2, <2>3, <2>4 DEF SchedulerNext
<1> QED
  BY <1>1, SchedulerIsInductive, PTL DEF SchedulerSpec, StopWaits

\* The slots that a tick takes are within the cap.
LEMMA LoopKeepsCap ==
  ASSUME SchedulerInv, NEW started \in Starts
  PROVE  started = {} \/ Cardinality(inFlight \cup started) <= Cap
<1> DEFINE waiting == rows \ inFlight
           taken == Cardinality(inFlight)
<1>1. IsFiniteSet(inFlight) /\ IsFiniteSet(waiting) /\ IsFiniteSet(started)
  BY SchedulerConstants, FS_Subset DEF SchedulerInv, SchedulerTypeOK, Starts
<1>2. taken \in Nat /\ Cardinality(waiting) \in Nat /\ Cardinality(started) \in Nat /\ Cap \in Nat
  BY <1>1, FS_CardinalityType, SchedulerConstants
<1>3. Cardinality(inFlight \cup started) <= taken + Cardinality(started)
  <2>1. Cardinality(inFlight \cap started) \in Nat
    BY <1>1, FS_Intersection, FS_CardinalityType
  <2>2. Cardinality(inFlight \cup started)
          = taken + Cardinality(started) - Cardinality(inFlight \cap started)
    BY <1>1, FS_Union
  <2> QED
    BY <1>2, <2>1, <2>2
<1>4. Cardinality(inFlight \cup started) \in Nat
  BY <1>1, FS_Union, FS_CardinalityType
<1> DEFINE slots == IF taken < Cap THEN Cap - taken ELSE 0
<1>5. Cardinality(started)
        = IF Cardinality(waiting) < slots THEN Cardinality(waiting) ELSE slots
  BY DEF Starts
<1>6. CASE taken < Cap
  BY <1>2, <1>3, <1>4, <1>5, <1>6
<1>7. CASE ~(taken < Cap)
  <2>1. Cardinality(started) = 0
    BY <1>2, <1>5, <1>7
  <2> QED
    BY <1>1, <2>1, FS_EmptySet
<1> QED
  BY <1>6, <1>7

\* cycleConcurrency holds for ticks, for any number of workspaces and kicks.
THEOREM CapHoldsForTicks == SchedulerSpec => TicksKeepCap
<1>1. SchedulerInv /\ [SchedulerNext]_schedulerVars => [TickIsCapped]_schedulerVars
  <2> SUFFICES ASSUME SchedulerInv, [SchedulerNext]_schedulerVars,
                      tick = "loop", tick' = "query"
               PROVE  inFlight' \subseteq inFlight \/ Cardinality(inFlight') <= Cap
    BY DEF TickIsCapped
  <2>1. CASE Loop
    <3>1. PICK started \in Starts : inFlight' = inFlight \cup started
      BY <2>1 DEF Loop
    <3> QED
      BY <3>1, LoopKeepsCap
  <2>2. CASE ~Loop
    BY <2>2 DEF SchedulerNext, schedulerVars, cycleVars, Query, QueryFails, BecomesDue,
       LockExpires, Lapses, Kick, LateKick, Acquire, CycleEnds, SyncNow, ManualCycleEnds,
       Stop, StopReturns, Exit, Dies, Crash, Boot
  <2> QED
    BY <2>1, <2>2
<1> QED
  BY <1>1, SchedulerIsInductive, PTL DEF SchedulerSpec, TicksKeepCap
=============================================================================
