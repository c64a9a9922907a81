------------------------- MODULE Provisioning_proofs -------------------------
(***************************************************************************)
(* Proofs about provisioning, for every number of forms, payments, retry   *)
(* buttons, worker slots, attempts and faults, and both providers.         *)
(***************************************************************************)
EXTENDS Provisioning, TLAPS

USE NobodyIsNobody, ProviderIsKnown, AttemptsArePositive, ProvisionBounds

-----------------------------------------------------------------------------
\* The inductive invariant.

\* Only an active job has a holder, and a job still to be run has attempts left.
JobInv ==
  /\ holder # Nobody => jobState = "active"
  /\ jobState \in Live => attemptsMade < MaxAttempts

\* The advisory lock admits one attempt at a time.
OneInLock == \A s, t \in Slot : InLock(s) /\ InLock(t) => s = t

\* An attempt that is past findWorkspaceById and not yet persisted works on a
\* row that is not ready, and only such an attempt touches the runtimes.
NotReadyYet == \A s \in Slot : wpc[s] \in {"create", "verify", "persist"} => status # "ready"
BuiltIsThere == \A s \in Slot : wpc[s] \in {"verify", "persist"} => built[s] \in runtimes

TInv == TypeOK /\ JobInv
LInv == OneInLock /\ NotReadyYet /\ BuiltIsThere /\ ReadyIsServed

LEMMA InitTInv == Init => TInv
<1> SUFFICES ASSUME Init PROVE TInv
  OBVIOUS
<1> USE DEF Init
<1>1. JobInv
  BY DEF JobInv, Live
<1>2. status \in Status /\ plan \in {"free", "paid"} /\ secret \in Runtime \cup {Nobody}
      /\ paid \in BOOLEAN /\ overtaken \in BOOLEAN
  BY DEF Status
<1>3. attemptsMade \in 0..MaxAttempts /\ retries \in 0..MaxRetries /\ faults \in 0..MaxFaults
  OBVIOUS
<1> QED
  BY <1>1, <1>2, <1>3 DEF TInv, TypeOK, Live

LEMMA NextTInv == TInv /\ [Next]_vars => TInv'
<1> SUFFICES ASSUME TInv, [Next]_vars PROVE TInv'
  OBVIOUS
<1> USE DEF TInv, JobInv, TypeOK, Live, Status, rowVars, jobVars, slotVars
<1>1. CASE UNCHANGED vars
  BY <1>1 DEF vars
<1>2. ASSUME NEW r \in Request, Enqueue(r) \/ AddJob(r) PROVE TInv'
  <2>1. CASE jobState = "none"
    <3>1. manualRetry' \in BOOLEAN /\ rpc' = [rpc EXCEPT ![r] = "idle"]
      BY <1>2, <2>1 DEF Enqueue, AddJob, GoReq
    <3>2. UNCHANGED <<rowVars, slotVars, runtimes, retries, faults, holder>>
          /\ jobState' = "waiting" /\ attemptsMade' = 0
      BY <1>2, <2>1 DEF Enqueue, AddJob
    <3> QED
      BY <2>1, <3>1, <3>2
  <2>2. CASE jobState # "none"
    BY <1>2, <2>2 DEF Enqueue, AddJob, GoReq
  <2> QED
    BY <2>1, <2>2
<1>3. ASSUME NEW r \in Request, RemoveJob(r) PROVE TInv'
  BY <1>3 DEF RemoveJob, GoReq
<1>4. ASSUME NEW r \in Request, NEW p \in {"free", "paid"},
             CreateWorkspace(r, p) \/ ChangePlan(r, p)
      PROVE  TInv'
  BY <1>4 DEF CreateWorkspace, ChangePlan, GoReq
<1>5. ASSUME NEW r \in Request, ReadUnpaid(r) \/ SubscriptionSynced(r) \/ CheckUnpaid(r)
                                \/ StartProvisioning(r) \/ MarkProvisioning(r)
      PROVE  TInv'
  BY <1>5 DEF ReadUnpaid, SubscriptionSynced, CheckUnpaid, StartProvisioning,
       MarkProvisioning, GoReq
<1>6. ASSUME NEW r \in Request, RetryRequested(r) \/ RequestDies(r) PROVE TInv'
  BY <1>6 DEF RetryRequested, RequestDies, GoReq
<1>7. ASSUME NEW s \in Slot, TakeJob(s) \/ ResetRow(s) \/ EnterLock(s) \/ FindWorkspace(s)
      PROVE  TInv'
  BY <1>7 DEF TakeJob, ResetRow, EnterLock, FindWorkspace, Go
<1>8. ASSUME NEW s \in Slot, CreateRuntime(s) \/ CreateFails(s) PROVE TInv'
  BY <1>8 DEF CreateRuntime, CreateFails, KeptRuntimes, Unused, Go
<1>9. ASSUME NEW s \in Slot, VerifyRuntime(s) \/ Persist(s) \/ LeaveLock(s) PROVE TInv'
  BY <1>9 DEF VerifyRuntime, Persist, LeaveLock, Go
<1>10. ASSUME NEW s \in Slot, ReportDone(s) PROVE TInv'
  BY <1>10 DEF ReportDone, Go
<1>11. ASSUME NEW s \in Slot, ReportFailed(s) PROVE TInv'
  <2>1. CASE holder # s
    BY <1>11, <2>1 DEF ReportFailed, Go
  <2>2. CASE holder = s /\ attemptsMade + 1 < MaxAttempts
    BY <1>11, <2>2 DEF ReportFailed, Go
  <2>3. CASE holder = s /\ ~(attemptsMade + 1 < MaxAttempts)
    BY <1>11, <2>3 DEF ReportFailed, Go
  <2> QED
    BY <2>1, <2>2, <2>3
<1>12. ASSUME NEW s \in Slot, MarkFailed(s) \/ SlotDies(s) PROVE TInv'
  BY <1>12 DEF MarkFailed, SlotDies, Go
<1>13. ASSUME NEW s \in Slot, JobLockExpires(s) \/ CommitFails(s) PROVE TInv'
  BY <1>13 DEF JobLockExpires, CommitFails, Go
<1>14. CASE RecoverStalledJob \/ BackoffEnds
  BY <1>14 DEF RecoverStalledJob, BackoffEnds
<1> QED
  BY <1>1, <1>2, <1>3, <1>4, <1>5, <1>6, <1>7, <1>8, <1>9, <1>10, <1>11, <1>12, <1>13, <1>14
  DEF Next, Arrive, Serve, Attempt, Fault, Request

\* A slot is at a statement it has, the secrets are those of a runtime, and a
\* job is retried only while attempts are left.
THEOREM ProvisioningTypeCorrect == Spec => []TypeOK
<1>1. TInv => TypeOK
  BY DEF TInv
<1> QED
  BY <1>1, InitTInv, NextTInv, PTL DEF Spec

-----------------------------------------------------------------------------
\* The runtime behind a ready row.

\* Steps outside the lock, none of which makes a row ready.
LEMMA OutsideSteps ==
  ASSUME LInv, UNCHANGED <<secret, runtimes>>, status' = status \/ status' # "ready",
         \A s \in Slot : InLock(s)' => wpc'[s] = wpc[s] /\ built'[s] = built[s]
  PROVE  LInv'
BY DEF LInv, OneInLock, NotReadyYet, BuiltIsThere, ReadyIsServed, InLock

LEMMA NextLInv == TypeOK /\ LInv /\ [Next]_vars => LInv'
<1> SUFFICES ASSUME TypeOK, LInv, [Next]_vars PROVE LInv'
  OBVIOUS
<1> DEFINE Outside == /\ UNCHANGED <<secret, runtimes>>
                      /\ status' = status \/ status' # "ready"
                      /\ \A t \in Slot : InLock(t)' => wpc'[t] = wpc[t] /\ built'[t] = built[t]
<1> USE DEF At, Go
<1>1. CASE UNCHANGED vars \/ RecoverStalledJob \/ BackoffEnds
  <2>1. Outside
    BY <1>1 DEF vars, rowVars, slotVars, RecoverStalledJob, BackoffEnds, InLock
  <2> QED
    BY <2>1, OutsideSteps
<1>2. CASE Arrive \/ \E r \in Request : Serve(r) \/ RequestDies(r)
  <2>1. Outside
    BY <1>2 DEF Arrive, Serve, RequestDies, Enqueue, AddJob, RemoveJob, CreateWorkspace,
         ChangePlan, ReadUnpaid, SubscriptionSynced, CheckUnpaid, StartProvisioning,
         MarkProvisioning, RetryRequested, rowVars, slotVars, InLock
  <2> QED
    BY <2>1, OutsideSteps
<1>3. ASSUME NEW s \in Slot, \/ TakeJob(s) \/ ResetRow(s) \/ LeaveLock(s) \/ ReportDone(s)
                             \/ ReportFailed(s) \/ MarkFailed(s) \/ SlotDies(s)
                             \/ JobLockExpires(s) \/ CommitFails(s)
      PROVE  LInv'
  <2>1. Outside
    BY <1>3 DEF TypeOK, TakeJob, ResetRow, LeaveLock, ReportDone, ReportFailed, MarkFailed,
         SlotDies, JobLockExpires, CommitFails, rowVars, slotVars, InLock
  <2> QED
    BY <2>1, OutsideSteps
<1>4. ASSUME NEW s \in Slot, EnterLock(s) PROVE LInv'
  BY <1>4 DEF TypeOK, EnterLock, rowVars, LInv, OneInLock, NotReadyYet, BuiltIsThere,
       ReadyIsServed, InLock
<1>5. ASSUME NEW s \in Slot, FindWorkspace(s) \/ VerifyRuntime(s) PROVE LInv'
  BY <1>5 DEF TypeOK, FindWorkspace, VerifyRuntime, rowVars, LInv, OneInLock, NotReadyYet,
       BuiltIsThere, ReadyIsServed, InLock
<1>6. ASSUME NEW s \in Slot, CreateRuntime(s) \/ CreateFails(s) PROVE LInv'
  <2>1. status # "ready" /\ status' = status /\ InLock(s)
    BY <1>6 DEF CreateRuntime, CreateFails, rowVars, LInv, NotReadyYet, InLock
  <2>2. \A t \in Slot \ {s} : ~InLock(t) /\ wpc'[t] = wpc[t]
    BY <2>1, <1>6 DEF TypeOK, CreateRuntime, CreateFails, LInv, OneInLock
  <2>3. \/ wpc'[s] = "verify" /\ built'[s] \in runtimes'
        \/ wpc'[s] = "rollback"
    BY <1>6 DEF TypeOK, CreateRuntime, CreateFails
  <2> QED
    BY <2>1, <2>2, <2>3 DEF LInv, OneInLock, NotReadyYet, BuiltIsThere, ReadyIsServed, InLock
<1>7. ASSUME NEW s \in Slot, Persist(s) PROVE LInv'
  <2>1. InLock(s) /\ built[s] \in runtimes /\ secret' = built[s] /\ runtimes' = runtimes
    BY <1>7 DEF Persist, InLock, LInv, BuiltIsThere
  <2>2. \A t \in Slot \ {s} : ~InLock(t) /\ wpc'[t] = wpc[t]
    BY <2>1, <1>7 DEF TypeOK, Persist, LInv, OneInLock
  <2>3. wpc'[s] = "commit"
    BY <1>7 DEF TypeOK, Persist
  <2> QED
    BY <2>1, <2>2, <2>3 DEF LInv, OneInLock, NotReadyYet, BuiltIsThere, ReadyIsServed, InLock
<1> QED
  BY <1>1, <1>2, <1>3, <1>4, <1>5, <1>6, <1>7 DEF Next, Attempt, Fault

\* However attempts stall, overlap, die or repeat, and whatever retries, forms
\* and payments do to the row meanwhile: the secrets of a ready workspace fit a
\* runtime its provider has.
THEOREM ReadyStaysServed == Spec => []ReadyIsServed
<1>1. Init => LInv
  BY DEF Init, LInv, OneInLock, NotReadyYet, BuiltIsThere, ReadyIsServed, InLock
<1>2. LInv => ReadyIsServed
  BY DEF LInv
<1> QED
  BY <1>1, <1>2, NextLInv, ProvisioningTypeCorrect, PTL DEF Spec

-----------------------------------------------------------------------------
\* What a failed row says.

\* As long as nobody has clicked on retry, whoever marks the row has seen the job
\* fail, and a job that has failed stays under the workspace's id.
GivenUp ==
  retries = 0 =>
    /\ \A r \in Request : rpc[r] \notin {"mark", "remove", "add"}
    /\ status = "failed" \/ failing # {} => jobState \in {"completed", "failed"}

LEMMA NextGivenUp == TInv /\ GivenUp /\ [Next]_vars => GivenUp'
<1> SUFFICES ASSUME TInv, GivenUp, [Next]_vars, retries' = 0 PROVE GivenUp'
  BY DEF GivenUp
<1>1. retries = 0
  BY DEF Next, Arrive, Serve, Attempt, Fault, vars, rowVars, slotVars, jobVars, TInv, TypeOK,
     CreateWorkspace, ReadUnpaid, ChangePlan, SubscriptionSynced, CheckUnpaid,
     StartProvisioning, Enqueue, RetryRequested, MarkProvisioning, RemoveJob, AddJob,
     RequestDies, TakeJob, ResetRow, EnterLock, FindWorkspace, CreateRuntime, CreateFails,
     VerifyRuntime, Persist, LeaveLock, CommitFails, ReportDone, ReportFailed, MarkFailed,
     SlotDies, JobLockExpires, RecoverStalledJob, BackoffEnds
<1> USE <1>1 DEF TInv, TypeOK, JobInv, Live, GivenUp, At, Go, AtReq, GoReq
<1>2. CASE UNCHANGED vars \/ RecoverStalledJob \/ BackoffEnds
  BY <1>2 DEF vars, rowVars, slotVars, jobVars, RecoverStalledJob, BackoffEnds
<1>3. ASSUME NEW r \in Request, Enqueue(r) PROVE GivenUp'
  BY <1>3 DEF Enqueue, rowVars, slotVars, jobVars
<1>4. ASSUME NEW r \in Request, NEW p \in {"free", "paid"},
             CreateWorkspace(r, p) \/ ChangePlan(r, p)
      PROVE  GivenUp'
  BY <1>4 DEF CreateWorkspace, ChangePlan, slotVars, jobVars
<1>5. ASSUME NEW r \in Request, \/ ReadUnpaid(r) \/ SubscriptionSynced(r) \/ CheckUnpaid(r)
                                \/ StartProvisioning(r) \/ RequestDies(r)
      PROVE  GivenUp'
  BY <1>5 DEF ReadUnpaid, SubscriptionSynced, CheckUnpaid, StartProvisioning, RequestDies,
     rowVars, slotVars, jobVars
<1>6. ASSUME NEW r \in Request, \/ RetryRequested(r) \/ MarkProvisioning(r) \/ RemoveJob(r)
                                \/ AddJob(r)
      PROVE  FALSE
  BY <1>6 DEF RetryRequested, MarkProvisioning, RemoveJob, AddJob
<1>7. ASSUME NEW s \in Slot, \/ TakeJob(s) \/ ResetRow(s) \/ EnterLock(s) \/ FindWorkspace(s)
                             \/ CreateRuntime(s) \/ CreateFails(s) \/ VerifyRuntime(s)
                             \/ Persist(s) \/ LeaveLock(s) \/ CommitFails(s) \/ JobLockExpires(s)
      PROVE  GivenUp'
  BY <1>7 DEF TakeJob, ResetRow, EnterLock, FindWorkspace, CreateRuntime, CreateFails,
     VerifyRuntime, Persist, LeaveLock, CommitFails, JobLockExpires, rowVars, slotVars, jobVars
<1>8. ASSUME NEW s \in Slot, ReportDone(s) PROVE GivenUp'
  BY <1>8 DEF ReportDone, rowVars
<1>9. ASSUME NEW s \in Slot, ReportFailed(s) PROVE GivenUp'
  BY <1>9, NobodyIsNobody DEF ReportFailed, rowVars
<1>10. ASSUME NEW s \in Slot, MarkFailed(s) \/ SlotDies(s) PROVE GivenUp'
  BY <1>10 DEF MarkFailed, SlotDies, rowVars, jobVars
<1> QED
  BY <1>2, <1>3, <1>4, <1>5, <1>6, <1>7, <1>8, <1>9, <1>10
  DEF Next, Arrive, Serve, Attempt, Fault, Request

\* The row is marked failed only after BullMQ has given up, whatever stalls and
\* dies on the way; a job that is still to be run next to a failed row comes from
\* a retry.
THEOREM FailedMeansGivenUp == Spec => []FailedOnlyWhenGivenUp
<1>1. Init => GivenUp
  BY DEF Init, GivenUp
<1>2. GivenUp /\ TInv => FailedOnlyWhenGivenUp
  BY DEF GivenUp, FailedOnlyWhenGivenUp, Live, TInv, TypeOK
<1> QED
  BY <1>1, <1>2, InitTInv, NextTInv, NextGivenUp, PTL DEF Spec

-----------------------------------------------------------------------------
\* The paid gate.

\* Something has been set going for the workspace.
Started ==
  \/ status \notin {"none", "billing_required"}
  \/ jobState # "none"
  \/ failing # {}
  \/ \E r \in Request : rpc[r] \in {"enqueue", "mark", "remove", "add"}
  \/ \E s \in Slot : wpc[s] # "idle"

\* Whoever acts on a payment has seen it, and only forms change plans.
Seen ==
  /\ \A r \in Request : rpc[r] \in {"check", "cas"} => paid
  /\ \A r \in Request : rpc[r] = "update" => r \in Form /\ status # "none"

\* What was started without a payment was started for the free plan, and a form that
\* changes that overtakes it.
FreeStart ==
  ~paid /\ ~overtaken /\ Started => plan = "free" /\ status \notin {"none", "billing_required"}

LEMMA NextSeen ==
  TypeOK /\ Seen /\ [Next]_vars => Seen' /\ (paid => paid') /\ (overtaken => overtaken')
<1> DEFINE Kept == Seen' /\ (paid => paid') /\ (overtaken => overtaken')
<1> SUFFICES ASSUME TypeOK, Seen, [Next]_vars PROVE Kept
  OBVIOUS
<1> USE DEF TypeOK, Seen, AtReq, GoReq
<1>1. CASE UNCHANGED vars \/ RecoverStalledJob \/ BackoffEnds
  BY <1>1 DEF vars, rowVars, RecoverStalledJob, BackoffEnds
<1>2. ASSUME NEW f \in Form, \/ ReadUnpaid(f)
                             \/ \E p \in {"free", "paid"} : CreateWorkspace(f, p)
      PROVE  Kept
  BY <1>2 DEF ReadUnpaid, CreateWorkspace, rowVars, Request
<1>3. ASSUME NEW r \in Request, SubscriptionSynced(r) \/ RetryRequested(r) \/ RequestDies(r)
      PROVE  Kept
  BY <1>3 DEF SubscriptionSynced, RetryRequested, RequestDies, rowVars
<1>4. ASSUME NEW r \in Request, Serve(r) PROVE Kept
  BY <1>4 DEF Serve, Enqueue, ChangePlan, CheckUnpaid, StartProvisioning, MarkProvisioning,
     RemoveJob, AddJob, rowVars
<1>5. ASSUME NEW s \in Slot, Attempt(s) \/ MarkFailed(s) \/ SlotDies(s) \/ JobLockExpires(s)
                             \/ CommitFails(s)
      PROVE  Kept
  BY <1>5 DEF Attempt, TakeJob, ResetRow, EnterLock, FindWorkspace, CreateRuntime, CreateFails,
     VerifyRuntime, Persist, LeaveLock, ReportDone, ReportFailed, MarkFailed, SlotDies,
     JobLockExpires, CommitFails, rowVars
<1> QED
  BY <1>1, <1>2, <1>3, <1>4, <1>5 DEF Next, Arrive, Fault, Request

\* Only forms act on a row that nothing has been started for.
LEMMA NothingStarts ==
  ASSUME TypeOK, JobInv, Seen, ~paid, ~paid', ~Started, [Next]_vars,
         ~ \E f \in Form, p \in {"free", "paid"} : CreateWorkspace(f, p) \/ ChangePlan(f, p)
  PROVE  ~Started'
<1> USE DEF TypeOK, JobInv, Seen, Started, AtReq, GoReq, At, Go
<1>1. CASE UNCHANGED vars \/ RecoverStalledJob \/ BackoffEnds
  BY <1>1 DEF vars, rowVars, slotVars, jobVars, RecoverStalledJob, BackoffEnds
<1>2. ASSUME NEW r \in Request, ReadUnpaid(r) \/ SubscriptionSynced(r) \/ RetryRequested(r)
                                \/ RequestDies(r)
      PROVE  ~Started'
  BY <1>2 DEF ReadUnpaid, SubscriptionSynced, RetryRequested, RequestDies, rowVars, slotVars,
     jobVars
<1>3. ASSUME NEW r \in Request, Serve(r) PROVE FALSE
  BY <1>3 DEF Serve, Enqueue, ChangePlan, CheckUnpaid, StartProvisioning, MarkProvisioning,
     RemoveJob, AddJob
<1>4. ASSUME NEW s \in Slot, Attempt(s) \/ MarkFailed(s) \/ SlotDies(s) \/ JobLockExpires(s)
                             \/ CommitFails(s)
      PROVE  FALSE
  BY <1>4, NobodyIsNobody DEF Attempt, TakeJob, ResetRow, EnterLock, FindWorkspace,
     CreateRuntime, CreateFails, VerifyRuntime, Persist, LeaveLock, ReportDone, ReportFailed,
     MarkFailed, SlotDies, JobLockExpires, CommitFails
<1> QED
  BY <1>1, <1>2, <1>3, <1>4 DEF Next, Arrive, Fault, Request

\* What has been started goes on without the plan being touched.
LEMMA StartedGoesOn ==
  ASSUME TypeOK, Seen, FreeStart, ~paid, ~paid', ~overtaken, ~overtaken', Started, [Next]_vars
  PROVE  FreeStart'
<1> USE DEF TypeOK, Seen, FreeStart, AtReq, GoReq, At, Go
<1>1. CASE UNCHANGED vars \/ RecoverStalledJob \/ BackoffEnds
  BY <1>1 DEF vars, rowVars, RecoverStalledJob, BackoffEnds
<1>2. ASSUME NEW f \in Form, \/ ReadUnpaid(f)
                             \/ \E p \in {"free", "paid"} : CreateWorkspace(f, p)
      PROVE  FALSE
  BY <1>2 DEF ReadUnpaid, CreateWorkspace
<1>3. ASSUME NEW r \in Request, SubscriptionSynced(r) \/ RetryRequested(r) \/ RequestDies(r)
      PROVE  FreeStart'
  BY <1>3 DEF SubscriptionSynced, RetryRequested, RequestDies, rowVars
<1>4. ASSUME NEW r \in Request, Serve(r) PROVE FreeStart'
  BY <1>4 DEF Serve, Enqueue, ChangePlan, CheckUnpaid, StartProvisioning, MarkProvisioning,
     RemoveJob, AddJob, rowVars
<1>5. ASSUME NEW s \in Slot, Attempt(s) \/ MarkFailed(s) \/ SlotDies(s) \/ JobLockExpires(s)
                             \/ CommitFails(s)
      PROVE  FreeStart'
  BY <1>5 DEF Attempt, TakeJob, ResetRow, EnterLock, FindWorkspace, CreateRuntime, CreateFails,
     VerifyRuntime, Persist, LeaveLock, ReportDone, ReportFailed, MarkFailed, SlotDies,
     JobLockExpires, CommitFails, rowVars
<1> QED
  BY <1>1, <1>2, <1>3, <1>4, <1>5 DEF Next, Arrive, Fault, Request

LEMMA NextFreeStart ==
  ASSUME TypeOK, JobInv, Seen, FreeStart, [Next]_vars
  PROVE  FreeStart'
<1>1. CASE paid \/ paid' \/ overtaken \/ overtaken'
  BY <1>1, NextSeen DEF FreeStart
<1>2. CASE ~paid /\ ~paid' /\ ~overtaken /\ ~overtaken' /\ Started
  BY <1>2, StartedGoesOn
<1>3. ASSUME ~paid, ~paid', ~Started,
             NEW f \in Form, NEW p \in {"free", "paid"}, CreateWorkspace(f, p) \/ ChangePlan(f, p)
      PROVE  FreeStart'
  <2>1. CASE p = "free"
    BY <1>3, <2>1 DEF CreateWorkspace, ChangePlan, FreeStart, RequiresBilling
  <2>2. CASE p = "paid"
    <3>1. status' = "billing_required" /\ rpc' = [rpc EXCEPT ![f] = "idle"]
          /\ UNCHANGED <<jobVars, slotVars>>
      BY <1>3, <2>2 DEF CreateWorkspace, ChangePlan, RequiresBilling, GoReq
    <3>2. ~Started'
      BY <1>3, <3>1 DEF Started, jobVars, slotVars, TypeOK
    <3> QED
      BY <3>2 DEF FreeStart
  <2> QED
    BY <2>1, <2>2
<1> QED
  BY <1>1, <1>2, <1>3, NothingStarts DEF FreeStart

\* However many onboarding forms are open, and whatever retries, payments and deaths come
\* in between: a workspace on a paid plan is provisioned only with a usable subscription,
\* unless a form has written over a row that had changed since the form read it.
THEOREM PaymentComesFirst == Spec => []PaidFirst
<1>1. Init => Seen /\ FreeStart
  BY DEF Init, Seen, FreeStart, Started
<1>2. TInv /\ Seen /\ FreeStart /\ [Next]_vars => Seen' /\ FreeStart'
  BY NextSeen, NextFreeStart DEF TInv
<1>3. FreeStart => PaidFirst
  BY DEF FreeStart, PaidFirst, UnpaidNeverRuns, Started
<1> QED
  BY <1>1, <1>2, <1>3, InitTInv, NextTInv, PTL DEF Spec
=============================================================================
