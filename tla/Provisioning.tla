---------------------------- MODULE Provisioning ----------------------------
(***************************************************************************)
(* How one workspace gets its gbrain runtime: the onboarding form, the     *)
(* payment webhook and the retry button write workspaces.status and put a  *)
(* job in the BullMQ queue (routes/workspaces/provision.ts,                *)
(* cloud/api/billing/service.ts, queue/provision-queue.ts); the slots of   *)
(* the provision workers run it (queue/provision-worker.ts,                *)
(* tenants/provision.ts).                                                  *)
(*                                                                         *)
(* The row is in PostgreSQL, the job in Redis, the runtime with its        *)
(* provider: no transaction spans two of them, and every await is a        *)
(* boundary between steps.  A runtime stands for the proxy token and OAuth *)
(* client that only fit it as well.                                        *)
(***************************************************************************)
EXTENDS Naturals

CONSTANTS Form,         \* onboarding forms of the owner, open in some tab
          Retrier,      \* retry buttons
          Payer,        \* deliveries of Stripe events about the subscription
          Slot,         \* slots of provision workers, in any process
          Runtime,      \* names for runtimes, enough for those in use
          Nobody,       \* no slot, no runtime
          Provider,     \* OPEN42_TENANT_PROVISIONER
          MaxAttempts,  \* attempts, of the job options
          MaxRetries,   \* bound: clicks on retry
          MaxFaults     \* bound: deaths of processes and lost connections

Request == Form \cup Retrier \cup Payer

ASSUME NobodyIsNobody == Nobody \notin Slot \cup Runtime
ASSUME ProviderIsKnown == Provider \in {"local-docker", "fly"}
ASSUME AttemptsArePositive == MaxAttempts \in Nat \ {0}
ASSUME ProvisionBounds == MaxRetries \in Nat /\ MaxFaults \in Nat

VARIABLES
  \* PostgreSQL
  status,        \* workspaces.status ("none": no row yet)
  plan,          \* workspaces.plan
  secret,        \* proxy token hash, OAuth client: the runtime they are for
  paid,          \* workspace_billing holds a usable subscription
  overtaken,     \* history: a form has written over a row that had changed since it read it
  \* the BullMQ job named after the workspace
  jobState,
  attemptsMade,
  manualRetry,
  holder,        \* the slot whose lock on the active job is alive
  \* processes
  rpc,           \* where a request is
  wpc,           \* where a slot is
  built,         \* the runtime the slot has just made
  failing,       \* slots with an unfinished handler of the "failed" event
  \* outside
  runtimes,      \* the runtimes the provider keeps for the workspace
  retries, faults

rowVars == <<status, plan, secret, paid, overtaken>>
jobVars == <<jobState, attemptsMade, manualRetry, holder>>
slotVars == <<wpc, built, failing>>
vars == <<rowVars, jobVars, rpc, slotVars, runtimes, retries, faults>>

Live == {"waiting", "active", "delayed"}
Status == {"none", "billing_required", "provisioning", "ready", "failed"}

TypeOK ==
  /\ status \in Status
  /\ plan \in {"free", "paid"}
  /\ secret \in Runtime \cup {Nobody}
  /\ paid \in BOOLEAN /\ overtaken \in BOOLEAN
  /\ jobState \in {"none", "completed", "failed"} \cup Live
  /\ attemptsMade \in 0..MaxAttempts
  /\ manualRetry \in BOOLEAN
  /\ holder \in Slot \cup {Nobody}
  /\ rpc \in [Request -> {"idle", "update", "check", "cas", "enqueue",
                          "mark", "remove", "add"}]
  /\ wpc \in [Slot -> {"idle", "reset", "lock", "find", "create", "verify",
                       "persist", "commit", "rollback", "done", "failed"}]
  /\ built \in [Slot -> Runtime \cup {Nobody}]
  /\ failing \subseteq Slot
  /\ runtimes \subseteq Runtime
  /\ retries \in 0..MaxRetries
  /\ faults \in 0..MaxFaults

\* Any number of the faults may be spent: that bound is not part of the system.
Init ==
  /\ status = "none" /\ plan = "free" /\ secret = Nobody /\ paid = FALSE /\ overtaken = FALSE
  /\ jobState = "none" /\ attemptsMade = 0 /\ manualRetry = FALSE /\ holder = Nobody
  /\ rpc = [r \in Request |-> "idle"]
  /\ wpc = [s \in Slot |-> "idle"]
  /\ built = [s \in Slot |-> Nobody]
  /\ failing = {}
  /\ runtimes = {}
  /\ retries = 0 /\ faults \in 0..MaxFaults

-----------------------------------------------------------------------------
\* Requests.

AtReq(r, label) == rpc[r] = label
GoReq(r, label) == rpc' = [rpc EXCEPT ![r] = label]

RequiresBilling(p) == p = "paid"

\* queue.getJob, then queue.add: a job of that id, terminal or not, stays.
Enqueue(r) ==
  /\ AtReq(r, "enqueue")
  /\ IF jobState = "none"
       THEN /\ jobState' = "waiting" /\ attemptsMade' = 0 /\ manualRetry' = FALSE
            /\ UNCHANGED holder
       ELSE UNCHANGED jobVars
  /\ GoReq(r, "idle")
  /\ UNCHANGED <<rowVars, slotVars, runtimes, retries, faults>>

\* saveWorkspaceName and createWorkspaceForUser: the first submission inserts.
CreateWorkspace(f, p) ==
  /\ AtReq(f, "idle")
  /\ status = "none"
  /\ plan' = p
  /\ status' = IF RequiresBilling(p) THEN "billing_required" ELSE "provisioning"
  /\ GoReq(f, IF RequiresBilling(p) THEN "idle" ELSE "enqueue")
  /\ UNCHANGED <<secret, paid, overtaken, jobVars, slotVars, runtimes, retries, faults>>

\* A later submission reads the row; in any other status it only renames it.
ReadUnpaid(f) ==
  /\ AtReq(f, "idle")
  /\ status = "billing_required"
  /\ GoReq(f, "update")
  /\ UNCHANGED <<rowVars, jobVars, slotVars, runtimes, retries, faults>>

\* The update names the row by its id alone.
ChangePlan(f, p) ==
  /\ AtReq(f, "update")
  /\ overtaken' = (overtaken \/ status # "billing_required")
  /\ plan' = p
  /\ status' = IF RequiresBilling(p) THEN "billing_required" ELSE "provisioning"
  /\ GoReq(f, IF RequiresBilling(p) THEN "idle" ELSE "enqueue")
  /\ UNCHANGED <<secret, paid, jobVars, slotVars, runtimes, retries, faults>>

\* syncSubscription writes workspace_billing, then startProvisioningAfterPayment
\* reads the row, updates it by compare-and-set and enqueues.
SubscriptionSynced(e) ==
  /\ AtReq(e, "idle")
  /\ status # "none"
  /\ paid' = TRUE
  /\ GoReq(e, "check")
  /\ UNCHANGED <<status, plan, secret, overtaken, jobVars, slotVars, runtimes, retries, faults>>

CheckUnpaid(e) ==
  /\ AtReq(e, "check")
  /\ GoReq(e, IF status = "billing_required" THEN "cas" ELSE "idle")
  /\ UNCHANGED <<rowVars, jobVars, slotVars, runtimes, retries, faults>>

StartProvisioning(e) ==
  /\ AtReq(e, "cas")
  /\ IF status = "billing_required"
       THEN status' = "provisioning" /\ GoReq(e, "enqueue")
       ELSE UNCHANGED status /\ GoReq(e, "idle")
  /\ UNCHANGED <<plan, secret, paid, overtaken, jobVars, slotVars, runtimes, retries, faults>>

RetryUnpaid(c) ==            \* mutant: the 409 for billing_required is lost
  /\ AtReq(c, "idle")
  /\ retries < MaxRetries
  /\ status \in {"billing_required", "provisioning", "failed"}
  /\ GoReq(c, "mark")
  /\ retries' = retries + 1
  /\ UNCHANGED <<rowVars, jobVars, slotVars, runtimes, faults>>

\* POST /onboarding/retry-provision: nothing to do for a ready workspace, and
\* 409 for an unpaid one.
RetryRequested(c) ==
  /\ AtReq(c, "idle")
  /\ retries < MaxRetries
  /\ status \in {"provisioning", "failed"}
  /\ GoReq(c, "mark")
  /\ retries' = retries + 1
  /\ UNCHANGED <<rowVars, jobVars, slotVars, runtimes, faults>>

MarkProvisioning(c) ==
  /\ AtReq(c, "mark")
  /\ status' = "provisioning"
  /\ GoReq(c, "remove")
  /\ UNCHANGED <<plan, secret, paid, overtaken, jobVars, slotVars, runtimes, retries, faults>>

\* removeAndEnqueueProvisionJob: a job locked by its worker cannot be removed,
\* and the error is dropped.
RemoveJob(c) ==
  /\ AtReq(c, "remove")
  /\ jobState' = IF holder = Nobody THEN "none" ELSE jobState
  /\ GoReq(c, "add")
  /\ UNCHANGED <<rowVars, attemptsMade, manualRetry, holder, slotVars, runtimes,
                 retries, faults>>

AddJob(c) ==
  /\ AtReq(c, "add")
  /\ IF jobState = "none"
       THEN /\ jobState' = "waiting" /\ attemptsMade' = 0 /\ manualRetry' = TRUE
            /\ UNCHANGED holder
       ELSE UNCHANGED jobVars
  /\ GoReq(c, "idle")
  /\ UNCHANGED <<rowVars, slotVars, runtimes, retries, faults>>

\* The process dies in the middle of a request, or its next statement fails.
RequestDies(r) ==
  /\ ~AtReq(r, "idle")
  /\ faults < MaxFaults
  /\ faults' = faults + 1
  /\ GoReq(r, "idle")
  /\ UNCHANGED <<rowVars, jobVars, slotVars, runtimes, retries>>

-----------------------------------------------------------------------------
\* A slot of a worker: processProvisionJob and provisionTenant.

At(s, label) == wpc[s] = label
Go(s, label) == wpc' = [wpc EXCEPT ![s] = label]

\* Inside the transaction that took pg_advisory_xact_lock.
InLock(s) == wpc[s] \in {"find", "create", "verify", "persist", "commit", "rollback"}

TakeJob(s) ==
  /\ At(s, "idle")
  /\ jobState = "waiting"
  /\ jobState' = "active"
  /\ holder' = s
  /\ Go(s, IF attemptsMade > 0 \/ manualRetry THEN "reset" ELSE "lock")
  /\ UNCHANGED <<rowVars, attemptsMade, manualRetry, rpc, built, failing, runtimes,
                 retries, faults>>

ResetRow(s) ==
  /\ At(s, "reset")
  /\ status' = "provisioning"
  /\ Go(s, "lock")
  /\ UNCHANGED <<plan, secret, paid, overtaken, jobVars, rpc, built, failing, runtimes,
                 retries, faults>>

SkipLock(s) ==               \* mutant: no advisory lock
  /\ At(s, "lock")
  /\ Go(s, "find")
  /\ UNCHANGED <<rowVars, jobVars, rpc, built, failing, runtimes, retries, faults>>

EnterLock(s) ==
  /\ At(s, "lock")
  /\ \A t \in Slot : ~InLock(t)
  /\ Go(s, "find")
  /\ UNCHANGED <<rowVars, jobVars, rpc, built, failing, runtimes, retries, faults>>

\* findWorkspaceById: a ready workspace is left as it is.
FindWorkspace(s) ==
  /\ At(s, "find")
  /\ Go(s, IF status = "ready" THEN "commit" ELSE "create")
  /\ UNCHANGED <<rowVars, jobVars, rpc, built, failing, runtimes, retries, faults>>

\* What is left of the workspace's runtimes when one more is made: docker
\* removes the container of the same name, Fly keeps what was created.
KeptRuntimes == IF Provider = "local-docker" THEN {} ELSE runtimes

\* A name that neither the provider nor the code still uses.
Unused == Runtime \ (runtimes \cup {secret} \cup {built[s] : s \in Slot})

CreateRuntime(s) ==
  LET new == CHOOSE n \in Unused : TRUE IN
  /\ At(s, "create")
  /\ Unused # {}
  /\ built' = [built EXCEPT ![s] = new]
  /\ runtimes' = KeptRuntimes \cup {new}
  /\ Go(s, "verify")
  /\ UNCHANGED <<rowVars, jobVars, rpc, failing, retries, faults>>

\* The provisioner throws, before or after it has removed the old container.
CreateFails(s) ==
  /\ At(s, "create")
  /\ runtimes' \in {runtimes, KeptRuntimes}
  /\ Go(s, "rollback")
  /\ UNCHANGED <<rowVars, jobVars, rpc, built, failing, retries, faults>>

\* waitForGbrainHealth, registerGbrainOAuthClient, assertGbrainVersion.
VerifyRuntime(s) ==
  /\ At(s, "verify")
  /\ \/ Go(s, "persist")
     \/ Go(s, "rollback")
  /\ UNCHANGED <<rowVars, jobVars, rpc, built, failing, runtimes, retries, faults>>

\* createWorkspace: the secrets and status ready in one update.
Persist(s) ==
  /\ At(s, "persist")
  /\ secret' = built[s]
  /\ status' = "ready"
  /\ Go(s, "commit")
  /\ UNCHANGED <<plan, paid, overtaken, jobVars, rpc, built, failing, runtimes, retries, faults>>

\* The transaction of the lock ends.
LeaveLock(s) ==
  /\ \/ At(s, "commit") /\ Go(s, "done")
     \/ At(s, "rollback") /\ Go(s, "failed")
  /\ built' = [built EXCEPT ![s] = Nobody]
  /\ UNCHANGED <<rowVars, jobVars, rpc, failing, runtimes, retries, faults>>

\* The connection that held the lock is gone when the transaction commits, and
\* the attempt counts as failed.
CommitFails(s) ==
  /\ At(s, "commit")
  /\ faults < MaxFaults
  /\ faults' = faults + 1
  /\ built' = [built EXCEPT ![s] = Nobody]
  /\ Go(s, "failed")
  /\ UNCHANGED <<rowVars, jobVars, rpc, failing, runtimes, retries>>

\* BullMQ takes the outcome only from the slot that still holds the job.
ReportDone(s) ==
  /\ At(s, "done")
  /\ IF holder = s
       THEN jobState' = "completed" /\ holder' = Nobody
       ELSE UNCHANGED <<jobState, holder>>
  /\ Go(s, "idle")
  /\ UNCHANGED <<rowVars, attemptsMade, manualRetry, rpc, built, failing, runtimes,
                 retries, faults>>

MarkEveryFailure(s) ==       \* mutant: the failed event always writes the row
  /\ At(s, "failed")
  /\ IF holder = s
       THEN /\ attemptsMade' = attemptsMade + 1
            /\ jobState' = IF attemptsMade + 1 < MaxAttempts THEN "delayed" ELSE "failed"
            /\ failing' = failing \cup {s}
            /\ holder' = Nobody
       ELSE UNCHANGED <<attemptsMade, jobState, failing, holder>>
  /\ Go(s, "idle")
  /\ UNCHANGED <<rowVars, manualRetry, rpc, built, runtimes, retries, faults>>

RetryForever(s) ==           \* mutant: the attempts are not counted
  /\ At(s, "failed")
  /\ IF holder = s
       THEN jobState' = "delayed" /\ holder' = Nobody
       ELSE UNCHANGED <<jobState, holder>>
  /\ Go(s, "idle")
  /\ UNCHANGED <<rowVars, attemptsMade, failing, manualRetry, rpc, built, runtimes,
                 retries, faults>>

RetryPastLast(s) ==          \* mutant: the number of attempts has no end
  /\ At(s, "failed")
  /\ IF holder = s
       THEN /\ attemptsMade' = attemptsMade + 1
            /\ jobState' = "delayed"
            /\ holder' = Nobody
       ELSE UNCHANGED <<attemptsMade, jobState, holder>>
  /\ Go(s, "idle")
  /\ UNCHANGED <<rowVars, failing, manualRetry, rpc, built, runtimes, retries, faults>>

\* The attempt is counted; the last one fails the job, and its event starts
\* the handler that marks the row.
ReportFailed(s) ==
  LET last == attemptsMade + 1 >= MaxAttempts IN
  /\ At(s, "failed")
  /\ IF holder = s
       THEN /\ attemptsMade' = attemptsMade + 1
            /\ jobState' = IF last THEN "failed" ELSE "delayed"
            /\ failing' = IF last THEN failing \cup {s} ELSE failing
            /\ holder' = Nobody
       ELSE UNCHANGED <<attemptsMade, jobState, failing, holder>>
  /\ Go(s, "idle")
  /\ UNCHANGED <<rowVars, manualRetry, rpc, built, runtimes, retries, faults>>

\* The handler's update names the row by its id alone.
MarkFailed(s) ==
  /\ s \in failing
  /\ status' = "failed"
  /\ failing' = failing \ {s}
  /\ UNCHANGED <<plan, secret, paid, overtaken, jobVars, rpc, wpc, built, runtimes,
                 retries, faults>>

\* The process of the slot dies and a new one takes its place.
SlotDies(s) ==
  /\ ~At(s, "idle") \/ s \in failing
  /\ faults < MaxFaults
  /\ faults' = faults + 1
  /\ Go(s, "idle")
  /\ built' = [built EXCEPT ![s] = Nobody]
  /\ failing' = failing \ {s}
  /\ holder' = IF holder = s THEN Nobody ELSE holder
  /\ UNCHANGED <<rowVars, jobState, attemptsMade, manualRetry, rpc, runtimes, retries>>

\* The slot lives and does not renew its lock on the job in time.
JobLockExpires(s) ==
  /\ holder = s
  /\ faults < MaxFaults
  /\ faults' = faults + 1
  /\ holder' = Nobody
  /\ UNCHANGED <<rowVars, jobState, attemptsMade, manualRetry, rpc, slotVars,
                 runtimes, retries>>

-----------------------------------------------------------------------------
\* BullMQ.

RecoverStalledJob ==
  /\ jobState = "active" /\ holder = Nobody
  /\ jobState' = "waiting"
  /\ UNCHANGED <<rowVars, attemptsMade, manualRetry, holder, rpc, slotVars,
                 runtimes, retries, faults>>

BackoffEnds ==
  /\ jobState = "delayed"
  /\ jobState' = "waiting"
  /\ UNCHANGED <<rowVars, attemptsMade, manualRetry, holder, rpc, slotVars,
                 runtimes, retries, faults>>

-----------------------------------------------------------------------------
\* The rest of a request that has begun, and of an attempt that has.
Serve(r) ==
  \/ Enqueue(r)
  \/ \E p \in {"free", "paid"} : ChangePlan(r, p)
  \/ CheckUnpaid(r) \/ StartProvisioning(r)
  \/ MarkProvisioning(r) \/ RemoveJob(r) \/ AddJob(r)

Attempt(s) ==
  \/ TakeJob(s) \/ ResetRow(s) \/ EnterLock(s) \/ FindWorkspace(s)
  \/ CreateRuntime(s) \/ CreateFails(s) \/ VerifyRuntime(s) \/ Persist(s)
  \/ LeaveLock(s) \/ ReportDone(s) \/ ReportFailed(s)

Arrive ==
  \/ \E f \in Form : ReadUnpaid(f) \/ \E p \in {"free", "paid"} : CreateWorkspace(f, p)
  \/ \E e \in Payer : SubscriptionSynced(e)
  \/ \E c \in Retrier : RetryRequested(c)

Fault ==
  \/ \E r \in Request : RequestDies(r)
  \/ \E s \in Slot : SlotDies(s) \/ JobLockExpires(s) \/ CommitFails(s)

Next ==
  \/ Arrive
  \/ \E r \in Request : Serve(r)
  \/ \E s \in Slot : Attempt(s) \/ MarkFailed(s)
  \/ RecoverStalledJob \/ BackoffEnds
  \/ Fault

Spec == Init /\ [][Next]_vars

\* Requests, attempts and handlers that have begun go on, workers take jobs,
\* and BullMQ moves stalled and delayed ones.  Users and faults are free.
Fairness ==
  /\ \A r \in Request : WF_vars(Serve(r))
  /\ \A s \in Slot : WF_vars(Attempt(s)) /\ WF_vars(MarkFailed(s))
  /\ WF_vars(RecoverStalledJob) /\ WF_vars(BackoffEnds)
FairSpec == Spec /\ Fairness

-----------------------------------------------------------------------------
\* Properties.

\* The secrets of a ready workspace fit a runtime that exists: no attempt,
\* however late, stalled or repeated, replaces the runtime behind a ready row
\* or writes the secrets of a runtime another attempt has replaced.
ReadyIsServed == status = "ready" => secret \in runtimes

\* "We only want the DB to flip to failed after BullMQ has truly given up":
\* while a job is still to be run, a failed row is one the user has since
\* asked to provision again.
FailedOnlyWhenGivenUp == status = "failed" /\ jobState \in Live => retries > 0

\* "Paid workspaces enter status='billing_required' and wait for Stripe before any
\* tenant job is queued": not so behind a form that was overtaken.
UnpaidNeverRuns == plan = "paid" /\ status \in {"provisioning", "ready"} => paid

\* The paid gate: whatever forms, payments, retries and attempts do at once, a workspace
\* on a paid plan is not provisioned before its subscription is usable, but in one case:
\* a submission for the paid plan that has read the unpaid row and writes it after another
\* submission, for the free plan, has set the provisioning going.
PaidFirst == overtaken \/ UnpaidNeverRuns

\* No queued job is forgotten: it ends, whatever dies or stalls on the way,
\* unless a retry removed it and died before it added the next one.
JobEnds ==
  jobState \in Live ~>
    \/ jobState \in {"completed", "failed"}
    \/ jobState = "none" /\ \A r \in Request : ~AtReq(r, "add")

-----------------------------------------------------------------------------
\* What the sources say, and the code does not do.

\* "Drop any prior job (terminal or in-flight) for this workspace and enqueue a
\* fresh one": while the row says provisioning, something is still going to
\* settle it.
Driven ==
  \/ jobState \in Live
  \/ failing # {}
  \/ \E r \in Request : rpc[r] \in {"enqueue", "mark", "remove", "add"}

ProvisioningIsDriven == status = "provisioning" => Driven
=============================================================================
