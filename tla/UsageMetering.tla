---------------------------- MODULE UsageMetering ----------------------------
(***************************************************************************)
(* What the requests of one workspace on shared provider keys cost:        *)
(* recordLlmUsage and the retry loop of cloud/api/billing/usage.ts.        *)
(*                                                                         *)
(* The provider proxy starts one call per request and does not wait for    *)
(* it.  A call gives its unit away or charges it, in a transaction that    *)
(* holds the workspace's advisory lock, and then reports a charged unit to *)
(* Stripe.  Passes of the retry loop, in every API process and as often as *)
(* the timer fires, report what was not reported.                          *)
(***************************************************************************)
EXTENDS Integers, FiniteSets

CONSTANTS Call,         \* calls of recordLlmUsage with keySource "shared"
          Rejected,     \* the calls whose meter event Stripe never accepts
          Pass,         \* passes of the retry loop that may overlap
          NoAnchor,     \* no billing period is known
          Included,     \* config.basicIncludedRequests
          Limit,        \* rows of one retry pass
          MonthLength,  \* instants in a calendar month
          MaxTime,      \* bound: instants
          MaxFaults     \* bound: failed requests to Stripe, deaths of processes

ASSUME CallsAreFinite == IsFiniteSet(Call) /\ Rejected \subseteq Call
ASSUME NoAnchorIsNull == NoAnchor \notin Int
ASSUME AllowanceIsNumber == Included \in Nat
ASSUME PassBounds == Limit \in Nat \ {0} /\ MonthLength \in Nat \ {0}
ASSUME UsageBounds == MaxTime \in Nat /\ MaxFaults \in Nat

VARIABLES
  now,
  anchor,    \* workspace_billing: start of the current period, as last synced
  usable,    \* workspace_billing: a customer with a billable subscription
  rawDates,  \* the driver gives the timestamps of raw rows as Date objects, not as text
  \* one call
  pc,
  at,        \* its time, read before the transaction: occurred_at
  base,      \* periodStart, kept for a free call
  used,      \* usedBefore
  charges,   \* hasBillableWorkspaceSubscription, as the transaction read it
  row,       \* billing_usage_events.status ("none": not committed)
  \* one retry pass
  held,      \* the rows it has locked
  outcome,   \* the updates its transaction has made
  \* outside
  meter,     \* identifiers of the meter events that Stripe has counted
  faults     \* faults so far, counted from any number

billingVars == <<anchor, usable, rawDates>>
callVars == <<pc, at, base, used, charges>>
passVars == <<held, outcome>>
vars == <<now, billingVars, callVars, row, passVars, meter, faults>>

Instant == 0..MaxTime
Pcs == {"idle", "allocate", "insert", "report", "metered", "failed", "done"}

TypeOK ==
  /\ now \in Instant
  /\ anchor \in Instant \cup {NoAnchor}
  /\ usable \in BOOLEAN /\ rawDates \in BOOLEAN
  /\ pc \in [Call -> Pcs]
  /\ at \in [Call -> Instant]
  /\ base \in [Call -> Instant]
  /\ used \in [Call -> Nat]
  /\ charges \in [Call -> BOOLEAN]
  /\ row \in [Call -> {"none", "included", "ignored", "unreported", "metered", "failed"}]
  /\ held \in [Pass -> SUBSET Call]
  /\ outcome \in [Pass -> [Call -> {"none", "metered", "failed"}]]
  /\ meter \subseteq Call \X {"stored", "fresh"}
  /\ faults \in 0..MaxFaults

Init ==
  /\ now = 0
  /\ anchor = NoAnchor /\ usable = FALSE
  /\ rawDates \in BOOLEAN
  /\ pc = [c \in Call |-> "idle"]
  /\ at = [c \in Call |-> 0]
  /\ base = [c \in Call |-> 0]
  /\ used = [c \in Call |-> 0]
  /\ charges = [c \in Call |-> FALSE]
  /\ row = [c \in Call |-> "none"]
  /\ held = [p \in Pass |-> {}]
  /\ outcome = [p \in Pass |-> [c \in Call |-> "none"]]
  /\ meter = {}
  /\ faults \in 0..MaxFaults

-----------------------------------------------------------------------------
\* Helpers.

At(c, label) == pc[c] = label
Go(c, label) == pc' = [pc EXCEPT ![c] = label]

RollingMonth(t) == t - MonthLength     \* mutant: a month back, not the month

MonthStart(t) == t - (t % MonthLength)

\* The SUM over the usage rows of the period: one unit each, ignored ones aside.
Counted(start) == {c \in Call : row[c] \notin {"none", "ignored"} /\ at[c] >= start}

\* The identifier is minted by the call and stored with the row.
Identifier(c) == <<c, "stored">>

\* Rows under FOR UPDATE: an update of theirs waits for the pass to commit.
Locked(c) == \E p \in Pass : c \in held[p]

FreshIdentifier(c) == <<c, "fresh">>    \* mutant: a retry mints its own

\* The identifier a retry sends.
RetryIdentifier(c) == Identifier(c)

\* Stripe counts an identifier once and the answer comes back, or it is lost,
\* or the request never arrives.
ReportSucceeds(c, id) ==
  /\ c \notin Rejected
  /\ meter' = meter \cup {id}
  /\ UNCHANGED faults

ReportFails(c, id) ==
  \/ c \in Rejected /\ UNCHANGED <<meter, faults>>
  \/ /\ faults < MaxFaults
     /\ faults' = faults + 1
     /\ meter' \in {meter, IF c \in Rejected THEN meter ELSE meter \cup {id}}

-----------------------------------------------------------------------------
\* recordLlmUsage.

\* The time of the usage is taken before the lock is.
Arrive(c) ==
  /\ At(c, "idle")
  /\ at' = [at EXCEPT ![c] = now]
  /\ Go(c, "allocate")
  /\ UNCHANGED <<now, billingVars, base, used, charges, row, passVars, meter, faults>>

AllocateUnlocked(c) ==       \* mutant: no advisory lock
  LET start == IF anchor = NoAnchor THEN MonthStart(at[c]) ELSE anchor IN
  /\ At(c, "allocate")
  /\ base' = [base EXCEPT ![c] = start]
  /\ used' = [used EXCEPT ![c] = Cardinality(Counted(start))]
  /\ charges' = [charges EXCEPT ![c] = usable]
  /\ Go(c, "insert")
  /\ UNCHANGED <<now, billingVars, at, row, passVars, meter, faults>>

\* Under the lock: the billing row, then the sum since its period started.
Allocate(c) ==
  LET start == IF anchor = NoAnchor THEN MonthStart(at[c]) ELSE anchor IN
  /\ At(c, "allocate")
  /\ \A d \in Call : ~At(d, "insert")
  /\ base' = [base EXCEPT ![c] = start]
  /\ used' = [used EXCEPT ![c] = Cardinality(Counted(start))]
  /\ charges' = [charges EXCEPT ![c] = usable]
  /\ Go(c, "insert")
  /\ UNCHANGED <<now, billingVars, at, row, passVars, meter, faults>>

\* allocateBillableUnits, for the one unit of a request.
IncludedUnits(c) == IF used[c] < Included THEN 1 ELSE 0

\* What the transaction read is of no use after it.
EndTransaction(c) ==
  /\ used' = [used EXCEPT ![c] = 0]
  /\ charges' = [charges EXCEPT ![c] = FALSE]

\* The insert, and the commit that gives the lock back.
InsertUsage(c) ==
  /\ At(c, "insert")
  /\ row' = [row EXCEPT ![c] = IF IncludedUnits(c) = 1 THEN "included"
                               ELSE IF charges[c] THEN "unreported" ELSE "ignored"]
  /\ Go(c, IF row'[c] = "unreported" THEN "report" ELSE "done")
  /\ base' = [base EXCEPT ![c] = IF IncludedUnits(c) = 1 THEN @ ELSE 0]
  /\ EndTransaction(c)
  /\ UNCHANGED <<now, billingVars, at, passVars, meter, faults>>

\* meterEvents.create, within the try.
Report(c) ==
  /\ At(c, "report")
  /\ \/ ReportSucceeds(c, Identifier(c)) /\ Go(c, "metered")
     \/ ReportFails(c, Identifier(c)) /\ Go(c, "failed")
  /\ UNCHANGED <<now, billingVars, at, base, used, charges, row, passVars>>

\* The update after the report; its own failure is caught as the report's is.
MarkMetered(c) ==
  /\ At(c, "metered") /\ ~Locked(c)
  /\ \/ /\ row' = [row EXCEPT ![c] = "metered"]
        /\ Go(c, "done")
        /\ UNCHANGED faults
     \/ /\ faults < MaxFaults
        /\ faults' = faults + 1
        /\ Go(c, "failed")
        /\ UNCHANGED row
  /\ UNCHANGED <<now, billingVars, at, base, used, charges, passVars, meter>>

\* The update of the catch block, whatever the row says by now.
MarkFailed(c) ==
  /\ At(c, "failed") /\ ~Locked(c)
  /\ row' = [row EXCEPT ![c] = "failed"]
  /\ Go(c, "done")
  /\ UNCHANGED <<now, billingVars, at, base, used, charges, passVars, meter, faults>>

\* The process dies; an open transaction is rolled back.
CallDies(c) ==
  /\ pc[c] \notin {"idle", "done"}
  /\ faults < MaxFaults
  /\ faults' = faults + 1
  /\ Go(c, "done")
  /\ EndTransaction(c)
  /\ base' = [base EXCEPT ![c] = IF row[c] = "included" THEN @ ELSE 0]
  /\ UNCHANGED <<now, billingVars, at, row, passVars, meter>>

-----------------------------------------------------------------------------
\* retryUnreportedBillingUsage.

FailedOnly ==                \* mutant: rows that were never tried are not retried
  {c \in Call : /\ row[c] = "failed" /\ ~Locked(c)
                /\ anchor # NoAnchor /\ at[c] >= anchor}

\* The rows of the SELECT, before its LIMIT.
Candidates ==
  {c \in Call : /\ row[c] \in {"failed", "unreported"} /\ ~Locked(c)
                /\ anchor # NoAnchor /\ at[c] >= anchor}

\* ORDER BY occurred_at LIMIT.
Oldest(S) ==
  {T \in SUBSET S : /\ Cardinality(T) <= Limit
                    /\ T # S => Cardinality(T) = Limit
                    /\ \A c \in T, d \in S \ T : at[c] <= at[d]}

\* The subscription is read with the rows: without a usable one every row is
\* skipped, and the pass leaves everything as it is.
StartPass(p) ==
  /\ held[p] = {}
  /\ Candidates # {}
  /\ usable
  /\ \E T \in Oldest(Candidates) : held' = [held EXCEPT ![p] = T]
  /\ UNCHANGED <<now, billingVars, callVars, row, outcome, meter, faults>>

\* The rows are raw: of a timestamp that came as text, occurredAt.getTime() throws
\* before anything is sent to Stripe, and the row is marked as failed.
ReportCandidate(p, c) ==
  /\ c \in held[p] /\ outcome[p][c] = "none"
  /\ \/ /\ rawDates
        /\ ReportSucceeds(c, RetryIdentifier(c))
        /\ outcome' = [outcome EXCEPT ![p][c] = "metered"]
     \/ /\ rawDates
        /\ ReportFails(c, RetryIdentifier(c))
        /\ outcome' = [outcome EXCEPT ![p][c] = "failed"]
     \/ /\ ~rawDates
        /\ outcome' = [outcome EXCEPT ![p][c] = "failed"]
        /\ UNCHANGED <<meter, faults>>
  /\ UNCHANGED <<now, billingVars, callVars, row, held>>

\* The pass ends, committed or not, and its locks with it.
Unlock(p) ==
  /\ held' = [held EXCEPT ![p] = {}]
  /\ outcome' = [outcome EXCEPT ![p] = [c \in Call |-> "none"]]

CommitPass(p) ==
  /\ held[p] # {}
  /\ \A c \in held[p] : outcome[p][c] # "none"
  /\ row' = [c \in Call |-> IF outcome[p][c] = "none" THEN row[c] ELSE outcome[p][c]]
  /\ Unlock(p)
  /\ UNCHANGED <<now, billingVars, callVars, meter, faults>>

PassDies(p) ==
  /\ held[p] # {}
  /\ faults < MaxFaults
  /\ faults' = faults + 1
  /\ Unlock(p)
  /\ UNCHANGED <<now, billingVars, callVars, row, meter>>

-----------------------------------------------------------------------------
\* Around it.

\* syncSubscription writes what the event at hand says; events come in any
\* order, so that the period it names can be an earlier one.
SubscriptionSynced ==
  /\ anchor' \in 0..now
  /\ usable' \in BOOLEAN
  /\ UNCHANGED <<rawDates, now, callVars, row, passVars, meter, faults>>

Tick ==
  /\ now < MaxTime
  /\ now' = now + 1
  /\ UNCHANGED <<billingVars, callVars, row, passVars, meter, faults>>

Record(c) ==
  \/ Allocate(c) \/ InsertUsage(c) \/ Report(c) \/ MarkMetered(c) \/ MarkFailed(c)

Retry(p) == StartPass(p) \/ (\E c \in Call : ReportCandidate(p, c)) \/ CommitPass(p)

Next ==
  \/ \E c \in Call : Arrive(c) \/ Record(c) \/ CallDies(c)
  \/ \E p \in Pass : Retry(p) \/ PassDies(p)
  \/ SubscriptionSynced
  \/ Tick

Spec == Init /\ [][Next]_vars

\* Calls that have begun go on, and the timer keeps starting passes.
Fairness ==
  /\ \A c \in Call : WF_vars(Record(c))
  /\ \A p \in Pass : WF_vars(Retry(p))
FairSpec == Spec /\ Fairness

-----------------------------------------------------------------------------
\* Properties.

\* The free requests of a period are given out once: of the calls that counted
\* from the same period start and took place in that period, no more than the
\* allowance are free, however many run at once and however often the period
\* start moves, back or forth, between them.
FreeCalls(start) == {c \in Call : row[c] = "included" /\ base[c] = start /\ at[c] >= start}
AllowanceKept == \A start \in Instant : Cardinality(FreeCalls(start)) <= Included

\* A unit is charged at most once, only if it was neither free nor ignored, and
\* before it is taken off the retry loop's list, whatever is retried after a lost
\* answer or at the same time.
ChargedOnce ==
  \A c \in Call :
    LET charged == {id \in meter : id[1] = c} IN
    /\ Cardinality(charged) <= 1
    /\ row[c] \in {"none", "included", "ignored"} => charged = {}
    /\ row[c] = "metered" => charged # {}

\* Every step of the calls and of the retries is one of the usage ledger: a request is
\* entered once, within its period's allowance, is billed once and only if it is owed,
\* and is on the retry loop's list until it has been.
Kind(c) ==
  CASE row[c] = "none" -> "none"
    [] row[c] = "included" -> "free"
    [] row[c] = "ignored" -> "ignored"
    [] OTHER -> "owed"

Ledger == INSTANCE UsageLedger WITH
            Period <- Instant,
            kind   <- [c \in Call |-> Kind(c)],
            given  <- [start \in Instant |-> FreeCalls(start)],
            bills  <- [c \in Call |-> {id \in meter : id[1] = c}],
            listed <- {c \in Call : row[c] \in {"unreported", "failed"}}

ImplementsLedger == Ledger!Spec

\* A unit to charge is reported in the end, whatever died or failed on the way, as
\* long as the billing row names a usable subscription whose period has it, if the
\* retry loop can read the time of the usage and the rows that Stripe never accepts do
\* not fill its limit: up to the last place, they do not keep a pass from the others.
Retriable(c) == usable /\ anchor # NoAnchor /\ at[c] >= anchor
RetriesWork == rawDates /\ Cardinality(Rejected) < Limit
ChargesGetReported ==
  \A c \in Call \ Rejected :
    RetriesWork /\ row[c] \in {"unreported", "failed"}
      ~> (row[c] = "metered" \/ ~Retriable(c))
=============================================================================
