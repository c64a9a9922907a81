---------------------------- MODULE IngestScheduler ----------------------------
(***************************************************************************)
(* Which workspace gets a cycle, and when: startScheduler of               *)
(* ingest/orchestrator.ts in one API process, next to the owners' manual   *)
(* cycles (routes/workspaces/ingest.ts), deployments and crashes.          *)
(*                                                                         *)
(* What a cycle does is IngestCycle, and how its lease works IngestLock:   *)
(* here a cycle takes the lock, ends, and leaves the workspace due or not. *)
(***************************************************************************)
EXTENDS Integers, FiniteSets

CONSTANTS Workspace,
          Cap,       \* cycleConcurrency
          MaxOutages \* bound: failing queries, shutdowns, crashes and late kicks

ASSUME SchedulerConstants ==
  IsFiniteSet(Workspace) /\ Cap \in Nat \ {0} /\ MaxOutages \in Nat

VARIABLES
  due,       \* what the due query asks of a workspace, its lock aside
  lock,      \* whose unexpired lease the workspace has; "left": of a call that is over
  inFlight,  \* the scheduler's cycles, with those that have not asked for the lock
  running,   \* those that were given the lock, whatever has become of it
  rows,      \* the workspaces that the tick has read
  tick,      \* a tick queries, then loops over the rows
  process,
  outages

cycleVars == <<due, lock, inFlight, running>>
schedulerVars == <<cycleVars, rows, tick, process, outages>>

\* The types; rows are read by a tick and gone after it.
SchedulerTypeOK ==
  /\ due \in [Workspace -> BOOLEAN]
  /\ lock \in [Workspace -> {"free", "scheduled", "manual", "left"}]
  /\ inFlight \subseteq Workspace /\ running \subseteq Workspace
  /\ rows \subseteq Workspace
  /\ tick \in {"query", "loop"} /\ (tick = "query" => rows = {})
  /\ process \in {"up", "stopping", "stopped", "down"}
  /\ outages \in 0..MaxOutages

SchedulerInit ==
  /\ due \in [Workspace -> BOOLEAN]
  /\ lock = [w \in Workspace |-> "free"]
  /\ inFlight = {} /\ running = {}
  /\ rows = {}
  /\ tick = "query"
  /\ process = "up"
  /\ outages = 0

-----------------------------------------------------------------------------
\* A connection is to be imported, or the interval has passed since the last cycle.
BecomesDue(w) ==
  /\ ~due[w]
  /\ due' = [due EXCEPT ![w] = TRUE]
  /\ UNCHANGED <<lock, inFlight, running, rows, tick, process, outages>>

\* A lease that nobody renews any more runs out: for the query and for
\* acquireWorkspaceLock that is the same as no lease, reclaimed or not.
LockExpires(w) ==
  /\ lock[w] = "left"
  /\ lock' = [lock EXCEPT ![w] = "free"]
  /\ UNCHANGED <<due, inFlight, running, rows, tick, process, outages>>

\* A lease runs out under a cycle whose heartbeats are late.
Lapses(w) ==
  /\ lock[w] \in {"scheduled", "manual"}
  /\ lock' = [lock EXCEPT ![w] = "free"]
  /\ UNCHANGED <<due, inFlight, running, rows, tick, process, outages>>

-----------------------------------------------------------------------------
\* The tick.

Query ==
  /\ process = "up" /\ tick = "query"
  /\ rows' = {w \in Workspace : due[w] /\ lock[w] = "free"}
  /\ tick' = "loop"
  /\ UNCHANGED <<cycleVars, process, outages>>

\* A transient error of the database ends the tick; the next one comes all the same.
QueryFails ==
  /\ process = "up" /\ tick = "query"
  /\ outages < MaxOutages /\ outages' = outages + 1
  /\ UNCHANGED <<cycleVars, rows, tick, process>>

\* The query has no order: any of the workspaces may be the ones that fit.
Starts ==
  LET waiting == rows \ inFlight
      slots == IF Cardinality(inFlight) < Cap THEN Cap - Cardinality(inFlight) ELSE 0 IN
  {started \in SUBSET waiting :
     Cardinality(started) =
       IF Cardinality(waiting) < slots THEN Cardinality(waiting) ELSE slots}

Loop ==
  /\ process = "up" /\ tick = "loop"
  /\ \E started \in Starts : inFlight' = inFlight \cup started
  /\ rows' = {} /\ tick' = "query"
  /\ UNCHANGED <<due, lock, running, process, outages>>

\* A kick takes no account of the cap, and is dropped while the workspace has a cycle.
Kick(w) ==
  /\ process = "up" /\ w \notin inFlight
  /\ inFlight' = inFlight \cup {w}
  /\ UNCHANGED <<due, lock, running, rows, tick, process, outages>>

\* kick() does not ask whether the scheduler was stopped: a GitHub webhook that was
\* answered before the server closed is still handled, and kicks after that.
LateKick(w) ==
  /\ process \in {"stopping", "stopped"} /\ w \notin inFlight
  /\ outages < MaxOutages /\ outages' = outages + 1
  /\ inFlight' = inFlight \cup {w}
  /\ UNCHANGED <<due, lock, running, rows, tick, process>>

-----------------------------------------------------------------------------
\* Cycles.

\* acquireWorkspaceLock: a cycle that finds the workspace locked is skipped.
Acquire(w) ==
  /\ w \in inFlight \ running
  /\ \/ /\ lock[w] = "free"
        /\ lock' = [lock EXCEPT ![w] = "scheduled"]
        /\ running' = running \cup {w} /\ UNCHANGED inFlight
     \/ /\ lock[w] # "free"
        /\ inFlight' = inFlight \ {w} /\ UNCHANGED <<lock, running>>
  /\ UNCHANGED <<due, rows, tick, process, outages>>

\* A cycle that fails, or that skips a connection, leaves the workspace due.
Leaves(w) == due' \in {due, [due EXCEPT ![w] = FALSE]}

\* The release of a cycle that still has its lease may miss, because a heartbeat has
\* renewed it meanwhile, or be skipped by an exception: the lease stays.  A lease that
\* is not the cycle's is left alone.
Releases(w, own) ==
  lock' \in IF lock[w] = own
              THEN {[lock EXCEPT ![w] = "free"], [lock EXCEPT ![w] = "left"]}
              ELSE {lock}

KeepsSlot(w) ==   \* mutant: the slot is given back only by a cycle that served the workspace
  /\ w \in running
  /\ Releases(w, "scheduled")
  /\ Leaves(w)
  /\ running' = running \ {w}
  /\ inFlight' = IF due'[w] THEN inFlight ELSE inFlight \ {w}
  /\ UNCHANGED <<rows, tick, process, outages>>

\* The slot is given back in any case (.finally).
CycleEnds(w) ==
  /\ w \in running
  /\ Releases(w, "scheduled")
  /\ Leaves(w)
  /\ running' = running \ {w}
  /\ inFlight' = inFlight \ {w}
  /\ UNCHANGED <<rows, tick, process, outages>>

\* POST /ingest/sync: the scheduler does not know of this cycle.
SyncNow(w) ==
  /\ process = "up" /\ lock[w] = "free"
  /\ lock' = [lock EXCEPT ![w] = "manual"]
  /\ UNCHANGED <<due, inFlight, running, rows, tick, process, outages>>

ManualCycleEnds(w) ==
  /\ lock[w] = "manual"
  /\ Releases(w, "manual")
  /\ Leaves(w)
  /\ UNCHANGED <<inFlight, running, rows, tick, process, outages>>

-----------------------------------------------------------------------------
\* The process.

\* The server is closed and stop() called: no request comes in, and no tick starts
\* anything more.
Stop ==
  /\ process = "up"
  /\ outages < MaxOutages /\ outages' = outages + 1
  /\ process' = "stopping"
  /\ rows' = {} /\ tick' = "query"
  /\ UNCHANGED cycleVars

Dies ==
  /\ process' = "down"
  /\ lock' = [w \in Workspace |-> IF lock[w] = "free" THEN "free" ELSE "left"]
  /\ inFlight' = {} /\ running' = {}
  /\ rows' = {} /\ tick' = "query"
  /\ UNCHANGED due

\* The loop of stop() finds no cycle of the scheduler in flight.
StopReturns ==
  /\ process = "stopping" /\ inFlight = {}
  /\ process' = "stopped"
  /\ UNCHANGED <<cycleVars, rows, tick, outages>>

\* The other parts have been stopped; the exit cuts off whatever cycle runs by then,
\* manual or kicked late.
Exit ==
  /\ process = "stopped"
  /\ Dies
  /\ UNCHANGED outages

Crash ==
  /\ process # "down"
  /\ outages < MaxOutages /\ outages' = outages + 1
  /\ Dies

\* The first tick is immediate.
Boot ==
  /\ process = "down"
  /\ process' = "up"
  /\ UNCHANGED <<cycleVars, rows, tick, outages>>

SchedulerNext ==
  \/ Query \/ QueryFails \/ Loop
  \/ \E w \in Workspace :
       BecomesDue(w) \/ LockExpires(w) \/ Lapses(w) \/ Kick(w) \/ LateKick(w)
         \/ Acquire(w) \/ CycleEnds(w) \/ SyncNow(w) \/ ManualCycleEnds(w)
  \/ Stop \/ StopReturns \/ Exit \/ Crash \/ Boot

\* The timer is set again after every tick, and the call of every cycle ends: its
\* requests and its polling have time limits (JobSettles of IngestCycle).
SchedulerFairness ==
  /\ WF_schedulerVars(Query) /\ WF_schedulerVars(Loop)
  /\ WF_schedulerVars(StopReturns) /\ WF_schedulerVars(Exit) /\ WF_schedulerVars(Boot)
  /\ \A w \in Workspace :
       WF_schedulerVars(Acquire(w)) /\ WF_schedulerVars(CycleEnds(w)) /\ WF_schedulerVars(ManualCycleEnds(w))
         /\ WF_schedulerVars(LockExpires(w))

SchedulerSpec == SchedulerInit /\ [][SchedulerNext]_schedulerVars /\ SchedulerFairness

-----------------------------------------------------------------------------
\* Properties.

\* A cycle of the scheduler has its slot for as long as it runs, lease or not, and the
\* scheduler's leases are those of its running cycles: what a missed or skipped release
\* leaves in the row is nobody's, whatever slots are given back by cycles that end, by
\* cycles that are skipped and by the end of a process.
SlotsMatchLeases ==
  /\ running \subseteq inFlight
  /\ \A w \in Workspace : lock[w] = "scheduled" => w \in running
  /\ process = "down" => inFlight = {} /\ \A w \in Workspace : lock[w] # "manual"
  /\ process # "up" => tick = "query"

StopIsClean ==
  /\ process = "stopping" /\ process' = "stopped"
       => running' = {} /\ \A w \in Workspace : lock'[w] # "scheduled"
  /\ process = "stopped" => inFlight' \subseteq inFlight \/ \E w \in Workspace : LateKick(w)

\* When stop() returns, every cycle that a tick or a kick has started is over, those
\* beyond the cap and those kicked while it waited included; the only cycles that the
\* exit can cut off after that are manual ones and those of a late kick.
StopWaits == [][StopIsClean]_schedulerVars

TickIsCapped ==
  tick = "loop" /\ tick' = "query" => inFlight' \subseteq inFlight \/ Cardinality(inFlight') <= Cap

\* A tick takes no slot beyond the cap, whatever kicks have taken since its query;
\* only kicks go beyond it.
TicksKeepCap == [][TickIsCapped]_schedulerVars

\* Fewer than Cap other workspaces compete for the slots of a tick.
Room(w) ==
  Cardinality({v \in Workspace \ {w} : due[v] \/ v \in inFlight \/ v \in rows}) < Cap

\* A due workspace gets its cycle, however the query orders the rows, if from some
\* point on there is room for it: no failing cycle, skipped cycle, dropped kick,
\* manual cycle, shutdown or crash takes a slot, or a lock, away for ever.  Without
\* room it is not true: Cap workspaces whose imports keep failing can take every slot
\* of every tick.
DueGetsACycle ==
  \A w \in Workspace :
    <>[]Room(w) => (due[w] ~> lock[w] \in {"scheduled", "manual"} \/ ~due[w])
=============================================================================
