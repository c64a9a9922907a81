----------------------------- MODULE IngestCycle -----------------------------
(***************************************************************************)
(* The ingest cycle of one workspace: runWorkspaceCycle of                 *)
(* apps/api/src/ingest/orchestrator.ts, run by several workers (API        *)
(* processes, the scheduler, the manual sync route) against one database,  *)
(* one gbrain service and the user's own edits and clicks.                 *)
(*                                                                         *)
(* A worker is one call of runWorkspaceCycle.  Every await of the code is  *)
(* a boundary between steps.  A document is a version number of its        *)
(* connection's source: extraction reads the versions after the cursor, an *)
(* import puts them in gbrain, a commit moves the cursor.                  *)
(***************************************************************************)
EXTENDS IngestLock, FiniteSets

CONSTANTS Conn,        \* rows of the connections table of the workspace
          Kind,        \* Kind[k]: connections.kind
          MaxHead,     \* bound: source versions per connection
          MaxFaults    \* bound: deaths of workers and failing statements

ASSUME KindsAreKnown ==
  Kind \in [Conn -> {"notion-zip", "notion-composio", "github-repo"}]
ASSUME CycleBounds == MaxHead \in Nat /\ MaxFaults \in Nat

VARIABLES
  \* one call of runWorkspaceCycle
  pc,         \* where the worker is
  aborted,    \* the flag its heartbeat, loop and commits share
  snap,       \* cursors of the connections it selected
  got,        \* cursorsToCommit, for the ids in successfulIds
  todo,       \* connections still to extract, then still to commit
  cur,        \* the connection a two-step operation is about
  \* database
  status,     \* connections.status ("absent": no such row)
  deleted,    \* connections.deleted_at is set
  cursor,     \* connections.cursor, as the last version it covers
  job,        \* ingest_jobs.status of the worker's job
  \* outside
  gjob,       \* the gbrain import job the worker submitted
  staged,     \* the documents in that job's directory, per connection
  imported,   \* versions gbrain has imported
  head,       \* latest version in the source
  zips,       \* uploaded archives still on disk
  faults      \* faults so far, counted from any number

workVars == <<pc, aborted, snap, got, todo, cur>>
connVars == <<status, deleted, cursor>>
worldVars == <<gjob, staged, imported, head, zips, faults>>
vars == <<lockVars, workVars, connVars, job, worldVars>>

Version == 1..MaxHead
IsNotion(k) == Kind[k] \in {"notion-zip", "notion-composio"}
Zip == {k \in Conn : Kind[k] = "notion-zip"}
None == "none"

Pcs == {"idle", "insert", "load", "extract", "github", "submit", "poll", "fail",
        "release-failed", "commit", "write", "complete", "release", "abort",
        "done", "thrown", "dead"}

\* The cursors of the selected connections, and of those that succeeded.
LocalTypeOK(w) ==
  /\ DOMAIN snap[w] \subseteq Conn
  /\ DOMAIN got[w] \cup todo[w] \subseteq DOMAIN snap[w]
  /\ \A k \in DOMAIN snap[w] : snap[w][k] \in 0..MaxHead
  /\ \A k \in DOMAIN got[w] : got[w][k] \in 0..MaxHead

WorkTypeOK ==
  /\ pc \in [Worker -> Pcs]
  /\ aborted \in [Worker -> BOOLEAN]
  /\ DOMAIN snap = Worker /\ DOMAIN got = Worker
  /\ todo \in [Worker -> SUBSET Conn]
  /\ cur \in [Worker -> Conn \cup {None}]

RowTypeOK ==
  /\ status \in [Conn -> {"absent", "pending_import", "active", "completed",
                          "errored", "disconnected"}]
  /\ deleted \in [Conn -> BOOLEAN]
  /\ cursor \in [Conn -> 0..MaxHead]
  /\ job \in [Worker -> {None, "running", "completed", "failed"}]

WorldTypeOK ==
  /\ gjob \in [Worker -> {None, "running", "completed", "failed"}]
  /\ staged \in [Worker -> [Conn -> SUBSET Version]]
  /\ imported \in [Conn -> SUBSET Version]
  /\ head \in [Conn -> 0..MaxHead]
  /\ zips \subseteq Zip
  /\ faults \in 0..MaxFaults

TypeOK ==
  /\ LockTypeOK /\ WorkTypeOK /\ RowTypeOK /\ WorldTypeOK
  /\ \A w \in Worker : LocalTypeOK(w)

\* connections_one_notion_per_workspace, and hasActiveNotionConnection.
OtherNotion(k) ==
  \E o \in Conn \ {k} : IsNotion(o) /\ status[o] \notin {"absent", "disconnected"}

\* A write by id of any other status would give the workspace a second Notion row:
\* the user has disconnected this one, and connected another.
SecondNotion(k) == IsNotion(k) /\ status[k] = "disconnected" /\ OtherNotion(k)

\* Rows may be there, or have been disconnected earlier, or appear later.
Init ==
  /\ LockInit
  /\ pc = [w \in Worker |-> "idle"]
  /\ aborted = [w \in Worker |-> FALSE]
  /\ snap = [w \in Worker |-> <<>>]
  /\ got = [w \in Worker |-> <<>>]
  /\ todo = [w \in Worker |-> {}]
  /\ cur = [w \in Worker |-> None]
  /\ status \in [Conn -> {"absent", "pending_import", "disconnected"}]
  /\ \A k \in Conn : IsNotion(k) /\ status[k] = "pending_import" => ~OtherNotion(k)
  /\ deleted = [k \in Conn |-> status[k] = "disconnected"]
  /\ cursor = [k \in Conn |-> 0]
  /\ job = [w \in Worker |-> None]
  /\ gjob = [w \in Worker |-> None]
  /\ staged = [w \in Worker |-> [k \in Conn |-> {}]]
  /\ imported = [k \in Conn |-> {}]
  /\ head \in [Conn -> 1..MaxHead]
  /\ zips = Zip
  /\ faults \in 0..MaxFaults

-----------------------------------------------------------------------------
\* State functions.

At(w, label) == pc[w] = label
Go(w, label) == pc' = [pc EXCEPT ![w] = label]

LeaveIds(w, label) ==        \* mutant: the ids to commit survive the cycle
  /\ Go(w, label)
  /\ aborted' = [aborted EXCEPT ![w] = FALSE]
  /\ snap' = [snap EXCEPT ![w] = <<>>]
  /\ got' = [got EXCEPT ![w] = <<>>]
  /\ cur' = [cur EXCEPT ![w] = None]
  /\ UNCHANGED todo

\* runWorkspaceCycle returns or throws, and its local state is gone.
Leave(w, label) ==
  /\ Go(w, label)
  /\ aborted' = [aborted EXCEPT ![w] = FALSE]
  /\ snap' = [snap EXCEPT ![w] = <<>>]
  /\ got' = [got EXCEPT ![w] = <<>>]
  /\ todo' = [todo EXCEPT ![w] = {}]
  /\ cur' = [cur EXCEPT ![w] = None]

\* Between the insert of the job row and the finally block.
Running(w) == pc[w] \notin {"idle", "insert", "done", "thrown", "dead"}

Selected == {k \in Conn : status[k] \in {"pending_import", "active"} /\ ~deleted[k]}

\* successfulWithDocs: the connectors whose documents must go through gbrain.
WithDocs(w) ==
  {k \in DOMAIN got[w] : Kind[k] # "github-repo" /\ got[w][k] > snap[w][k]}

MergedButLast(w) ==          \* mutant: the newest document stays behind
  [k \in Conn |-> IF k \in WithDocs(w)
                    THEN {v \in Version : snap[w][k] < v /\ v < got[w][k]} ELSE {}]

\* mergeIntoFinal: the documents of the successful connections.
Merged(w) ==
  [k \in Conn |-> IF k \in WithDocs(w)
                    THEN {v \in Version : snap[w][k] < v /\ v <= got[w][k]} ELSE {}]

-----------------------------------------------------------------------------
\* Acquisition and the job row.

Start(w) ==
  /\ At(w, "idle")
  /\ AcquireWorkspaceLock(w)
  /\ Go(w, "insert")
  /\ UNCHANGED <<aborted, snap, got, todo, cur, connVars, job, worldVars>>

InsertJob(w) ==
  /\ At(w, "insert")
  /\ job' = [job EXCEPT ![w] = "running"]
  /\ Go(w, "load")
  /\ UNCHANGED <<lockVars, aborted, snap, got, todo, cur, connVars, worldVars>>

InsertJobFails(w) ==
  /\ At(w, "insert")
  /\ ReleaseLockWithoutAdvancing(w)
  /\ Leave(w, "done")
  /\ UNCHANGED <<connVars, job, worldVars>>

LoadConnections(w) ==
  /\ At(w, "load")
  /\ snap' = [snap EXCEPT ![w] = [k \in Selected |-> cursor[k]]]
  /\ todo' = [todo EXCEPT ![w] = Selected]
  /\ Go(w, "extract")
  /\ UNCHANGED <<lockVars, aborted, got, cur, connVars, job, worldVars>>

-----------------------------------------------------------------------------
\* The heartbeat loop.

HeartbeatFires(w) ==
  /\ Running(w) /\ ~aborted[w]
  /\ HeartbeatWrite(w)
  /\ UNCHANGED <<workVars, connVars, job, worldVars>>

HeartbeatComesBack(w) ==
  /\ Running(w)
  /\ HeartbeatReturn(w)
  /\ UNCHANGED <<workVars, connVars, job, worldVars>>

\* No row matched: another worker has the lock, or it was reclaimed.
HeartbeatMisses(w) ==
  /\ Running(w) /\ ~aborted[w]
  /\ beat[w] = NoLease /\ ~Matches(w)
  /\ aborted' = [aborted EXCEPT ![w] = TRUE]
  /\ UNCHANGED <<lockVars, pc, snap, got, todo, cur, connVars, job, worldVars>>

\* The statement fails, before it takes effect or after (.catch(() => null)).
HeartbeatFails(w) ==
  /\ Running(w) /\ ~aborted[w]
  /\ faults < MaxFaults
  /\ faults' = faults + 1
  /\ aborted' = [aborted EXCEPT ![w] = TRUE]
  /\ UNCHANGED <<lockVars, pc, snap, got, todo, cur, connVars, job,
                 gjob, staged, imported, head, zips>>

-----------------------------------------------------------------------------
\* Extraction, one connection after the other until the abort flag is seen.

Extracting(w, k) == At(w, "extract") /\ ~aborted[w] /\ k \in todo[w]

ExtractDocs(w, k) ==
  /\ Extracting(w, k)
  /\ Kind[k] # "github-repo"
  /\ k \in Zip => k \in zips
  /\ got' = [got EXCEPT ![w] = [j \in DOMAIN got[w] \cup {k} |->
                                  IF j = k THEN head[k] ELSE got[w][j]]]
  /\ todo' = [todo EXCEPT ![w] = @ \ {k}]
  /\ UNCHANGED <<lockVars, pc, aborted, snap, cur, connVars, job, worldVars>>

\* The connector throws: only last_error is written.
ExtractFails(w, k) ==
  /\ Extracting(w, k)
  /\ Kind[k] # "github-repo"
  /\ todo' = [todo EXCEPT ![w] = @ \ {k}]
  /\ UNCHANGED <<lockVars, pc, aborted, snap, got, cur, connVars, job, worldVars>>

\* The Composio profile or the integrity check rejects the account.
RejectAccount(w, k) ==
  /\ Extracting(w, k)
  /\ Kind[k] = "notion-composio"
  /\ ~SecondNotion(k)
  /\ status' = [status EXCEPT ![k] = "errored"]
  /\ todo' = [todo EXCEPT ![w] = @ \ {k}]
  /\ UNCHANGED <<lockVars, pc, aborted, snap, got, cur, deleted, cursor, job, worldVars>>

\* syncGitHubConnection: gbrain pulls and imports by itself, the cycle waits.
SyncGitHub(w, k) ==
  /\ Extracting(w, k)
  /\ Kind[k] = "github-repo"
  /\ cur' = [cur EXCEPT ![w] = k]
  /\ todo' = [todo EXCEPT ![w] = @ \ {k}]
  /\ Go(w, "github")
  /\ UNCHANGED <<lockVars, aborted, snap, got, connVars, job, worldVars>>

SyncGitHubSucceeds(w) ==
  LET k == cur[w] IN
  /\ At(w, "github")
  /\ imported' = [imported EXCEPT ![k] = @ \cup 1..head[k]]
  /\ got' = [got EXCEPT ![w] = [j \in DOMAIN got[w] \cup {k} |->
                                  IF j = k THEN head[k] ELSE got[w][j]]]
  /\ cur' = [cur EXCEPT ![w] = None]
  /\ Go(w, "extract")
  /\ UNCHANGED <<lockVars, aborted, snap, todo, connVars, job, gjob, staged, head, zips, faults>>

\* Any error, the abort flag included, marks the connection as errored.
SyncGitHubFails(w) ==
  /\ At(w, "github")
  /\ status' = [status EXCEPT ![cur[w]] = "errored"]
  /\ cur' = [cur EXCEPT ![w] = None]
  /\ Go(w, "extract")
  /\ UNCHANGED <<lockVars, aborted, snap, got, todo, deleted, cursor, job, worldVars>>

EndExtractionWhenDone(w) ==  \* mutant: the loop ends only when it is through
  /\ At(w, "extract")
  /\ todo[w] = {}
  /\ Go(w, IF aborted[w] THEN "abort"
           ELSE IF WithDocs(w) = {} THEN "commit" ELSE "submit")
  /\ todo' = [todo EXCEPT ![w] = DOMAIN got[w]]
  /\ UNCHANGED <<lockVars, aborted, snap, got, cur, connVars, job, worldVars>>

EndExtraction(w) ==
  /\ At(w, "extract")
  /\ todo[w] = {} \/ aborted[w]
  /\ Go(w, IF aborted[w] THEN "abort"
           ELSE IF WithDocs(w) = {} THEN "commit" ELSE "submit")
  /\ todo' = [todo EXCEPT ![w] = DOMAIN got[w]]
  /\ UNCHANGED <<lockVars, aborted, snap, got, cur, connVars, job, worldVars>>

-----------------------------------------------------------------------------
\* The gbrain import.

SubmitImport(w) ==
  /\ At(w, "submit")
  /\ gjob' = [gjob EXCEPT ![w] = "running"]
  /\ staged' = [staged EXCEPT ![w] = Merged(w)]
  /\ \/ Go(w, "poll")
     \/ Go(w, "fail")     \* the job id is lost, or the row update fails
  /\ UNCHANGED <<lockVars, aborted, snap, got, todo, cur, connVars, job,
                 imported, head, zips, faults>>

SubmitFails(w) ==
  /\ At(w, "submit")
  /\ Go(w, "fail")
  /\ UNCHANGED <<lockVars, aborted, snap, got, todo, cur, connVars, job, worldVars>>

\* cleanupCycle: gbrain still works on a directory that is being removed.
DirectoryGone(w) == pc[w] \in {"done", "thrown"}

\* gbrain itself: nothing in the API ever cancels a job.
ImportCompletes(w) ==
  /\ gjob[w] = "running"
  /\ gjob' = [gjob EXCEPT ![w] = "completed"]
  /\ \E found \in SUBSET Version :
       /\ ~DirectoryGone(w) => found = Version
       /\ imported' = [k \in Conn |-> imported[k] \cup (staged[w][k] \cap found)]
  /\ staged' = [staged EXCEPT ![w] = [k \in Conn |-> {}]]
  /\ UNCHANGED <<lockVars, workVars, connVars, job, head, zips, faults>>

ImportFails(w) ==
  /\ gjob[w] = "running"
  /\ gjob' = [gjob EXCEPT ![w] = "failed"]
  /\ staged' = [staged EXCEPT ![w] = [k \in Conn |-> {}]]
  /\ UNCHANGED <<lockVars, workVars, connVars, job, imported, head, zips, faults>>

PollTrustsAnyEnd(w) ==       \* mutant: any finished job counts as imported
  /\ At(w, "poll") /\ ~aborted[w]
  /\ gjob[w] \in {"completed", "failed"}
  /\ Go(w, "commit")
  /\ UNCHANGED <<lockVars, aborted, snap, got, todo, cur, connVars, job, worldVars>>

\* pollGbrain and the two tests after it.
PollSeesCompletion(w) ==
  /\ At(w, "poll") /\ ~aborted[w]
  /\ gjob[w] = "completed"
  /\ Go(w, "commit")
  /\ UNCHANGED <<lockVars, aborted, snap, got, todo, cur, connVars, job, worldVars>>

\* A failed job, an exception, or the poll limit.
PollGivesUp(w) ==
  /\ At(w, "poll") /\ ~aborted[w]
  /\ Go(w, "fail")
  /\ UNCHANGED <<lockVars, aborted, snap, got, todo, cur, connVars, job, worldVars>>

PollSeesAbort(w) ==
  /\ At(w, "poll") /\ aborted[w]
  /\ Go(w, "abort")
  /\ UNCHANGED <<lockVars, aborted, snap, got, todo, cur, connVars, job, worldVars>>

FailJob(w) ==
  /\ At(w, "fail")
  /\ job' = [job EXCEPT ![w] = "failed"]
  /\ Go(w, "release-failed")
  /\ UNCHANGED <<lockVars, aborted, snap, got, todo, cur, connVars, worldVars>>

ReleaseFailed(w) ==
  /\ At(w, "release-failed")
  /\ ReleaseLockWithoutAdvancing(w)
  /\ Leave(w, "done")
  /\ UNCHANGED <<connVars, job, worldVars>>

-----------------------------------------------------------------------------
\* commitIfStillOwned: a SELECT of the lock row, then a separate statement.

CheckFlagOnly(w, label) ==   \* mutant: the lock row is not read
  /\ UNCHANGED aborted
  /\ Go(w, IF aborted[w] THEN "abort" ELSE label)

\* Where the check leaves the worker: at the statement, or aborted.
CheckOwned(w, label) ==
  /\ aborted' = [aborted EXCEPT ![w] = @ \/ ~Matches(w)]
  /\ Go(w, IF aborted'[w] THEN "abort" ELSE label)

CheckCommit(w, k) ==
  /\ At(w, "commit") /\ k \in todo[w]
  /\ CheckOwned(w, "write")
  /\ cur' = [cur EXCEPT ![w] = k]
  /\ UNCHANGED <<lockVars, snap, got, todo, connVars, job, worldVars>>

CommitCursor(w) ==
  LET k == cur[w] IN
  /\ At(w, "write")
  /\ ~SecondNotion(k)
  /\ cursor' = [cursor EXCEPT ![k] = got[w][k]]
  /\ status' = [status EXCEPT ![k] = IF k \in Zip THEN "completed" ELSE "active"]
  /\ todo' = [todo EXCEPT ![w] = @ \ {k}]
  /\ cur' = [cur EXCEPT ![w] = None]
  /\ Go(w, "commit")
  /\ UNCHANGED <<lockVars, aborted, snap, got, deleted, job, worldVars>>

\* The unique index rejects a commit, or the write (and the one of the catch block
\* after it) for a rejected account: the exception leaves runWorkspaceCycle, the job
\* row as it is and the lock to its lease.
IndexRejects(w) ==
  /\ \/ At(w, "write") /\ SecondNotion(cur[w])
     \/ \E k \in Conn : /\ Extracting(w, k) /\ Kind[k] = "notion-composio"
                       /\ SecondNotion(k)
  /\ Abandon(w)
  /\ Leave(w, "thrown")
  /\ UNCHANGED <<connVars, job, worldVars>>

CheckComplete(w) ==
  /\ At(w, "commit") /\ todo[w] = {}
  /\ CheckOwned(w, "complete")
  /\ UNCHANGED <<lockVars, snap, got, todo, cur, connVars, job, worldVars>>

CompleteJob(w) ==
  /\ At(w, "complete")
  /\ job' = [job EXCEPT ![w] = "completed"]
  /\ Go(w, "release")
  /\ UNCHANGED <<lockVars, aborted, snap, got, todo, cur, connVars, worldVars>>

\* releaseLockOnSuccess; the archives are removed only if it found the lock.
ReleaseCompleted(w) ==
  /\ At(w, "release")
  /\ zips' = IF Matches(w) THEN zips \ DOMAIN got[w] ELSE zips
  /\ ReleaseLockOnSuccess(w)
  /\ Leave(w, "done")
  /\ UNCHANGED <<connVars, job, gjob, staged, imported, head, faults>>

\* abortLockLost: the job fails and the lock row is left as it is.
AbortLockLost(w) ==
  /\ At(w, "abort")
  /\ job' = [job EXCEPT ![w] = "failed"]
  /\ Abandon(w)
  /\ Leave(w, "done")
  /\ UNCHANGED <<connVars, worldVars>>

-----------------------------------------------------------------------------
\* Around the cycle.

\* A statement or a directory fails where no catch is: the selects, the writes of an
\* extraction, mkdir, mergeIntoFinal, a check, a commit, failJob.  Where the call
\* aborts, the failure is swallowed, with the same effect.
Throws(w) ==
  /\ Running(w) \/ At(w, "insert")
  /\ faults < MaxFaults
  /\ faults' = faults + 1
  /\ Abandon(w)
  /\ Leave(w, "thrown")
  /\ UNCHANGED <<connVars, job, gjob, staged, imported, head, zips>>

\* The process dies.
Die(w) ==
  /\ Running(w) \/ At(w, "insert")
  /\ faults < MaxFaults
  /\ faults' = faults + 1
  /\ Abandon(w)
  /\ Leave(w, "dead")
  /\ UNCHANGED <<connVars, job, gjob, staged, imported, head, zips>>

\* POST /connections/... for a row that does not exist yet.
Connect(k) ==
  /\ status[k] = "absent"
  /\ ~(IsNotion(k) /\ OtherNotion(k))
  /\ status' = [status EXCEPT ![k] = "pending_import"]
  /\ UNCHANGED <<lockVars, workVars, deleted, cursor, job, worldVars>>

\* DELETE /connections/:id, in whatever state the row is.
Disconnect(k) ==
  /\ status[k] \notin {"absent", "disconnected"}
  /\ status' = [status EXCEPT ![k] = "disconnected"]
  /\ deleted' = [deleted EXCEPT ![k] = TRUE]
  /\ UNCHANGED <<lockVars, workVars, cursor, job, worldVars>>

\* Somebody edits the source; an uploaded archive does not change.
Edit(k) ==
  /\ k \notin Zip /\ head[k] < MaxHead
  /\ head' = [head EXCEPT ![k] = @ + 1]
  /\ UNCHANGED <<lockVars, workVars, connVars, job, gjob, staged, imported, zips, faults>>

ClockTicks == Tick /\ UNCHANGED <<workVars, connVars, job, worldVars>>

SchedulerReclaims == ReclaimExpiredLocks /\ UNCHANGED <<workVars, connVars, job, worldVars>>

-----------------------------------------------------------------------------
\* The worker's own next statement, and everything else.
Proceed(w) ==
  \/ InsertJob(w) \/ InsertJobFails(w) \/ LoadConnections(w)
  \/ \E k \in Conn : \/ ExtractDocs(w, k) \/ ExtractFails(w, k)
                     \/ RejectAccount(w, k) \/ SyncGitHub(w, k)
                     \/ CheckCommit(w, k)
  \/ SyncGitHubSucceeds(w) \/ SyncGitHubFails(w) \/ EndExtraction(w)
  \/ SubmitImport(w) \/ SubmitFails(w)
  \/ PollSeesCompletion(w) \/ PollGivesUp(w) \/ PollSeesAbort(w)
  \/ FailJob(w) \/ ReleaseFailed(w)
  \/ CommitCursor(w) \/ IndexRejects(w)
  \/ CheckComplete(w) \/ CompleteJob(w) \/ ReleaseCompleted(w)
  \/ AbortLockLost(w)

Heartbeat(w) ==
  HeartbeatFires(w) \/ HeartbeatComesBack(w) \/ HeartbeatMisses(w) \/ HeartbeatFails(w)

Next ==
  \/ \E w \in Worker : Start(w) \/ Proceed(w) \/ Heartbeat(w) \/ Throws(w) \/ Die(w)
                       \/ ImportCompletes(w) \/ ImportFails(w)
  \/ \E k \in Conn : Connect(k) \/ Disconnect(k) \/ Edit(k)
  \/ ClockTicks
  \/ SchedulerReclaims

Spec == Init /\ [][Next]_vars

\* A running cycle keeps running: its awaits end (the poll loop by its time
\* limit).  Nothing is assumed of users, gbrain, heartbeats or the clock.
Fairness == \A w \in Worker : WF_vars(Proceed(w))
FairSpec == Spec /\ Fairness

-----------------------------------------------------------------------------
\* Properties.

\* Nothing is lost between the source and gbrain: a version that the cursor
\* covers, and so is never extracted again, has been imported, and so has every
\* document of an archive that was removed from disk; whatever cycles were
\* aborted, raced, died or failed on the way.
NothingLost ==
  \A k \in Conn : /\ 1..cursor[k] \subseteq imported[k]
                  /\ k \in Zip \ zips => 1..head[k] \subseteq imported[k]

\* A worker that lost the lock before a check of commitIfStillOwned writes
\* nothing more: what a stale worker can still do is bounded by the one
\* statement it may already have been sent to.
StaleWriterStops ==
  [][\A w \in Worker : At(w, "commit") /\ ~Holds(w) =>
       pc'[w] \in {"commit", "abort", "thrown", "dead"}]_vars

\* What a later cycle will extract again: a source that has grown since its cursor,
\* and an archive for as long as it is on disk.
Owed == {k \in Conn : cursor[k] < head[k] /\ (k \in Zip => k \in zips)}

Mirror == INSTANCE SourceMirror WITH
  Doc <- Conn, content <- [k \in Conn |-> 1..head[k]], copy <- imported, owed <- Owed

\* gbrain mirrors the sources: it only gains what a source has had, and a source that
\* no cycle would extract again is in gbrain as a whole, although cursors are moved by
\* workers that read them long before, some of them back.
ImplementsMirror == Mirror!Spec

\* Every call of runWorkspaceCycle ends, whatever its heartbeat, its connectors and
\* gbrain do, and has settled its job row by then, unless the process died or an
\* exception ended the call that nothing catches: a statement that failed, or a row
\* that was disconnected and replaced.  These rows stay "running", of live processes
\* as of dead ones.
JobSettles ==
  \A w \in Worker :
    job[w] = "running" ~> (job[w] # "running" \/ At(w, "thrown") \/ At(w, "dead"))

-----------------------------------------------------------------------------
\* What the documentation and the schema say, and the code does not do.

\* "Partial unique index; disconnected rows do not count" (schema.ts): a row
\* the user disconnected stays disconnected, so that it never stands in the way
\* of a new Notion connection.
DisconnectedRowsDoNotCount == \A k \in Conn : deleted[k] => status[k] = "disconnected"

\* "If the lock is lost, the cycle aborts and avoids advancing stale state":
\* a cursor is advanced only by the worker that holds the lock.
NoStaleAdvance ==
  [][\A k \in Conn : cursor'[k] # cursor[k] =>
       \E w \in Worker : At(w, "write") /\ cur[w] = k /\ Holds(w)]_vars

\* "Lock heartbeats prevent two workers from importing the same workspace at
\* once": gbrain never runs the imports of two cycles of the workspace together.
OneImportAtATime == Cardinality({w \in Worker : gjob[w] = "running"}) <= 1

\* "Releases the workspace lock": a cycle that completed its job does not leave
\* its own lease in the row.
LockReleasedAtEnd ==
  [][\A w \in Worker : At(w, "release") /\ pc'[w] = "done" => lockUntil' # Token(w)]_vars
=============================================================================
