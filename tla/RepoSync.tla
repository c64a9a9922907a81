------------------------------- MODULE RepoSync -------------------------------
(***************************************************************************)
(* A GitHub repository of one workspace: how it is connected, synced and   *)
(* disconnected (routes/connections/github.ts, routes/connections/         *)
(* index.ts), what the webhooks of GitHub do to its rows                   *)
(* (routes/webhooks/github.ts), and how a cycle syncs it                   *)
(* (ingest/orchestrator.ts, syncGitHubConnection).                         *)
(*                                                                         *)
(* Requests, webhooks and the cycle write the same two rows, connections   *)
(* and github_repo_connections, one statement at a time and by id.  gbrain *)
(* holds the clone ("source") and pulls it through the git proxy with a    *)
(* token that the row has to know.  All connections are of one repository  *)
(* and branch.  Commits are numbered in the order of their pushes.         *)
(***************************************************************************)
EXTENDS Integers, FiniteSets

CONSTANTS MaxConn,      \* bound: connections made
          Req,          \* requests of users, each made once
          NoToken,      \* git_proxy_token_hash IS NULL
          FirstToken,   \* the token of a connection made before
          RepoPrivate,  \* the repository is private: gbrain pulls it through the proxy
          PeriodicPull, \* ingest_mode = 'periodic_pull'
          MaxCommit,    \* bound: commits
          MaxFailures   \* bound: crashes, failing calls, lost webhooks

ASSUME RepoSyncConstants ==
  /\ IsFiniteSet(Req)
  /\ RepoPrivate \in BOOLEAN /\ PeriodicPull \in BOOLEAN
  /\ MaxConn \in Nat \ {0} /\ MaxCommit \in Nat \ {0} /\ MaxFailures \in Nat
  /\ NoToken \notin Req /\ FirstToken \notin Req /\ NoToken # FirstToken

VARIABLES
  \* GitHub
  head,      \* the branch's newest commit
  installed, \* the app is installed
  events,    \* webhooks on their way: commits, 0 for "installation deleted"
  \* gbrain
  source,    \* the source of each connection
  job,       \* its sync job
  \* PostgreSQL
  conn,      \* connections
  repo,      \* github_repo_connections
  \* the API process
  req,
  kicks,     \* calls of kick that have not looked at inFlight yet
  cycle,
  failures

github == <<head, installed, events>>
gbrain == <<source, job>>
rows == <<conn, repo>>
repoVars == <<github, gbrain, rows, req, kicks, cycle, failures>>

Conn == 1..MaxConn
CommitNumber == 0..MaxCommit
Token == Req \cup {NoToken, FirstToken}
\* errored, auth_required and degraded are one: they differ in what the user is told.
Sync == {"syncing", "fresh", "behind", "errored"}

Connection == [status : {"none", "pending_import", "active", "errored", "disconnected"},
               deleted : BOOLEAN]
RepoRow == [exists : BOOLEAN, sync : Sync, registered : BOOLEAN, token : Token,
            headSha : CommitNumber, indexed : CommitNumber]
\* gbrain's copy; clone_state is 'healthy', or the commit may be any.
Source == [there : BOOLEAN, token : Token, commit : CommitNumber, healthy : BOOLEAN]
Request == [op : {"add", "sync", "patch", "retry", "repair", "disconnect"},
            conn : Conn,
            pc : {"new", "over", "insert", "token", "source", "record", "fail", "failConn", "behind",
                  "pending", "syncing", "remove", "forget", "disconnect"}]

NoSource == [there |-> FALSE, token |-> NoToken, commit |-> 0, healthy |-> TRUE]
NoRepo == [exists |-> FALSE, sync |-> "syncing", registered |-> FALSE, token |-> NoToken,
           headSha |-> 0, indexed |-> 0]
NoRequest == [op |-> "sync", conn |-> 1, pc |-> "new"]
Over == [NoRequest EXCEPT !.pc = "over"]
NoCycle == [pc |-> "idle", on |-> 1, todo |-> {}, done |-> {}, saw |-> 0]

\* The cycle: the connection it is at, those still to sync, those whose status is to be
\* committed, and the commit that gbrain said it had.
Cycle == [pc : {"idle", "select", "next", "mark", "submit", "poll", "fresh", "degraded",
                "fail", "failConn", "commit"},
          on : Conn, todo : SUBSET Conn, done : SUBSET Conn, saw : CommitNumber]

RepoTyped ==
  /\ head \in 1..MaxCommit /\ installed \in BOOLEAN /\ events \subseteq CommitNumber
  /\ source \in [Conn -> Source]
  /\ job \in [Conn -> {"none", "running", "completed", "failed"}]
  /\ conn \in [Conn -> Connection] /\ repo \in [Conn -> RepoRow]
  /\ req \in [Req -> Request]
  /\ kicks \in Nat
  /\ cycle \in Cycle
  /\ failures \in 0..MaxFailures

\* The types of the rows, of gbrain's sources, of the requests and of the cycle; each
\* request and each push kicks once.
RepoTypeOK == RepoTyped /\ kicks <= Cardinality(Req) + MaxCommit - 1

Old == [exists |-> TRUE, sync |-> "fresh", registered |-> TRUE,
        token |-> IF RepoPrivate THEN FirstToken ELSE NoToken, headSha |-> head, indexed |-> head]

\* Nothing is connected, or one connection has been synced before.
RepoInit ==
  /\ head \in 1..MaxCommit   \* how many pushes are to come
  /\ installed = TRUE /\ events = {}
  /\ job = [c \in Conn |-> "none"]
  /\ \E old \in {{}, {1}} :
       /\ repo = [c \in Conn |-> IF c \in old THEN Old ELSE NoRepo]
       /\ source = [c \in Conn |-> [there |-> c \in old, token |-> repo[c].token,
                                    commit |-> repo[c].indexed, healthy |-> TRUE]]
       /\ conn = [c \in Conn |-> [status |-> IF c \in old THEN "active" ELSE "none",
                                  deleted |-> FALSE]]
  /\ req \in [Req -> {NoRequest, Over}]   \* and how many requests and failures
  /\ failures \in 0..MaxFailures
  /\ kicks = 0
  /\ cycle = NoCycle

-----------------------------------------------------------------------------
\* GitHub and its webhooks.

Push ==
  /\ head < MaxCommit
  /\ head' = head + 1
  /\ events' = events \cup {head'}
  /\ UNCHANGED <<installed, gbrain, rows, req, kicks, cycle, failures>>

Uninstall ==
  /\ installed
  /\ installed' = FALSE
  /\ events' = events \cup {0}
  /\ UNCHANGED <<head, gbrain, rows, req, kicks, cycle, failures>>

Known == {c \in Conn : repo[c].exists}

\* markGitHubReposBehind: every row of that repository, whatever its connection.  Its
\* select and its update by id are one step: no row goes away in between, and one that
\* is inserted has its request's own kick to come.
HandlePush(commit) ==
  /\ commit \in events \ {0}
  /\ events' = events \ {commit}
  /\ repo' = [c \in Conn |-> IF c \in Known
                THEN [repo[c] EXCEPT !.headSha = commit, !.sync = "behind"] ELSE repo[c]]
  /\ kicks' = kicks + Cardinality(Known)
  /\ UNCHANGED <<head, installed, gbrain, conn, req, cycle, failures>>

\* markGitHubInstallationAuthRequired
AuthRequired ==
  [c \in Conn |-> IF c \in Known THEN [repo[c] EXCEPT !.sync = "errored"] ELSE repo[c]]

HandleUninstall ==
  /\ 0 \in events
  /\ events' = events \ {0}
  /\ repo' = AuthRequired
  /\ UNCHANGED <<head, installed, gbrain, conn, req, kicks, cycle, failures>>

\* The handler runs after the answer: a webhook that fails is not sent again.
LoseEvent ==
  /\ failures < MaxFailures /\ failures' = failures + 1
  /\ \E e \in events : events' = events \ {e}
  /\ UNCHANGED <<head, installed, gbrain, rows, req, kicks, cycle>>

Webhook == HandleUninstall \/ \E commit \in CommitNumber : HandlePush(commit)

-----------------------------------------------------------------------------
\* Requests of users.

Goes(r, pc) == req' = [req EXCEPT ![r].pc = pc]
Ends(r) == req' = [req EXCEPT ![r] = Over]
At(r, pc) == req[r].pc = pc

\* An update of a row that was never inserted changes nothing.
SetSync(c, status) ==
  repo' = IF repo[c].exists THEN [repo EXCEPT ![c].sync = status] ELSE repo
SetStatus(c, status) == conn' = [conn EXCEPT ![c].status = status]

\* createGitHubConnectionRow: the connection is inserted first.
Add(r) ==
  /\ At(r, "new") /\ installed
  /\ \E c \in Conn :
       /\ \A k \in Conn : conn[k].status = "none" <=> k >= c
       /\ SetStatus(c, "pending_import")
       /\ req' = [req EXCEPT ![r] = [op |-> "add", conn |-> c, pc |-> "insert"]]
  /\ UNCHANGED <<github, gbrain, repo, kicks, cycle, failures>>

\* The unique index of workspace, repository and branch: disconnected rows count.
RepoTaken(c) == Known \ {c} # {}

InsertRepo(r) ==
  /\ At(r, "insert")
  /\ LET c == req[r].conn IN
     \/ /\ RepoTaken(c)
        /\ Ends(r) /\ UNCHANGED repo
     \/ /\ ~RepoTaken(c)
        /\ repo' = [repo EXCEPT ![c] = [NoRepo EXCEPT !.exists = TRUE,
                                          !.token = IF RepoPrivate THEN r ELSE NoToken]]
        /\ Goes(r, "source")
  /\ UNCHANGED <<github, gbrain, conn, kicks, cycle, failures>>

\* The routes of an existing row begin by loading it.
FirstStep(op, c) ==
  CASE op = "sync" -> "pending"
    [] op \in {"patch", "repair"} -> "behind"
    [] op = "retry" -> IF repo[c].registered THEN "syncing"
                       ELSE IF RepoPrivate THEN "token" ELSE "source"

Manage(r) ==
  /\ At(r, "new")
  /\ \E c \in Known, op \in {"sync", "patch", "repair", "retry"} :
       req' = [req EXCEPT ![r] = [op |-> op, conn |-> c, pc |-> FirstStep(op, c)]]
  /\ UNCHANGED <<github, gbrain, rows, kicks, cycle, failures>>

RenewToken(r) ==
  /\ At(r, "token")
  /\ repo' = [repo EXCEPT ![req[r].conn].token = r]
  /\ Goes(r, "source")
  /\ UNCHANGED <<github, gbrain, conn, kicks, cycle, failures>>

\* gbrain takes a source that it has already, or refuses it; its answer may be lost.
SourcesAdd(r) ==
  /\ At(r, "source")
  /\ LET c == req[r].conn
         added == [source EXCEPT ![c].there = TRUE,
                                 ![c].token = IF RepoPrivate THEN r ELSE NoToken] IN
     \/ source' = added /\ Goes(r, "record") /\ UNCHANGED failures
     \/ /\ source[c].there
        /\ Goes(r, "fail") /\ UNCHANGED <<source, failures>>
     \/ /\ failures < MaxFailures /\ failures' = failures + 1
        /\ source' \in {source, added} /\ Goes(r, "fail")
  /\ UNCHANGED <<github, job, rows, kicks, cycle>>

RecordRegistration(r) ==
  /\ At(r, "record")
  /\ repo' = [repo EXCEPT ![req[r].conn].registered = TRUE, ![req[r].conn].sync = "syncing"]
  /\ IF req[r].op = "add" THEN Ends(r) /\ kicks' = kicks + 1
                          ELSE Goes(r, "syncing") /\ UNCHANGED kicks
  /\ UNCHANGED <<github, gbrain, conn, cycle, failures>>

MarkRegistrationError(r) ==
  \/ /\ At(r, "fail")
     /\ SetSync(req[r].conn, "errored")
     /\ Goes(r, "failConn")
     /\ UNCHANGED <<github, gbrain, conn, kicks, cycle, failures>>
  \/ /\ At(r, "failConn")
     /\ SetStatus(req[r].conn, "errored")
     /\ Ends(r)
     /\ UNCHANGED <<github, gbrain, repo, kicks, cycle, failures>>

\* The last write of a route is followed by its kick.
EndsWithKick(r) == Ends(r) /\ kicks' = kicks + 1

SetPendingKicks(r) ==   \* mutant: a sync request kicks after each of its two writes
  /\ At(r, "pending")
  /\ SetStatus(req[r].conn, "pending_import")
  /\ kicks' = kicks + 1
  /\ IF req[r].op = "sync" THEN Goes(r, "syncing") ELSE Ends(r)
  /\ UNCHANGED <<github, gbrain, repo, cycle, failures>>

SetPending(r) ==
  /\ At(r, "pending")
  /\ SetStatus(req[r].conn, "pending_import")
  /\ IF req[r].op = "sync" THEN Goes(r, "syncing") /\ UNCHANGED kicks ELSE EndsWithKick(r)
  /\ UNCHANGED <<github, gbrain, repo, cycle, failures>>

SetSyncing(r) ==
  /\ At(r, "syncing")
  /\ SetSync(req[r].conn, "syncing")
  /\ EndsWithKick(r)
  /\ UNCHANGED <<github, gbrain, conn, cycle, failures>>

SetBehind(r) ==
  /\ At(r, "behind")
  /\ SetSync(req[r].conn, "behind")
  /\ IF req[r].op = "patch" THEN Goes(r, "pending") /\ UNCHANGED kicks ELSE EndsWithKick(r)
  /\ UNCHANGED <<github, gbrain, conn, cycle, failures>>

Disconnect(r) ==
  /\ At(r, "new")
  /\ \E c \in Conn :
       /\ conn[c].status # "none"
       /\ req' = [req EXCEPT ![r] = [op |-> "disconnect", conn |-> c,
                                     pc |-> IF repo[c].registered THEN "remove" ELSE "forget"]]
  /\ UNCHANGED <<github, gbrain, rows, kicks, cycle, failures>>

\* gbrain may refuse to remove a source that is gone: the route gives up with 502.
SourcesRemove(r) ==
  /\ At(r, "remove")
  /\ LET c == req[r].conn IN
     \/ /\ source' = [source EXCEPT ![c] = NoSource] /\ Goes(r, "forget") /\ UNCHANGED failures
     \/ /\ ~source[c].there /\ Ends(r) /\ UNCHANGED <<source, failures>>
     \/ /\ failures < MaxFailures /\ failures' = failures + 1
        /\ source' \in {source, [source EXCEPT ![c] = NoSource]} /\ Ends(r)
  /\ UNCHANGED <<github, job, rows, kicks, cycle>>

ForgetToken(r) ==
  /\ At(r, "forget")
  /\ LET c == req[r].conn IN
     repo' = IF repo[c].exists
             THEN [repo EXCEPT ![c].token = NoToken, ![c].sync = "fresh"] ELSE repo
  /\ Goes(r, "disconnect")
  /\ UNCHANGED <<github, gbrain, conn, kicks, cycle, failures>>

SetDisconnected(r) ==
  /\ At(r, "disconnect")
  /\ conn' = [conn EXCEPT ![req[r].conn] = [status |-> "disconnected", deleted |-> TRUE]]
  /\ Ends(r)
  /\ UNCHANGED <<github, gbrain, repo, kicks, cycle, failures>>

Asks(r) == Add(r) \/ Manage(r) \/ Disconnect(r)
Serves(r) ==
  \/ InsertRepo(r) \/ RenewToken(r) \/ SourcesAdd(r) \/ RecordRegistration(r)
  \/ MarkRegistrationError(r) \/ SetPending(r) \/ SetSyncing(r) \/ SetBehind(r)
  \/ SourcesRemove(r) \/ ForgetToken(r) \/ SetDisconnected(r)

-----------------------------------------------------------------------------
\* The cycle.  Kicks and ticks that find one running do nothing.

Live(c) == conn[c].status # "none" /\ ~conn[c].deleted

Due ==
  \E c \in Conn : /\ Live(c)
                  /\ \/ conn[c].status = "pending_import"
                     \/ PeriodicPull /\ conn[c].status = "active"

Idle == cycle.pc = "idle"
Starts == cycle' = [NoCycle EXCEPT !.pc = "select"]

SchedulerTick ==
  /\ Idle /\ Due
  /\ Starts
  /\ UNCHANGED <<github, gbrain, rows, req, kicks, failures>>

Kick ==
  /\ kicks > 0
  /\ kicks' = kicks - 1
  /\ IF Idle THEN Starts ELSE UNCHANGED cycle
  /\ UNCHANGED <<github, gbrain, rows, req, failures>>

CycleAt(pc) == cycle.pc = pc
CycleGoes(pc) == cycle' = [cycle EXCEPT !.pc = pc]

SelectPending ==   \* mutant: a cycle serves new connections only
  /\ CycleAt("select")
  /\ cycle' = [cycle EXCEPT
       !.pc = "next", !.todo = {c \in Conn : Live(c) /\ conn[c].status = "pending_import"}]
  /\ UNCHANGED <<github, gbrain, rows, req, kicks, failures>>

Select ==
  /\ CycleAt("select")
  /\ cycle' = [cycle EXCEPT
       !.pc = "next",
       !.todo = {c \in Conn : Live(c) /\ conn[c].status \in {"pending_import", "active"}}]
  /\ UNCHANGED <<github, gbrain, rows, req, kicks, failures>>

\* The repository's row is read, or there is nothing left to sync.
LoadRepo ==
  /\ CycleAt("next")
  /\ \/ /\ cycle.todo = {}
        /\ CycleGoes("commit")
     \/ \E c \in cycle.todo :
          cycle' = [cycle EXCEPT !.todo = @ \ {c}, !.on = c,
                      !.pc = IF repo[c].registered THEN "mark" ELSE "fail"]
  /\ UNCHANGED <<github, gbrain, rows, req, kicks, failures>>

MarkSyncing ==
  /\ CycleAt("mark")
  /\ SetSync(cycle.on, "syncing")
  /\ CycleGoes("submit")
  /\ UNCHANGED <<github, gbrain, conn, req, kicks, failures>>

SubmitSync ==
  /\ CycleAt("submit")
  /\ \/ /\ job' = [job EXCEPT ![cycle.on] = "running"]
        /\ CycleGoes("poll") /\ UNCHANGED failures
     \/ /\ failures < MaxFailures /\ failures' = failures + 1
        /\ CycleGoes("fail") /\ UNCHANGED job
  /\ UNCHANGED <<github, source, rows, req, kicks>>

\* loadSourceForProxyToken finds the row by the token of the clone's URL.
CanPull(c) ==
  /\ source[c].there
  /\ ~RepoPrivate \/ /\ installed
                     /\ source[c].token = repo[c].token
                     /\ Live(c) /\ conn[c].status # "disconnected"

\* A job may complete and leave a clone that is not healthy, for good or until a later one.
JobPulls(c) ==
  /\ job[c] = "running" /\ CanPull(c)
  /\ job' = [job EXCEPT ![c] = "completed"]
  /\ \/ /\ source' = [source EXCEPT ![c].commit = head, ![c].healthy = TRUE]
        /\ UNCHANGED failures
     \/ /\ \E commit \in {0, source[c].commit, head} :
             source' = [source EXCEPT ![c].commit = commit, ![c].healthy = FALSE]
        /\ IF source[c].healthy THEN failures < MaxFailures /\ failures' = failures + 1
                                ELSE UNCHANGED failures
  /\ UNCHANGED <<github, rows, req, kicks, cycle>>

\* The proxy, told by GitHub that the app is gone, marks the installation's rows.
JobFails(c) ==
  /\ job[c] = "running"
  /\ \/ ~CanPull(c) /\ UNCHANGED failures
     \/ CanPull(c) /\ failures < MaxFailures /\ failures' = failures + 1
  /\ job' = [job EXCEPT ![c] = "failed"]
  /\ repo' = IF RepoPrivate /\ ~installed THEN AuthRequired ELSE repo
  /\ UNCHANGED <<github, source, conn, req, kicks, cycle>>

Poll ==
  /\ CycleAt("poll")
  /\ LET c == cycle.on IN
     \/ /\ job[c] = "completed" /\ source[c].there
        /\ cycle' = [cycle EXCEPT !.saw = source[c].commit,
                                 !.pc = IF source[c].healthy THEN "fresh" ELSE "degraded"]
        /\ job' = [job EXCEPT ![c] = "none"] /\ UNCHANGED failures
     \/ /\ job[c] \in {"completed", "failed"} /\ (source[c].there => job[c] = "failed")
        /\ CycleGoes("fail")
        /\ job' = [job EXCEPT ![c] = "none"] /\ UNCHANGED failures
     \/ /\ job[c] = "running" /\ failures < MaxFailures   \* the poll gives up
        /\ failures' = failures + 1
        /\ CycleGoes("fail") /\ UNCHANGED job
  /\ UNCHANGED <<github, source, rows, req, kicks>>

\* Either way the sync counts as a success, and the connection becomes active.
WriteFresh ==
  /\ CycleAt("fresh") \/ CycleAt("degraded")
  /\ repo' = [repo EXCEPT ![cycle.on].indexed = cycle.saw, ![cycle.on].headSha = cycle.saw,
                          ![cycle.on].sync = IF CycleAt("fresh") THEN "fresh" ELSE "errored"]
  /\ cycle' = [cycle EXCEPT !.pc = "next", !.done = @ \cup {cycle.on}, !.on = 1, !.saw = 0]
  /\ UNCHANGED <<github, gbrain, conn, req, kicks, failures>>

SyncFailsQuietly ==   \* mutant: only the repository's row tells of the failure
  /\ CycleAt("fail")
  /\ SetSync(cycle.on, "errored")
  /\ cycle' = [cycle EXCEPT !.pc = "next", !.on = 1]
  /\ UNCHANGED <<github, gbrain, conn, req, kicks, failures>>

SyncFails ==
  \/ /\ CycleAt("fail")
     /\ SetSync(cycle.on, "errored")
     /\ CycleGoes("failConn")
     /\ UNCHANGED <<github, gbrain, conn, req, kicks, failures>>
  \/ /\ CycleAt("failConn")
     /\ SetStatus(cycle.on, "errored")
     /\ cycle' = [cycle EXCEPT !.pc = "next", !.on = 1]
     /\ UNCHANGED <<github, gbrain, repo, req, kicks, failures>>

\* The statuses are written by id, one after the other; then the lock is released.
CommitStatus ==
  /\ CycleAt("commit")
  /\ \/ /\ cycle.done = {}
        /\ cycle' = NoCycle /\ UNCHANGED conn
     \/ \E c \in cycle.done :
          /\ SetStatus(c, "active")
          /\ cycle' = [cycle EXCEPT !.done = @ \ {c}]
  /\ UNCHANGED <<github, gbrain, repo, req, kicks, failures>>

RunsCycle ==
  \/ Select \/ LoadRepo \/ MarkSyncing \/ SubmitSync \/ Poll \/ WriteFresh \/ SyncFails
  \/ CommitStatus

\* The API process dies: requests, the cycle and what was about to kick are gone.
Crash ==
  /\ failures < MaxFailures /\ failures' = failures + 1
  /\ req' = [r \in Req |-> IF At(r, "new") THEN NoRequest ELSE Over]
  /\ kicks' = 0
  /\ cycle' = NoCycle
  /\ UNCHANGED <<github, gbrain, rows>>

-----------------------------------------------------------------------------
RunsJob == \E c \in Conn : JobPulls(c) \/ JobFails(c)

RepoNext ==
  \/ Push \/ Uninstall \/ Webhook \/ LoseEvent
  \/ SchedulerTick \/ Kick \/ RunsCycle \/ RunsJob \/ Crash
  \/ \E r \in Req : Asks(r) \/ Serves(r)

\* The process and gbrain do what they have begun, and the scheduler ticks.
RepoFairness ==
  /\ WF_repoVars(SchedulerTick) /\ WF_repoVars(Kick)
  /\ WF_repoVars(RunsCycle) /\ WF_repoVars(RunsJob)
  /\ \A r \in Req : WF_repoVars(Serves(r))

RepoSpec == RepoInit /\ [][RepoNext]_repoVars /\ RepoFairness

-----------------------------------------------------------------------------
\* Properties.

\* Every push ends up in gbrain: once pushes, requests and failures have ceased, an
\* active connection whose clone is healthy has indexed the newest commit, and one whose
\* clone is not is not shown as fresh; neither is called behind.  Webhooks may be lost,
\* handled in the wrong order or while a cycle that pulled before them is about to write
\* fresh, and kicks that meet a cycle are dropped.
LatestCommitIsIndexed ==
  \A c \in Conn : <>[](Live(c) /\ conn[c].status = "active"
                          => /\ repo[c].sync # "behind"
                             /\ IF source[c].healthy
                                THEN repo[c].indexed = head /\ repo[c].headSha = head
                                ELSE repo[c].sync # "fresh")

\* A connection does not import for ever: one that was added, or sent to import
\* again, becomes active or errored, also when it has no repository row because
\* the repository was taken or the process died between the two inserts.
PendingSettles ==
  \A c \in Conn : (Live(c) /\ conn[c].status = "pending_import")
                    ~> (~Live(c) \/ conn[c].status # "pending_import")

\* A connection and its repository's row are inserted one after the other, and the
\* unique index counts the rows of disconnected connections: whatever requests meet
\* in between, the repository has one row, of one connection.
OneRepositoryRow == \A c, d \in Known : c = d

\* A connection is shown as active only with a row whose source gbrain has taken:
\* requests that register, repair or give up write that row while a cycle that
\* read it earlier is about to write the status, by id.
ActiveIsRegistered == \A c \in Conn : conn[c].status = "active" => repo[c].registered

\* What the row says of commits was pushed, and gbrain pulled it: nothing that is
\* shown, on its way, or in gbrain is ahead of the branch.
NothingIsAhead ==
  /\ \A c \in Conn : /\ repo[c].headSha <= head /\ repo[c].indexed <= head
                     /\ source[c].commit <= head
  /\ \A e \in events : e <= head
  /\ cycle.saw <= head

KeepsRegistration ==
  \A c \in Conn : /\ repo[c].exists => repo'[c].exists
                  /\ repo[c].registered => repo'[c].registered

\* No request, webhook or cycle takes a repository's row or its registration back,
\* by an insert over it or otherwise.
RegistrationIsKept == [][KeepsRegistration]_repoVars
=============================================================================
