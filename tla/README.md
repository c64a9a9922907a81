# open42: a TLA+ model of the API

open42 puts a product shell (sign-in, tenancy, connectors, chat, billing) around
gbrain, a knowledge service that runs once per workspace. The shell is an Express
API with a PostgreSQL database, a BullMQ queue in Redis and a handful of services it
does not control: gbrain, Composio, GitHub, Stripe, Fly or a local Docker. Nearly
every operation is a sequence of awaits over two or more of these, several API
processes run next to each other, and only a few operations sit inside a database
transaction. These modules model that: each step between two awaits is an action,
every other actor may run in between, and the properties say what must hold
whatever the interleaving, the failures and the deaths of processes.

Paths below are relative to the root of the repository. `api/` abbreviates
`apps/api/src/` and `cloud/` abbreviates `packages/cloud/api/`.

## Contents

1. The system: its components, their state, operations and hazards
2. The modules and how they correspond to the code
3. The runs: what each shows, its bounds
4. Fairness
5. The theorems and their proofs
6. Where the code and its documentation disagree
7. What is not modelled, and the plan

## 1. The system

### How the parts meet

| Shared thing | Who writes it | Who relies on it |
| --- | --- | --- |
| `workspaces.status`, `.plan` | onboarding form, retry button, payment hook, provision worker | every route that needs a runtime |
| `workspaces.ingest_lock_until` | ingest cycles, scheduler (reclaim) | ingest cycles |
| `connections.status`, `.cursor` | connect and disconnect routes, ingest cycles | scheduler (what is due), ingest cycles |
| `github_repo_connections` | repository routes, GitHub webhooks, git proxy, ingest cycles | the repository list, the git proxy's check of a token |
| `skill_versions`, `skill_citation_provenance`, `skill_staleness` | mint, revise, export, share, sweeps | exports, sweeps |
| `workspace_mcp_clients`, `workspace_mcp_access_tokens` | members' and admins' routes, the public proxy | the public proxy |
| `workspace_billing` | Stripe webhooks | onboarding, usage metering |
| `billing_usage_events` | provider proxy, retry loop | retry loop, the free allowance |
| `memberships`, `workspace_invites` | members' routes, sign-in | every route (role checks) |
| BullMQ job per workspace | onboarding, retry, payment hook | provision worker |
| gbrain jobs, staged files | ingest cycles | gbrain, which reads the files |

Inside one process the parts call each other directly; between processes they only
meet in PostgreSQL and Redis. There is no message bus. Callbacks come from BullMQ
("failed" events, stalled jobs), from timers (heartbeats, retry loop, scheduler) and
from webhooks (Stripe, GitHub), each of which may come twice, late or not at all.

### Inventory

The status is `modelled`, `partly` or `not`; section 7 has the reasons.

**Ingest lock** (`api/ingest/locks.ts`; modelled). State: one timestamp column that
is lock, expiry and token at once. Operations: acquire if free or expired, heartbeat
by compare-and-set, two releases, reclaim. Hard: a paused worker and its successor
both think they own the workspace; a heartbeat is answered after the row has changed.
Correct when: one owner at a time, and a lease may be relied upon until its instant.

**Ingest cycle** (`api/ingest/orchestrator.ts`, `staging.ts`; partly). State: a job
row, connection cursors and statuses, staged documents, a gbrain import, archives on
disk. Operations: select connections, extract each, submit one import, poll it, commit
each cursor, complete, clean up; abort from the heartbeat at any await. Hard: partial
failure per connection, crash between import and commit, users who disconnect in the
middle, a poll that gives up while the import runs. Correct when: no version is behind
a cursor without being in gbrain; every cycle settles its job row.

**Ingest scheduler** (`orchestrator.ts` from line 555; partly). State: a timer, a set of
running cycles. Operations: tick (reclaim, pick workspaces up to the cap), kick, stop.
Hard: starvation (the due query has no order), a kick that meets a running cycle and is
dropped, a lease that stays when its cycle has ended, a shutdown next to manual cycles and late
kicks. Correct when: a due workspace gets a cycle.

**Notion connector** (`api/connectors/notion-composio/`; partly). State: page cursor and
high-water mark in the connection's cursor. Operations: search pages newest first, fetch,
stop at the page limit, commit. Hard: pages that are edited while the list is being read
over several cycles, and twice within a minute; one failed check of the account ends the reading.
Correct when: every edit reaches gbrain.

**Notion archives** (`routes/connections/notion-zip.ts`, `api/connectors/notion-zip/`; not).
Unpacking and upload.

**Connections and OAuth** (`routes/connections/composio.ts`, `index.ts`; partly). State:
signed state tokens, Composio accounts, connection rows with a partial unique index.
Operations: init, finalize, disconnect. Hard: two finalizes at once, abandoned attempts.
Correct when: at most one live Notion connection; an account belongs to its workspace.
Only disconnecting is modelled, in `RepoSync` and `IngestCycle`.

**GitHub repositories** (`routes/connections/github.ts`, `routes/webhooks/github.ts`, the
git proxy; partly). State: sync status, registration with gbrain, proxy token, head and
indexed commit. Operations: add, sync, patch, retry, repair, disconnect, push and
uninstall webhooks, a cycle's sync. Hard: all of them update two rows by id, statement by
statement, around calls of gbrain. Correct when: what is shown as synced is synced in the
end, and nothing imports for ever.

**Tenant provisioning** (`api/queue/provision-*.ts`, `api/tenants/provision.ts`,
`routes/workspaces/provision.ts`; partly). State: workspace row, BullMQ job, advisory
lock, provider runtime, secrets. Operations: submit the form, pay, retry, attempt, fail,
stall, recover. Hard: two attempts at once after a lost job lock, a retry next to a
running job, death after the runtime was made. Correct when: a ready workspace's
secrets fit the runtime that is there; failed means given up; unpaid never starts (but see
section 6).

**Usage metering** (`cloud/billing/usage.ts`; partly). State: usage rows and Stripe
meter events. Operations: record a proxied request, report it, retry what is unreported.
Hard: concurrent requests share a free allowance, lost answers from Stripe, the retry
loop and a request writing the same row. Correct when: the allowance is given once, a
unit is charged at most once and in the end is.

**Stripe webhooks and subscriptions** (`cloud/routes/webhooks/stripe.ts`,
`cloud/billing/webhook-events.ts`, `cloud/billing/service.ts`; partly). State: claimed
events, the billing row, the workspace status. Operations: claim, sync, start
provisioning, mark processed or failed; the owner's own request to start. Hard:
duplicates, any order, crash with a claim, handlers that outlive theirs. Correct when:
provisioning starts once, a payment is not lost behind an acknowledged event, every
event is processed.

**Membership, invites, hint** (`routes/workspaces/{accept,invites,members,
index-router}.ts`, `routes/auth.ts`; partly). State: memberships, invites,
`users.current_workspace_id`. Operations: invite, resend, revoke, accept (two ways),
change role, remove, switch workspace. Hard: checks and writes are separate statements;
only accept is a transaction. Correct when: nobody joins without spending an invite of
theirs, there is one owner, and a revocation that was answered ok holds.

**Skills** (`routes/skills/mint.ts`, `api/skills/`; partly). State: versions, captured text
of the citations, explainer, signing key. Operations: mint, revise, export, share. Hard:
requests wait for a language model between reading the latest version and writing the
next. Correct when: no revision is lost, what is handed out verifies.

**Skill staleness** (`api/queue/skill-staleness-*`; modelled). State: open flags on versions.
Operations: sweep (compare, resolve, select, insert). Hard: sweeps overlap, the text changes
between the comparison and the write, and one loop without a catch goes over all workspaces.
Correct when: flags tell in the end what the beginning of the document says.

**MCP proxies** (`routes/gbrain-public-proxy.ts`, `routes/workspaces/mcp-proxy.ts`; partly).
State: registered clients, tokens, a switch. Operations: name or claim a client, revoke it,
turn the proxy on or off, grant, use and give back a token. Hard: gbrain issues clients and
tokens before the rows are written, and hears of no revocation; transactions that wait for
each other's rows. Correct when: what was ended stays cut off.

**Chat and library; provider proxy and keys** (not). Streams and forwarded requests, with
little state between requests. What a proxied request costs is in usage metering.

**Sign-in and sessions** (`routes/auth.ts`, `api/auth/`; not). Codes and identities are
Supabase's; the sign-in that accepts an invite is in Membership.

**Database schema; web, mobile and landing pages; infrastructure** (not). The
constraints that matter are guards in the modules; the interfaces' requests are the
users' actions of the modules.

`PROJECT.json` lists the hazards of these components one by one, at the line where each
bites, with the property that watches it.

## 2. The modules

| Module | Models | Composes |
| --- | --- | --- |
| `LeaseLock` | what the ingest lock promises: one owner or nobody, hand-over through nobody | |
| `IngestLock` | the timestamp protocol of `ingest/locks.ts` | implements `LeaseLock` |
| `SourceMirror` | what ingestion promises of a source: gbrain only gains what the source has had, and what nobody reads again is up to date | |
| `PaymentGate` | what billing promises: the gate opens for a payment, once; one job follows; a payment done with has opened it | |
| `UsageLedger` | what metering promises: a request is entered once, within the allowance, billed once if it is owed, listed until it is | |
| `IngestCycle` | `runWorkspaceCycle` with its environment | extends `IngestLock`, implements its `LockSpec` and `SourceMirror` |
| `IngestScheduler` | which workspace gets a cycle, and when | stands on `JobSettles` of `IngestCycle` |
| `NotionPull` | the resumable pull of the Notion connector | the extraction that `IngestCycle` takes in one step; implements `SourceMirror` |
| `RepoSync` | a repository's rows next to requests, webhooks and cycles | |
| `Provisioning` | one workspace from the form to a ready runtime | |
| `UsageMetering` | what proxied requests cost | implements `UsageLedger` |
| `StripeWebhooks` | how a payment reaches a workspace | implements `PaymentGate` |
| `Membership` | who belongs to one workspace | |
| `Skills` | versions of a skill, its exports and the sweeps that flag them | |
| `McpProxy` | who may reach a workspace's gbrain from outside | |
| `MC*` | the sets and scenarios the runs use | extend one module each |
| `*_proofs` | theorems | extend the modules they are about; `IngestCycle_proofs` holds those of `IngestLock` and `IngestScheduler` too, `Connectors_proofs` those of `NotionPull` and `RepoSync` |

Conventions. `pc`-like variables name the statement a request or worker executes next;
a step between two awaits is one action. Names follow the source where TLA+ allows it;
`PROJECT.json` ("map") gives for each definition the lines it stands for. Constants
whose names begin with `Max` are bounds, and each is named as such where it is declared.
`faults` counts deaths of processes, failed calls and lost answers. A definition with
the comment "mutant" is a plausible bug in the definition that follows it, and no part
of the specification: each property of a passing run fails when its mutant is put in place.

### IngestLock and LeaseLock

`lockUntil` is `workspaces.ingest_lock_until`; `lease[w]` is `expectedLease` in the
memory of worker `w`. A heartbeat is two actions, `HeartbeatWrite` (the UPDATE) and
`HeartbeatReturn` (the assignment of its answer); `beat[w]` is the value in between. The
acquire tests `LockIsFree` (null or strictly in the past); each later statement compares
the column with the lease (`Matches`). Leases are distinct: two leases of one workspace
are at least one heartbeat interval apart in milliseconds.

`ImplementsLeaseLock` is the refinement: `Owner` is the worker whose latest token is in
the row as long as it has not expired, and `LeaseLock!Spec` holds of it.

### IngestCycle

A worker is one call of `runWorkspaceCycle`. Its path is `idle, insert, load, extract,
(github), submit, poll, commit, write, complete, release, done`, with `fail`,
`release-failed`, `abort`, `thrown` and `dead` on the side: `thrown` is a call that an exception
has ended while its process lives on (`Throws` for a statement or a directory that fails outside
of a catch, `IndexRejects` for the unique index of Notion connections, at a commit and at the write
of `errored`), `dead` a process that is gone. A document is a version number of its
connection's source; `cursor[k]` is the last version a cursor covers, `snap[w]` the
cursors the worker read, `got[w]` the ones it is to commit, `imported[k]` what gbrain has.
The ownership check of a commit (`CheckCommit`, `CheckComplete`) and the write after it
(`CommitCursor`, `CompleteJob`) are separate actions, as the code awaits in between.
`Heartbeat` runs beside everything and sets `aborted`. gbrain finishes or fails a
submitted import at any time, also after the worker has stopped waiting for it. Users
connect, disconnect and edit at any time. GitHub repositories are imported by their own
call during extraction, so they take no part in the import of staged documents.

`ImplementsMirror` is the refinement of `SourceMirror`: a document is a connection's source, the
versions it has had are `1..head`, gbrain's copy is `imported`, and a source is owed (`Owed`) while
its cursor is behind it and, if it is an archive, while it is still on disk.

### IngestScheduler

`due[w]` is what the due query asks of a workspace apart from its lock, `lock[w]` whose lease
the workspace has: the scheduler's cycle's, a manual one's, or one that is `left`, by a dead
process or by a cycle whose release missed or was skipped (`Releases`). `inFlight` are the slots,
`running` the cycles that were given the lock; a lease may lapse under a cycle (`Lapses`). `Query` and
`Loop` are the two halves of a tick: the rows are read before the slots are counted, and any
of them may be the ones that fit (`Starts`), as the query has no order. A kick does not look
at the cap, nor whether the scheduler was stopped: a webhook that was answered before the server
closed is handled after it (`LateKick`). `Stop`, `StopReturns`, `Exit`, `Crash` and `Boot` are
deployments: the shutdown waits for the scheduler's cycles only. A cycle is `Acquire` and
`CycleEnds`, and may leave the workspace due.
(`SchedulerInit`, `SchedulerNext` and so on carry the prefix because the module shares one of proofs
with `IngestCycle`, as do those of `RepoSync` with `NotionPull`.)

### NotionPull

Times are minutes, as Notion's `last_edited_time` is rounded to them; the content of a page is
its `version`. The five variables of the stored cursor are `since_iso`, `page_cursor`,
`cycle_since_iso`, `cycle_max_seen_iso`, and the pages that the page cursor leads to. A call of
`extract` searches (`Search`), reads one item at a time with whatever content the page has by
then (`ReadItem`, `StopAtOldItem`), and ends in `Import` and `Commit`. Notion is external: all
that is assumed of a page cursor is that it leads to a tail of the list, and that no page
leaves that tail except by being edited (`TailsAfter`). `Reject` is the check of the Composio profile
and account that comes before `extract`: it fails once and the connection is `errored`, which no cycle
selects; `Reconnect` is the user's way out, a new row without a cursor. `ImplementsMirror` is the same refinement
for this connector: a document is a page, and it is owed when the stored cursor leads to it again
(`StillToRead`). So the cycle and the pull promise the same of a source, each by its own means.

### RepoSync

`conn` and `repo` are the two rows, `source` and `job` gbrain's. `Add`, `Manage` and
`Disconnect` begin a request, and `Serves` is its statements in the order of the routes;
`FirstStep` says where each route starts. `Push` and `Uninstall` put a webhook on its way,
which is handled in any order, or lost, since the handler answers before it works.
The cycle is `syncGitHubConnection` for one repository after the other and then the commit of
the statuses; `JobPulls` and `JobFails` are gbrain's job, which pulls through the git proxy and
so needs the token of the row (`CanPull`). A job may leave a clone that is not healthy, with the old commit,
the new one or none: the poll then ends in `degraded`, the row is `errored` and the connection active.
Commits are numbered in the order of their pushes. The select and the update of a push's handler are
one step: the update names the row by its id and writes what the push said.

### Skills

One skill that cites one document. A version is a row with the version it was made from
(`base`), its explainer, the captured text (`provenance`) and its open flag (`stale`); its number
is its position. A request keeps the version and the explainer as it loaded them. `Refresh` is
`refreshStaleVersionForExport`, `MaterializeExplainer` writes what the model gave into the stored
row, `DeleteProvenance` and `InsertProvenance` are the two statements of a capture, `LoadKey` and
`InsertKey` the get-or-create of the signing key. What a text says is told apart by passages: a
mint may cite any passage it contains (`Contained`), an export captures its first 6000 characters
(`Excerpt`), and a sweep looks for the captured passage within these only (`Shown`). A sweep takes its
candidates at its start and compares, resolves, selects and inserts for one after the other; unique
indexes turn the slower of two inserts into a failure of the whole request or sweep. `Stumble` ends
a sweep anywhere, as often as it likes: the loop over the candidates of all workspaces has no
catch, so that another workspace's failure is this one's. A request may stop at any statement.

### McpProxy

`client` and `token` are the two tables, `holder` the row locks. An UPDATE of several rows is
`Choose` (its rows are those that match when it starts) and one `UpdateRow` for each, which
waits for the row and looks at it again; `CommitOff` and `CommitRevoke` make it visible. `Fail`
ends any request anywhere, without a commit: this is also how PostgreSQL breaks a deadlock.
`ended` records what the answer of a committed revocation said, and `late` whether the token of a
call had been ended when the call came. gbrain is taken to issue a new token with every answer, so
that the upsert of `recordIssuedAccessToken`, which would clear `revoked_at`, meets no row.

### Provisioning

`status`, `plan`, `secret` are the workspace row (`secret` names the runtime that the
stored proxy token and OAuth client fit); `jobState`, `attemptsMade`, `manualRetry`,
`holder` are the BullMQ job, whose id is the workspace's; `wpc[s]` is where slot `s` of a
worker is. The payment hook (`SubscriptionSynced`, `CheckUnpaid`, `StartProvisioning`),
the form (`CreateWorkspace`, `ReadUnpaid`, `ChangePlan`, `Enqueue`) and the retry button
(`RetryRequested`, `MarkProvisioning`, `RemoveJob`, `AddJob`) are sequences of
statements; an attempt is `TakeJob, ResetRow, EnterLock, FindWorkspace, CreateRuntime,
VerifyRuntime, Persist, LeaveLock, ReportDone | ReportFailed, MarkFailed`. `EnterLock` is
`pg_advisory_xact_lock`; a slot that loses its job lock (`JobLockExpires`) keeps running
next to the slot the job goes to. `overtaken` remembers that a form has written over a row that
had changed since it read it. The runtime provider sees no transaction: what
`CreateRuntime` replaced stays replaced when the transaction rolls back.

### UsageMetering

A call is `recordLlmUsage` for one proxied request: `Arrive` reads the clock, `Allocate`
opens the transaction with the workspace's advisory lock and counts the free requests of
the period, `InsertUsage` commits the row, `Report` calls Stripe with the row's stored
identifier, `MarkMetered` or `MarkFailed` writes the outcome. A pass of the retry loop
locks its rows (FOR UPDATE SKIP LOCKED: `Candidates` leaves out what is `Locked`), reports
them and commits all outcomes at its end. `meter` is the set of identifiers Stripe has
counted: a repeated identifier adds nothing, which is what makes retries safe.
`SubscriptionSynced` moves the period start and usability at any time, in any direction,
because webhooks come in any order. `rawDates` is a fact of the deployment, chosen once: whether the
driver answers the raw query of the retry loop with dates. Where it answers with text,
`occurredAt.getTime()` throws before Stripe is asked and each row of a pass is marked as failed.
`ImplementsLedger` maps a row's status to what the request was
entered as (`Kind`), `meter` to the bills of each call, and the statuses that the retry loop selects
to the ledger's list.

### StripeWebhooks

`message[e]` is what event `e` says: the subscription object itself (`payload`), a
reference that the handler must fetch (`fetch`), or neither. A delivery claims the event
(`ClaimInsert, ClaimLook, Reclaim`), takes the subscription, writes the billing row
without comparing versions, reads it back, starts provisioning by compare-and-set,
enqueues, and marks the event; `Visit` is the owner's `POST /billing/provision`, which
enters the same body at the read. `claim[e] = "stale"` says that ten minutes have passed:
`ClaimIsAbandoned` when its handler is gone, `ClaimIsOutlived` when it is not.
`ImplementsPaymentGate` maps the status to the gate, the usable versions the customer has bought to
the payments, the enqueued jobs to the jobs, and the versions of processed events to what is settled.

### Membership

`role`, `hint`, `to/grade/status` are the rows; a request is a sequence of statements and
`who`/`about` are what it carries from one to the next. Inviting checks for an existing
member, then upserts on the partial unique index of pending invites; onboarding upserts
without that check. Accepting is a transaction: the row lock is `lock[i]`, and what the
transaction writes becomes visible in `Commit`. Revoking is an update guarded by
`status = 'pending'`, followed by a second read that decides between ok and 409; `told`
records that ok was answered. The sign-in path (`AskVerify, LockVerified,
InsertMembership`) reads the invite before its transaction and checks it again under the
lock; the accept route (`LockInvite, LookForMember`) reads it under the lock only.

## 3. The runs

All runs are exhaustive within their bounds.

| Run | Configuration | Question and result |
| --- | --- | --- |
| `ingest_cycle` | two workers; a live Notion connection, an archive the user may replace, or a repository; TTLs 1, clock and leases to 4, 2 versions, 1 fault | Does anything get lost, can a stale worker go on committing, do cursors and imports mirror the sources, does the protocol implement the lock? 1.7 million states, no error |
| `ingest_settles` | the same two workers, repository or archive, 1 version, 1 fault | Does each cycle settle its job row that no death and no uncaught exception ends? Yes; 415 thousand states |
| `ingest_scheduler` | three workspaces for two slots, 2 outages (shutdowns, crashes, failing queries, late kicks) | Does a due workspace with room get a cycle? Yes; 234 thousand states |
| `notion_pull` | three pages, cycles of two, three instants, 2 edits, 1 failed cycle or check of the account | Is an edit lost, does each reach gbrain? No, and yes; 1.5 million states |
| `repo_sync` | two connections of a private repository; one push with two requests, or with one and 2 failures; or two pushes with a failure | Does what is shown as synced end up with the newest commit, does an import settle? Yes; 960 thousand states |
| `provisioning` | two forms, or one and a fault; one retry, one payment, two slots, 2 attempts | Does ready mean served, failed mean given up, does each job end, and is a form that overtook another the only way around the payment? Yes; 1.2 million states |
| `usage_metering` | three calls (one is never accepted by Stripe), two passes, one free request, two instants, 1 fault | Is the allowance kept, do calls and retries together keep the ledger, is a unit charged in the end, if the loop can read its time? Yes; 720 thousand states |
| `stripe_webhooks` | one subscription with two versions, two events, two deliveries at a time, one visit, 1 fault, 1 outlived claim | Do deliveries and visits implement the payment gate, is no payment lost, is every event processed? Yes; 1.0 million states |
| `membership` | owner and guest, two invites, three concurrent requests, restarted without limit | Can anyone get in, stay in or be told wrong? No; 4.1 million states |
| `skills` | two requests, two sweepers, three versions, two texts with two passages, 1 edit | Is a revision lost, does every bundle verify, do the flags converge once sweeps get through? No, yes, yes; 3.0 million states |
| `mcp_proxy` | an admin and a member, two clients, two tokens, two concurrent requests, restarted without limit | Does a call get through after the end of its client or token? No; 1.3 million states |
| `ghost_row` | one worker, no fault | Section 6: a statement of the schema that the code does not keep |

What the properties say:

- `NothingLost`: a version that a cursor covers, and so is never extracted again, is in
  gbrain; so is every document of an archive that was removed from disk.
- `StaleWriterStops`: a worker that lost the lock before an ownership check is sent to no
  further commit. (A statement it had already been sent to may still run: see section 6.)
- `LeaseGuarantee`: until the instant of its lease nobody else has the workspace.
- `ImplementsLeaseLock`, `ImplementsMirror`, `ImplementsLedger`, `ImplementsPaymentGate`: each step
  of the code is a step of the abstract specification or none. They say more than the invariants
  they stand for, since they also say what may never be taken back: a version from gbrain, a call's
  kind or its bill, an open gate, a settled payment.
- `DueGetsACycle`: no failing cycle, dropped kick, manual cycle, shutdown or crash takes a slot
  or a lock from a due workspace for ever. It is conditional on room: fewer than `Cap` other
  workspaces compete for ever (see section 6).
- `NoEditLost`, `EditsAreImported`: a page whose content gbrain does not have will be read again,
  by what the stored cursor says; and it is, once the users stop editing, unless the connection is
  left `errored`.
- `LatestCommitIsIndexed`, `PendingSettles`: an active connection with a healthy clone has the newest
  commit in the end, and one with a broken clone is not shown as fresh, though webhooks are lost or
  swapped and kicks dropped (with periodic pulls); a connection does not stay `pending_import`.
- `NoLostRevision`, `BundlesVerify`, `FlagConverges`: each version was made from the one before it;
  each bundle is signed with the key the workspace publishes; a version is flagged in the end
  if and only if the first 6000 characters of the document do not contain its captured text, provided
  that from some time on every sweep ends by a step of its own.
- `EndedIsCutOff`: a call that comes after a revocation was answered is never forwarded.
- `JobSettles`, `JobEnds`, `ChargesGetReported`, `EventsGetProcessed`: what was begun ends. A cycle's
  row is settled unless a death or an uncaught exception ends its call (section 6); a unit is charged
  if `RetriesWork`, that is, if the driver gives dates and the rows that Stripe rejects for good are
  fewer than the loop's limit.
- `ReadyIsServed`: the secrets of a ready row fit the runtime that exists.
- `FailedOnlyWhenGivenUp`: a row is failed with a job still to run only after a retry.
- `PaidFirst`: a workspace on a paid plan is not provisioned without a subscription, however many
  forms are open, but for one case that it names: a form that writes over a row which has changed
  since it was read (section 6).
- `AllowanceKept`, `ImplementsLedger`: free units are given once; charged units are counted once,
  under one meter event, and a row leaves the list of the retry loop only when they are.
- `ImplementsPaymentGate`, `PaidLeavesGate`, `ProcessedIsApplied`, `ClaimsExclude`: one job per
  payment; a processed event has had its effect; no more handlers of an event than claims
  that were outlived, plus one.
- `OneOwner`, `RevokedIsRevoked`, `HintWasEarned`, `JoinsSpendInvites`:
  who is in got in by an invite of theirs, which is spent, and an answer is true for ever.

Why the bounds are enough to meet the hazards. Every race in this code is between two
actors of one kind or a pair of kinds, so two workers, slots, deliveries or passes, with
one of each other actor, produce them; `membership` has three requests because an accept
may run between the two statements of an invite while a third request removes the member.
Two requests in `mcp_proxy` suffice for each pair that shares a row, and a call that comes later uses
a request that has ended; its theorem has any number. Three workspaces for two slots are the fewest
that compete; cycles of two pages over three are the fewest that resume.
One fault reaches each crash point of each process, since the fault may come at any step;
what needs two (a crash of the recovery) is left to the theorems, which have no bound on
faults. Two attempts give a first, a last and a repeated attempt. Two versions tell "the
cursor moved to what was read" from "the cursor moved to what is there now". A clock of
four instants with leases of one lets a lease expire, pass to the other worker and expire
again. Of the three usage calls, one is rejected for ever, one takes the free unit and one
is charged; a limit of two rows per pass lets a pass be full. Two commits after the first are the fewest
whose webhooks can swap. Two passages, of which one is first far down in the document and then at its
beginning, tell what is cited from what is compared.

Some scenarios are cut by hand. `skills` starts with the longer of two texts.
`repo_sync` lets two requests meet, gives one request two failures, or has two pushes with a failure.
In `provisioning` the second form is submitted only when no fault is left and until it has overtaken
the first. In `usage_metering` the fault is left for the deployments whose driver gives dates. In
`notion_pull` all pages exist at the start, so that the first import takes two cycles; pages
written later are the theorem's. `mcp_proxy` and `membership` use symmetry, as does
`ingest_cycle`; no run of a liveness property does.

Deadlock is checked in `membership`, `mcp_proxy`, `notion_pull`, `skills` and `ingest_scheduler`,
where requests, cycles or sweeps never stop. In the other runs the system really comes to
rest: clocks, faults, users and retries stop at their bounds.

## 4. Fairness

Weak fairness is assumed of what the code itself keeps going, and of nothing else.

| Module | Assumed | Because | Not assumed of |
| --- | --- | --- | --- |
| `IngestCycle` | `Proceed(w)`: a live worker's next statement | awaits return or throw; the poll loop has a time limit | users, gbrain, heartbeats, the clock, other workers' start |
| `IngestScheduler` | `Query`, `Loop`, `StopReturns`, `Exit`, `Boot`; each cycle's `Acquire` and end; `LockExpires` of a lease that is left | the timer is set again after every tick, the call of a cycle ends (`JobSettles`), a process is restarted, leases run out | becoming due, kicks, manual cycles, stops, crashes |
| `NotionPull` | `Start` of a connection that is not `errored`, `Call` | the scheduler starts cycles, a call goes on | edits, the clock, failures, the user's `Reconnect` |
| `RepoSync` | `SchedulerTick`, `Kick`, `RunsCycle`, `RunsJob`, `Serves(r)` | the scheduler ticks, a cycle and gbrain finish or fail, a request goes on | pushes, uninstalling, webhooks, new requests, faults |
| `Skills` | `Sweeps(s)` | the job is repeated every 20 minutes | requests, the model, edits; that sweeps do not `Stumble` for ever is a premise of `FlagConverges`, as nothing in the code sees to it |
| `Provisioning` | `Serve`, `Attempt`, `MarkFailed`, `RecoverStalledJob`, `BackoffEnds` | requests that began go on, workers take jobs, BullMQ moves stalled and delayed jobs | users, payments, faults |
| `UsageMetering` | `Record(c)`, `Retry(p)` | a call goes on, the retry timer fires for ever | arrivals, subscription events, the clock |
| `StripeWebhooks` | `Step(h)`, delivery of each sent event, `ClaimIsAbandoned` | Stripe redelivers until it is acknowledged, ten minutes pass | the customer, other events, failures |

`McpProxy` and `Membership` state no fairness: their properties are safety properties.

Two of these are stronger than reality in a named way: Stripe gives up redelivering after
some days, and BullMQ's stalled check presumes some worker process is running.
The job row of a worker that died, or whose call an uncaught exception ended, stays `running` for
ever, and `JobSettles` says so by its exceptions.

## 5. The theorems

All theorems hold for every value of the constants that satisfies the named assumptions
(any sets of workers, slots, requests and users, any TTLs, any bound): `Call`,
`Delivery`, `Page` and `Workspace` are finite sets, nulls are not values, TTLs and attempts are positive. They
are about `Spec`, without fairness, so that every safety property checked by TLC with
the fair specification is proved of more behaviours.

**Ingest lock.** `LockIsExclusive` and `LeaseIsKept` follow from `IInv`. Mutual exclusion
alone is not inductive: a worker that lost the lock still carries a token, and only the
clock keeps that token apart from those granted later. `PastOrPresent` says exactly that
(a token is in the row or in the past), `BeatIsRenewal` that an unanswered heartbeat has
promised more than the lease it renews. `OwnedMeansHeld` adds `RowIsNewest`, for a
heartbeat that went through unnoticed. `Refinement` shows `ImplementsLeaseLock`: no step
passes the row from one unexpired owner to another (`NoHandOver`).

**Ingest cycle.** `CycleFollowsLock` maps each of the cycle's steps to a step of the lock
or a stutter, which gives `CycleIsExclusive` and `CycleKeepsLease` from the lock's
theorems (`CycleFollowsLock` is in no run: the cycle's `LockSpec` is only proved). `NothingIsLost` needs what every worker carries towards the cursors: the cursors
it read were covered and gbrain forgets nothing (`SnapIsCovered`), an archive is extracted
whole (`GotIsSound`), the import it polls is about its own extraction (`ImportIsOwn`), and
after the import what it is to commit is covered (`GotIsCovered`). Note that the proof never
uses the lock: nothing is lost even by a stale worker that commits.
`StaleWriterIsStopped` is the action property. `CycleMirrors` is the refinement: the import of a
worker's extraction is `Import`, a commit of a cursor is `Settle`, even when a slow worker moves a
cursor back (then sources are owed anew), because all that `owed` gives up is in gbrain by
`NothingLost` in the new state.

**Ingest scheduler.** `SchedulerInv` is its types and `SlotsMatchLeases`: a cycle that was given the lock
keeps its slot until its call is over, and a lease of the scheduler belongs to such a cycle; what
a missed or skipped release leaves in the row is nobody's (`left`). `StopWaitsForCycles` follows, as
stop() waits for `inFlight` only: when it returns no cycle of a tick or a kick runs, and after that
only a late kick starts one, which the exit may cut off like a manual one. `CapHoldsForTicks`
follows from the arithmetic of `Starts` over finite sets. These were model-checked with the run's
constants before they were proved.

**Provisioning.** `ReadyStaysServed` rests on the advisory lock (`OneInLock`): the slot
inside it has seen a row that is not ready (`NotReadyYet`) and what it built is still there
(`BuiltIsThere`).

`FailedMeansGivenUp` rests on `GivenUp`: as long as nobody has asked for a retry,
whoever marks the row has seen the job fail for good, and it stays under the workspace's id.
`PaymentComesFirst` is about any number of forms and rests on `Seen` (who acts on a payment has seen
one) and `FreeStart` (what was set going without a payment was set going for the free plan, and a
form that changes that overtakes it).

**Notion pull.** The heart of `EditsAreNotLost` is `Covered`: at every statement of a call, a page
that gbrain lacks is staged with its newest content, or still ahead in what the cursor leads to,
or as recent as everything seen, so that the next pass reads it. `Stored` and `Running` say what
relates the stored cursor, the list and the call's variables; nothing in the argument bounds
pages, edits, cycles or failures. `PullMirrors` is the same refinement as the cycle's:
an edit is `Write`, for it may also change what a stored page cursor leads to; the end of a call
gives up no page that gbrain is behind on.

**Repositories.** `RepoInv` relates the rows, the requests and the cycle. A request that is about to
insert a row has a connection without one and is the only such request (`RequestInv`,
`InsertsDiffer`), which with the unique index gives `RepositoryHasOneRow`. The cycle has only
registered rows in hand (`CycleInv`), so that writing `active` by id is right although the row was
read several statements before: `ActiveConnectionIsRegistered` holds because no step takes a
registration back, which is `RegistrationStays`. `NothingAheadOfBranch` bounds every commit that a
row, a webhook, gbrain or the cycle speaks of by the branch. That the calls of kick stay within their
type (part of `RepoTypeCorrect`) is a count, `KicksAreOwed`: kicks that wait, requests that may still
make one and pushes that are handled or to come never exceed what there was at the start. These
four properties and `RegistrationIsKept` were model-checked before they were proved;
as theorems they need no run.

**Skills.** `RevisionsAreKept` and `BundlesAreVerifiable` from one invariant: what a request or a
sweep remembers of a version stays about a version that exists, because rows are only added
and updated in place (`RowsGrow`); `RememberedVersionsExist` states that part. `PublicationsStay` is the action property with it: a
version keeps its origin, a stored key is not replaced, and bundles remain; the base of a
version is its position before and after the step, so what is left to show is that no step shortens
the list (`NoneTakenBack`).

**MCP proxy.** `EndedStaysCutOff` needs more than the two tables. Whoever is about to write a
client or a token as active has one that was only issued (`IsFresh`), and has it alone
(`Alone`); a transaction that revokes has every client it is to end revoked, held, or still to
be looked at (`Sweeps`, `HoldsOwn`), and nobody else writes what it holds. `StepKeeps` reduces
each action to its own request: the others lose nothing as rows move forward only (`Moves`) and
a transaction lets go of its own rows only (`LetsBe`). `RevocationsAreFinal` says that no insert, record
or mark of a request that looked before a revocation brings a client or a token back, and that who
may revoke a client does not change under the revocation.

**Usage metering.** `UnitsAreChargedOnce` follows from `CInv`: Stripe
has counted only stored identifiers of rows to charge, and whoever is about to write
`metered` has had the answer. `AllowanceIsKept` rests on the advisory lock: one transaction at
a time inserts, and what it counted is still so when it does (`UsedIsFresh`).
`MeteringKeepsLedger` is the refinement: a call or a retry pass that is answered by Stripe is `Bill`
the first time and a stutter afterwards, as it repeats the stored identifier; marking rows is
`Review`, which may take a call off the list only if it is billed (`CInv`).

**Stripe webhooks.** `ProcessedEventsAreApplied` and `PaymentsLeaveTheGate` from
`BodyApplies` and `BodyStarts` (a handler past its write has applied its event; one that
finishes with a payment has seen the workspace started), `ProvisioningStartsOnce` from
`OneEnqueues` (the compare-and-set of the status chooses the one who enqueues);
`WebhooksImplementGate` puts them together as a refinement, with `StartsBought` (whoever is about to
change the status has seen a usable subscription, which was bought);
`ClaimsKeepHandlersApart` from `ClaimsCounted`, a count in which a claim that may be taken
weighs as much as a handler.

**Membership.** One inductive invariant `Inv` for all: `RequestInv` says what each request may
rely on between its statements. `Grows` gives the direction in which rows change and
`RowKept` that a locked row waits; a lemma per action then disturbs one request only.
`OwnerIsKept`, `RevocationsAreTrue`, `HintsAreEarned` are its parts; `InvitesEndOnce` and
`JoinsAreInvited` are action properties that follow from it.

Model-checked only: every liveness property (proofs of fairness and ENABLED are out of the
prover's reach; `IngestScheduler`'s run has no other). Every invariant, action property and
refinement of the passing runs is a theorem. The
pure parts (cursor arithmetic, calendar months) are small enough to be definitions; no recursion is
used anywhere, as induction over data cannot be proved.

## 6. Where the code and its documentation disagree

One disagreement is a run, `ghost_row` (`api/ingest/orchestrator.ts:271`): a cycle that selected
a connection before the user disconnected it writes `active` or `completed` back. The row is
hidden by `deleted_at`, but the partial unique index counts it: the workspace can have no Notion
connection again, although the schema says that disconnected rows do not count.

Six more are definitions of the modules that TLC refutes as soon as they are put into a
configuration (`StartedGetsItsJob` under `FairSpec`):

| Definition | Module, constants | What the code does, and what is said |
| --- | --- | --- |
| `OneImportAtATime` | `IngestCycle`, two workers | a cycle that gives up polling (`orchestrator.ts:251`) frees the workspace while gbrain goes on; the next cycle submits a second import. `docs/architecture/connectors-ingest.md:54` says that heartbeats prevent it |
| `LockReleasedAtEnd` | `IngestCycle`, one worker | while a heartbeat is unanswered the row holds a newer lease than the worker knows, so the release at the end (`:291`) misses and the workspace stays locked until the lease ends |
| `ProvisioningIsDriven` | `Provisioning`, one retry, no fault | a retry reads the status, the worker makes the workspace ready, the retry writes `provisioning` by id (`routes/workspaces/provision.ts:265`). The job is active: its removal fails silently, the new one has the same id and is not added, and nothing settles the row |
| `UnpaidNeverRuns` | `Provisioning`, the run's constants | two submissions, one free and one paid, interleave (`provision.ts:439`, against `workspaces/create.ts:13-15`) so that the job of the free one, or a retry that read the row in between, provisions a row on the paid plan; `PaidFirst` says that this is the only way |
| `StartedGetsItsJob` | `StripeWebhooks`, one fault | the status changes first and the job is enqueued after (`cloud/billing/service.ts:364`): a failure in between leaves a paid workspace `provisioning` with no job, and redelivered webhooks see nothing to do |
| `VersionsAreImmutable` | `Skills`, two requests | an export that finds no explainer writes one into the stored version (`mint.ts:916`), so that two bundles of a version differ. `schema.ts:607-608` and `docs/architecture/data-model.md:25` call versions immutable |

Seen while modelling, in the models' steps, and for some the reason why a property has a condition:

- `NoStaleAdvance` (in `IngestCycle`) is false by the one statement a worker may have been sent to
  when its lease ran out; `NothingLost` shows that this is harmless.
- Ingest cycle: an exception outside of the `try` around extraction, such as the unique index of Notion
  connections at a commit (`orchestrator.ts:263-271`) when a row was disconnected and replaced
  meanwhile, leaves the job row `running` and the lock to its lease in a process that lives on;
  nothing settles such a row later, since `sweepStaleCycles` removes directories only.
- Scheduler: kicks ignore the cap. As many workspaces as the cap whose imports keep failing can
  take every slot of every tick, because the due query has no order; hence the `Room` of
  `DueGetsACycle`. A shutdown waits for the scheduler's cycles and cuts off manual ones, and those of
  webhooks that kick after stop() has returned; their lock stays until its lease ends.
- Notion: one failed read of the Composio profile or account sets the connection `errored`
  (`orchestrator.ts:340-392`), which the scheduler selects no more: the user has to disconnect and
  connect again, and the import begins anew. A first import beyond an extraction budget fails in every cycle, and a stored page cursor
  that Notion has let expire is not dropped.
- Repositories: a clone that is not healthy after its sync (`orchestrator.ts:485-492`) leaves an active
  connection whose commit is old or missing; its row says `errored`. A disconnected repository can never be added again, as its row stays under the
  unique index (the attempt answers 409 and leaves a pending connection without a repository); a
  retry, repair or push on an errored connection sets the repository's row, though no cycle selects
  it; sync and patch that overlap a disconnect revive the status of a deleted connection; a
  disconnect that overlaps a registration leaves the source in gbrain; two retries that overlap may
  leave a source token that is not the row's; without periodic pulls a push that meets a running
  cycle leaves the row behind until the next one. `LatestCommitIsIndexed` is about connections that
  are shown as active.
  A disconnect clears the proxy token and marks the row `fresh` in one statement and disconnects the
  connection in the next (`routes/connections/index.ts:140-153`): a death in between leaves a live
  connection shown as synced that can pull no more.
- Skills: a mint accepts a quotation from anywhere in a document, while a sweep looks for it in the
  first 6000 characters (`provenance.ts:59-66`): one from further on is flagged by every sweep, though
  nothing has changed. One workspace whose gbrain fails ends every sweep before the candidates that
  come after its own (`skill-staleness-worker.ts:130-136`). The version made by an export of a stale skill has the old body, while the answer says
  "Re-exported ... from refreshed sources" (`mint.ts:828`); a death between the two statements of a
  capture leaves a version that no sweep compares; an explainer that the model did not give is null
  and never asked for again.
- MCP: two overlapping self-claims give a member two clients, though the comment on the route says
  exactly once; a client whose row is inserted after the proxy was turned off is in force when it is
  turned on again; marking a token used and revoking its client take the same two rows in opposite
  orders, and one of them fails.
- Membership: an accept that races a removal leaves `current_workspace_id` pointing at a workspace
  the user has left (`members.ts` says it is cleared); each route reads memberships, so it is not a
  way in. A comment in `auth.ts` says that the creation date of an invite cannot change; resending
  refreshes it. A pending invite survives in two ways beside a membership (the onboarding form, and
  an accept between the two statements of an invite), by which a removed member may return.
- Usage metering: the retry loop selects with raw SQL and calls `getTime()` on the answer
  (`usage.ts:355`), where `ingest/locks.ts:88-91` converts such an answer because the driver gives text;
  the test's stub gives a date (`usage.test.ts:141`). With text, nothing that Stripe missed at first
  is reported again. As many rows that Stripe rejects for good as the limit of a pass keep all
  others from it, for the oldest come first.
- Billing: two checkout sessions that are open before either is paid may both be paid.

## 7. Limits and plan

Left out of the modelled components, on purpose:

- Ingest cycle: file names in the staging directory, the size cap of an extraction. Documents are
  versions; edits that shift pages are in `NotionPull`, the state of repositories in `RepoSync`.
- Scheduler: a tick also deletes expired OAuth states and, at the start, stale staging directories.
- Notion: blocks, Markdown and sizes; pages that are deleted or no longer shared.
- Repositories: installing the app and choosing its account, the stream of the git proxy, branches;
  commits that are handled twice.
- Skills: prompts, several citations, the chat log, the ZIP, the share token with its expiry.
- MCP: scopes, hosts, headers, expiry, audit log; gbrain's own answer to an ended token is taken to
  be the same as before, as it is not told.
- Provisioning: BullMQ's removal of old jobs and its limit on stalls, the compose and
  hetzner providers, the inline mode of tests, the loss of the advisory lock's connection in
  the middle of an attempt, two first submissions at once, and the old machines that Fly
  leaves running (`KeptRuntimes` keeps them, and no property counts them).
- Usage metering: units are always one; Stripe and its meter are configured; a retry pass is
  about one workspace. Usage that is unreported when the period rolls over is never
  reported, and `ChargesGetReported` says so by its exception.
- Stripe webhooks: signatures, portal sessions, subscriptions without workspace metadata,
  plan changes. The billing row may end on an older version when events come out of order;
  the properties are about what that may not break.
- Membership: mails, the rate limit on resending, identities, sessions, deleted workspaces;
  one workspace, so that switching away is an action of the environment.

Not modelled, and why. Chat, library and the provider proxy keep little state between requests;
sign-in belongs to Supabase; archives are unpacked by one request; the schema and the
infrastructure are generated or external, and the web, mobile and landing pages, which are most of
the repository's lines, present what the API answers. A share of these lines could be mapped only
by translating presentation.

In reach, and next, in this order:

1. `ConnectionSetup`: init, finalize and expiry of OAuth attempts (`routes/connections/composio.ts`,
   `composio/profiles.ts`) against the unique index of Notion connections. Hazards seen there: a
   finalize that consumes the state and then dies or loses the index leaves an account at Composio
   that nobody deletes; a profile that has no active connection is revoked while a finalize that
   resolved it inserts one.
2. A module that composes `StripeWebhooks` and `Provisioning` over the workspace row, in place of
   the request kinds that `Provisioning` now has for the payment hook.
3. A refinement of `IngestScheduler`'s cycles by `IngestCycle` over one workspace, in the place of the
   prose that connects them (`JobSettles`).
4. Archive uploads: two uploads of one connection, and a removal next to an extraction.

## Running

`tlc -config MCIngestCycle.cfg MCIngestCycle` checks a run (`PROJECT.json`, "runs", lists the
module of each configuration); `tlapm Membership_proofs.tla` checks the proofs of a module.
