------------------------------ MODULE NotionPull ------------------------------
(***************************************************************************)
(* The live Notion connector, connectors/notion-composio/index.ts: the     *)
(* pages are listed by last_edited_time, latest first, until one is older  *)
(* than the cursor; a cycle that reaches its page limit keeps Notion's     *)
(* page cursor and the next cycle goes on from there.  Users edit pages    *)
(* all the while, and an edited page jumps to the top of the list.         *)
(*                                                                         *)
(* Times are Notion's: minutes, so that a page can change twice within     *)
(* one.  Notion's list is external, and all that is assumed of a page      *)
(* cursor is that it leads to a tail of the list and that no page leaves   *)
(* that tail except by being edited.                                       *)
(***************************************************************************)
EXTENDS Integers, FiniteSets

CONSTANTS Page,             \* pages shared with the integration
          MaxPagesPerCycle, \* limits.maxPagesPerCycle
          MaxTime,          \* bound: minutes
          MaxEdits,         \* bound: edits of pages
          MaxFaults         \* bound: cycles that fail

ASSUME PullBounds ==
  /\ MaxPagesPerCycle \in Nat \ {0}
  /\ MaxTime \in Nat \ {0} /\ MaxEdits \in Nat /\ MaxFaults \in Nat
ASSUME FinitelyManyPages == IsFiniteSet(Page)

VARIABLES
  \* Notion
  now,        \* the minute
  edited,     \* last_edited_time, 0 for a page not written yet
  version,    \* the page's content
  edits,      \* edits so far
  \* gbrain
  brain,      \* the content imported last
  \* the row: connections.cursor, and whether it is in service
  since,      \* since_iso (0: none)
  resume,     \* page_cursor is set
  cycleSince, \* cycle_since_iso
  cycleMax,   \* cycle_max_seen_iso
  savedTail,  \* the pages that page_cursor leads to
  errored,    \* connections.status is 'errored': no cycle selects the connection
  \* one call of extract, and the import of what it yields
  pc,
  cutoff,     \* cycleSince of the call
  maxSeen,    \* its maxSeen
  token,      \* its pageCursor is set
  tail,       \* the pages that pageCursor leads to
  batch,      \* the results of one search that are still to read
  count,      \* pagesProcessed
  pending,    \* pendingPageCursor is set
  staged,     \* the documents yielded, as versions (0: none)
  faults

notionVars == <<now, edited, version, edits>>
cursorVars == <<since, resume, cycleSince, cycleMax, savedTail, errored>>
callVars == <<pc, cutoff, maxSeen, token, tail, batch, count, pending, staged>>
vars == <<notionVars, brain, cursorVars, callVars, faults>>

Time == 0..MaxTime
Content == 0..MaxEdits+1

NotionTypeOK ==
  /\ now \in 1..MaxTime
  /\ edited \in [Page -> Time]
  /\ version \in [Page -> Content]
  /\ edits \in 0..MaxEdits
  /\ brain \in [Page -> Content]

CursorTypeOK ==
  /\ since \in Time /\ cycleSince \in Time /\ cycleMax \in Time
  /\ resume \in BOOLEAN /\ errored \in BOOLEAN
  /\ savedTail \subseteq Page

CallTypeOK ==
  /\ pc \in {"idle", "search", "item", "import", "commit"}
  /\ cutoff \in Time /\ maxSeen \in Time
  /\ token \in BOOLEAN /\ pending \in BOOLEAN
  /\ tail \subseteq Page
  /\ batch \subseteq [page : Page, at : Time]
  /\ count \in 0..MaxPagesPerCycle
  /\ staged \in [Page -> Content]
  /\ faults \in 0..MaxFaults

\* The types of the page list, of the stored cursor and of the running call.
TypeOK == NotionTypeOK /\ CursorTypeOK /\ CallTypeOK

Init ==
  /\ now = 1
  /\ version \in [Page -> 0..1]
  /\ edited = version
  /\ edits = 0
  /\ brain = [p \in Page |-> 0]
  /\ since = 0 /\ cycleSince = 0 /\ cycleMax = 0
  /\ resume = FALSE /\ savedTail = {} /\ errored = FALSE
  /\ pc = "idle" /\ cutoff = 0 /\ maxSeen = 0
  /\ token = FALSE /\ tail = {} /\ batch = {}
  /\ count = 0 /\ pending = FALSE
  /\ staged = [p \in Page |-> 0]
  /\ faults = 0

-----------------------------------------------------------------------------
\* Notion.

Written == {p \in Page : version[p] > 0}

\* The last pages of the list: all that are older than any of them are in.
IsTail(pages, at) ==
  \A p \in pages, q \in Page \ pages : at[q] > 0 => at[q] >= at[p]

\* What a page cursor may lead to after page p has moved to the top.
TailsAfter(p, pages, at) ==
  {t \in SUBSET {q \in Page : at[q] > 0} : pages \ {p} \subseteq t /\ IsTail(t, at)}

Edit(p) ==
  /\ edits < MaxEdits
  /\ edits' = edits + 1
  /\ version' = [version EXCEPT ![p] = @ + 1]
  /\ edited' = [edited EXCEPT ![p] = now]
  /\ tail' \in IF token THEN TailsAfter(p, tail, edited') ELSE {tail}
  /\ savedTail' \in IF resume THEN TailsAfter(p, savedTail, edited') ELSE {savedTail}
  /\ UNCHANGED <<now, brain, since, resume, cycleSince, cycleMax, errored, pc, cutoff,
                 maxSeen, token, batch, count, pending, staged, faults>>

Tick ==
  /\ now < MaxTime
  /\ now' = now + 1
  /\ UNCHANGED <<edited, version, edits, brain, cursorVars, callVars, faults>>

\* One response of NOTION_SEARCH: the first pages of the list from the cursor.
IsResponse(results, from) ==
  /\ results \subseteq from
  /\ results = {} => from = {}
  /\ \A p \in results, q \in from \ results : edited[p] >= edited[q]

-----------------------------------------------------------------------------
\* extract.

\* stringCursor(...) ?? persistedSince
OrSince(time) == IF time # 0 THEN time ELSE since

Later(t, u) == IF t > u THEN t ELSE u

\* A cycle selects the connection and its account passes the checks.
Start ==
  /\ pc = "idle" /\ ~errored
  /\ pc' = "search"
  /\ cutoff' = IF resume THEN OrSince(cycleSince) ELSE since
  /\ maxSeen' = IF resume THEN OrSince(cycleMax) ELSE since
  /\ token' = resume /\ tail' = savedTail
  /\ UNCHANGED <<notionVars, brain, cursorVars, batch, count, pending, staged, faults>>

FullPage(results) == Cardinality(results) <= 100   \* mutant: every page_size is 100

\* page_size is what is left of the limit.
WithinLimit(results) == Cardinality(results) <= MaxPagesPerCycle - count

Search ==
  /\ pc = "search"
  /\ LET from == IF token THEN tail ELSE Written IN
     \E results \in SUBSET from :
       /\ IsResponse(results, from)
       /\ WithinLimit(results)
       /\ batch' = {[page |-> p, at |-> edited[p]] : p \in results}
       /\ tail' = from \ results
  /\ token' = TRUE
  /\ pc' = "item"
  /\ UNCHANGED <<notionVars, brain, cursorVars, cutoff, maxSeen, count, pending,
                 staged, faults>>

First(item) == item \in batch /\ \A other \in batch : item.at >= other.at

TooOldOrEqual(item) == cutoff # 0 /\ item.at <= cutoff   \* mutant: a page of that minute is skipped

TooOld(item) == cutoff # 0 /\ item.at < cutoff

\* The page is fetched now: its content may be newer than the search result.
ReadItem(item) ==
  /\ pc = "item" /\ First(item)
  /\ ~TooOld(item)
  /\ staged' = [staged EXCEPT ![item.page] = version[item.page]]
  /\ maxSeen' = Later(maxSeen, item.at)
  /\ count' = count + 1
  /\ batch' = batch \ {item}
  /\ UNCHANGED <<notionVars, brain, cursorVars, pc, cutoff, token, tail, pending, faults>>

StopAtOldItem(item) ==
  /\ pc = "item" /\ First(item)
  /\ TooOld(item)
  /\ pending' = FALSE
  /\ token' = FALSE /\ tail' = {} /\ batch' = {}
  /\ pc' = "import"
  /\ UNCHANGED <<notionVars, brain, cursorVars, cutoff, maxSeen, count, staged, faults>>

\* After the last item of a response: no more pages, the limit, or a next search.
EndBatch ==
  /\ pc = "item" /\ batch = {}
  /\ pending' = (tail # {} /\ count >= MaxPagesPerCycle)
  /\ pc' = IF tail # {} /\ count < MaxPagesPerCycle THEN "search" ELSE "import"
  /\ UNCHANGED <<notionVars, brain, cursorVars, cutoff, maxSeen, token, tail, batch,
                 count, staged, faults>>

-----------------------------------------------------------------------------
\* The rest of the cycle, for this connection.

Import ==
  /\ pc = "import"
  /\ brain' = [p \in Page |-> IF staged[p] > 0 THEN staged[p] ELSE brain[p]]
  /\ pc' = "commit"
  /\ UNCHANGED <<notionVars, cursorVars, cutoff, maxSeen, token, tail, batch, count,
                 pending, staged, faults>>

\* The call is over and its variables are gone.
CallEnds ==
  /\ pc' = "idle" /\ cutoff' = 0 /\ maxSeen' = 0
  /\ token' = FALSE /\ tail' = {} /\ batch' = {}
  /\ count' = 0 /\ pending' = FALSE
  /\ staged' = [p \in Page |-> 0]

CommitForgetsPage ==         \* mutant: the page cursor is not kept
  /\ pc = "commit"
  /\ since' = IF pending THEN since ELSE maxSeen
  /\ resume' = FALSE
  /\ cycleSince' = 0 /\ cycleMax' = 0 /\ savedTail' = {}
  /\ errored' = FALSE
  /\ CallEnds
  /\ UNCHANGED <<notionVars, brain, faults>>

\* finalizeCursor, stored by the orchestrator after the import, with status 'active'.
Commit ==
  /\ pc = "commit"
  /\ since' = IF pending THEN since ELSE maxSeen
  /\ resume' = pending
  /\ cycleSince' = IF pending THEN cutoff ELSE 0
  /\ cycleMax' = IF pending THEN maxSeen ELSE 0
  /\ savedTail' = IF pending THEN tail ELSE {}
  /\ errored' = FALSE
  /\ CallEnds
  /\ UNCHANGED <<notionVars, brain, faults>>

\* A budget is exceeded, Composio or gbrain fails, the lock is lost, the process
\* dies: the stored cursor stays, what gbrain has taken stays too.
Fail ==
  /\ pc # "idle"
  /\ faults < MaxFaults
  /\ faults' = faults + 1
  /\ CallEnds
  /\ UNCHANGED <<notionVars, brain, cursorVars>>

\* Before extract: the Composio profile or account cannot be read, once, or the account
\* is not the workspace's.
Reject ==
  /\ pc = "idle" /\ ~errored
  /\ faults < MaxFaults
  /\ faults' = faults + 1
  /\ errored' = TRUE
  /\ UNCHANGED <<notionVars, brain, since, resume, cycleSince, cycleMax, savedTail, callVars>>

\* The only way back: the user disconnects and connects again, a new row with no cursor.
Reconnect ==
  /\ pc = "idle" /\ errored
  /\ errored' = FALSE
  /\ since' = 0 /\ resume' = FALSE
  /\ cycleSince' = 0 /\ cycleMax' = 0 /\ savedTail' = {}
  /\ UNCHANGED <<notionVars, brain, callVars, faults>>

-----------------------------------------------------------------------------
Read == \E item \in batch : ReadItem(item) \/ StopAtOldItem(item)
Call == Search \/ Read \/ EndBatch \/ Import \/ Commit

Next == \/ Start \/ Call \/ Fail \/ Reject \/ Reconnect
        \/ Tick \/ \E p \in Page : Edit(p)

\* The scheduler starts a cycle again and again while the connection is in service;
\* nobody has to edit anything or to connect again.
Fairness == WF_vars(Start) /\ WF_vars(Call)

Spec == Init /\ [][Next]_vars /\ Fairness

-----------------------------------------------------------------------------
\* Properties.

\* A later cycle reads page p: the passes that the stored cursor stands for
\* reach it, or it is recent enough for the first pass after them.
StillToRead(p) ==
  IF resume THEN \/ p \in savedTail /\ (cycleSince = 0 \/ edited[p] >= cycleSince)
                 \/ edited[p] >= cycleMax
            ELSE since = 0 \/ edited[p] >= since

\* No edit is lost: whatever the order in which pages are edited while they
\* are being listed, over several cycles and within one minute, a page whose
\* content gbrain does not have will be read again, by the next cycles that
\* the connection takes part in.
NoEditLost == \A p \in Page : brain[p] = version[p] \/ StillToRead(p)

\* gbrain's text of a page stands for those before it.
Mirror == INSTANCE SourceMirror WITH
  Doc <- Page, Version <- Content \ {0},
  content <- [p \in Page |-> 1..version[p]], copy <- [p \in Page |-> 1..brain[p]],
  owed <- {p \in Page : StillToRead(p)}

\* gbrain mirrors the pages: no page is set back to an older text, and one that no later
\* call would read is up to date, however often calls fail, stop at their limit or go on
\* from a list that has moved.
ImplementsMirror == Mirror!Spec

\* Every edit reaches gbrain, once the users stop editing and unless the connection
\* stays 'errored': in spite of the page limit, of the edits that reorder the list under
\* the cursor, of a bounded number of failed cycles, and of a new connection that begins
\* with no cursor.  One failed check of the account is enough for 'errored', and no
\* cycle of the scheduler takes it back.
EditsAreImported == <>[]~errored => <>[](brain = version)
=============================================================================
