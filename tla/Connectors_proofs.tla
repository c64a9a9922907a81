-------------------------- MODULE Connectors_proofs --------------------------
(***************************************************************************)
(* Proofs for the two connectors that pull what users edit: NotionPull,    *)
(* for any number of pages, edits and failures and any page limit, and     *)
(* RepoSync, for any number of connections, requests, commits and          *)
(* failures.  Nothing of the one is used in the other.                     *)
(*                                                                         *)
(* Notion.  NoEditLost speaks of the stored cursor.  Why the cursor that a *)
(* cycle stores at its end does not lose an edit is in Covered: at every   *)
(* point of a call, a page whose content gbrain does not have has been     *)
(* read, is still in front of the call and not too old for it, or is Late: *)
(* as recent as everything the call has seen, so that the next pass gets   *)
(* it.                                                                     *)
(*                                                                         *)
(* Repositories.  RowInv, RequestInv and CycleInv say what the requests    *)
(* and the cycle rely on between the statement that read a row and the one *)
(* that writes by id; KicksAreOwed says where the kicks come from.         *)
(***************************************************************************)
EXTENDS NotionPull, RepoSync, FiniteSetTheorems, TLAPS

NewEnough(t) == cutoff = 0 \/ t >= cutoff
Behind(p) == brain[p] # version[p]

\* As recent as all that was seen, and as what is about to be.
Late(p) == edited[p] >= maxSeen /\ \A item \in batch : edited[p] >= item.at

Ahead(p) == p \in (IF token THEN tail ELSE Written) /\ NewEnough(edited[p])

\* What a call may say of page p before each of its steps.
Searching(p) == Ahead(p) \/ (token /\ edited[p] >= maxSeen)
Reading(p) ==
  \/ \E item \in batch : item.page = p /\ NewEnough(item.at)
  \/ p \in tail /\ NewEnough(edited[p]) /\ \A item \in batch : edited[p] <= item.at
  \/ Late(p)
Ending(p) == edited[p] >= maxSeen \/ (pending /\ p \in tail /\ NewEnough(edited[p]))

Covered(p) ==
  /\ pc = "search" /\ Behind(p) => staged[p] = version[p] \/ Searching(p)
  /\ pc = "item" /\ Behind(p) => staged[p] = version[p] \/ Reading(p)
  /\ pc = "import" /\ Behind(p) => staged[p] = version[p] \/ Ending(p)
  /\ pc = "commit" /\ Behind(p) => Ending(p)

Contents == \A p \in Page :
  /\ edited[p] <= now
  /\ version[p] > 0 <=> edited[p] > 0
  /\ version[p] <= edits + 1
  /\ brain[p] <= version[p]
  /\ staged[p] <= version[p]
  /\ staged[p] > 0 => brain[p] <= staged[p]

Stored ==
  /\ since <= now /\ cycleMax <= now /\ cycleSince <= cycleMax
  /\ resume => /\ cycleMax > 0
               /\ cycleSince = 0 => since = 0
               /\ savedTail \subseteq Written
               /\ IsTail(savedTail, edited)

Running ==
  /\ pc # "idle" => /\ cutoff <= maxSeen /\ maxSeen <= now
                    /\ cutoff = 0 => since = 0
                    /\ count > 0 => maxSeen > 0
  /\ pc # "item" => batch = {}
  /\ pc = "item" => token
  /\ pc = "idle" => count = 0 /\ \A p \in Page : staged[p] = 0
  /\ token => tail \subseteq Written /\ IsTail(tail, edited)
  /\ pending => token /\ count > 0 /\ pc \in {"import", "commit"}
  /\ \A item \in batch : item.at > 0 /\ item.at <= now

\* The limit bounds what a response may hold.
Limit ==
  /\ IsFiniteSet(batch)
  /\ Cardinality(batch) + count <= MaxPagesPerCycle

Inv ==
  /\ TypeOK /\ Contents /\ Stored /\ Running /\ Limit
  /\ NoEditLost
  /\ \A p \in Page : Covered(p)

Types == NotionTypeOK /\ CursorTypeOK /\ CallTypeOK

LEMMA TimesAreNumbers ==
  ASSUME TypeOK
  PROVE  /\ now \in Nat /\ now > 0
         /\ edits \in Nat /\ since \in Nat /\ cycleSince \in Nat /\ cycleMax \in Nat
         /\ cutoff \in Nat /\ maxSeen \in Nat /\ count \in Nat
         /\ \A p \in Page : /\ edited[p] \in Nat /\ version[p] \in Nat
                            /\ brain[p] \in Nat /\ staged[p] \in Nat
         /\ \A item \in batch : item.page \in Page /\ item.at \in Nat
BY PullBounds DEF TypeOK, NotionTypeOK, CursorTypeOK, CallTypeOK, Time, Content

LEMMA InitStep == Init => Inv
<1> SUFFICES ASSUME Init PROVE Inv OBVIOUS
<1>1. TypeOK
  <2>0. 0 \in Time /\ 1 \in Time /\ 0 \in Content /\ 1 \in Content
    BY PullBounds DEF Time, Content
  <2>1. NotionTypeOK
    <3>1. version \in [Page -> 0..1] /\ edited = version BY DEF Init
    <3>2. 0..1 \subseteq Time /\ 0..1 \subseteq Content BY PullBounds DEF Time, Content
    <3>3. edited \in [Page -> Time] /\ version \in [Page -> Content] BY <3>1, <3>2
    <3>4. now \in 1..MaxTime /\ edits \in 0..MaxEdits BY PullBounds DEF Init
    <3> QED BY <2>0, <3>3, <3>4 DEF Init, NotionTypeOK
  <2>2. CursorTypeOK BY <2>0 DEF Init, CursorTypeOK
  <2>3. CallTypeOK
    <3>1. 0 \in 0..MaxPagesPerCycle /\ 0 \in 0..MaxFaults BY PullBounds
    <3> QED BY <2>0, <3>1 DEF Init, CallTypeOK
  <2> QED BY <2>1, <2>2, <2>3 DEF TypeOK
<1>2. Contents BY <1>1, TimesAreNumbers DEF Init, Contents
<1>3. Stored /\ Running BY DEF Init, Stored, Running
<1>4. Limit BY PullBounds, FS_EmptySet DEF Init, Limit
<1>5. NoEditLost BY DEF Init, NoEditLost, StillToRead
<1>6. \A p \in Page : Covered(p) BY DEF Init, Covered
<1> QED BY <1>1, <1>2, <1>3, <1>4, <1>5, <1>6 DEF Inv

(***************************************************************************)
(* Notion                                                                  *)
(***************************************************************************)
LEMMA TickStep == Inv /\ Tick => Inv'
<1> SUFFICES ASSUME Inv, Tick PROVE Inv' OBVIOUS
<1> USE DEF Tick, cursorVars, callVars
<1>0. TypeOK /\ now \in Nat BY TimesAreNumbers DEF Inv
<1>1. TypeOK' BY <1>0, PullBounds DEF TypeOK, NotionTypeOK, CursorTypeOK, CallTypeOK
<1>2. Contents' BY <1>0, TimesAreNumbers DEF Inv, Contents
<1>3. Stored' BY <1>0, TimesAreNumbers DEF Inv, Stored, Written, IsTail
<1>4. Running' BY <1>0, TimesAreNumbers DEF Inv, Running, Written, IsTail
<1>5. Limit' BY DEF Inv, Limit
<1>6. NoEditLost' BY DEF Inv, NoEditLost, StillToRead
<1>7. ASSUME NEW p \in Page PROVE Covered(p)'
  <2>1. Covered(p) BY DEF Inv
  <2> QED BY <2>1 DEF Covered, Behind, Searching, Reading, Ending, Ahead, Late, NewEnough, Written
<1> QED BY <1>1, <1>2, <1>3, <1>4, <1>5, <1>6, <1>7 DEF Inv

\* Pages that a cursor leads to: p may leave, and others may come, as a tail.
LEMMA TailAfterEdit ==
  ASSUME NEW p, NEW pages, NEW at, NEW t \in TailsAfter(p, pages, at)
  PROVE  /\ t \subseteq {q \in Page : at[q] > 0} /\ IsTail(t, at)
         /\ \A q \in pages : q # p => q \in t
BY DEF TailsAfter

LEMMA EditStep == ASSUME Inv, NEW p \in Page, Edit(p) PROVE Inv'
<1>0. /\ TypeOK /\ Contents /\ Stored /\ Running /\ Limit /\ NoEditLost
      /\ edits < MaxEdits /\ edits' = edits + 1
      /\ UNCHANGED <<now, brain, since, resume, cycleSince, cycleMax, errored, pc, cutoff,
                     maxSeen, token, batch, count, pending, staged, faults>>
  BY DEF Inv, Edit
<1>n. /\ now \in Nat /\ now > 0
      /\ edits \in Nat /\ since \in Nat /\ cycleSince \in Nat /\ cycleMax \in Nat
      /\ cutoff \in Nat /\ maxSeen \in Nat /\ count \in Nat
      /\ \A q \in Page : /\ edited[q] \in Nat /\ version[q] \in Nat
                         /\ brain[q] \in Nat /\ staged[q] \in Nat
      /\ \A item \in batch : item.page \in Page /\ item.at \in Nat
  BY <1>0, TimesAreNumbers
<1>e. /\ edited' \in [Page -> Time] /\ version' \in [Page -> Content]
      /\ edited'[p] = now /\ version'[p] = version[p] + 1
      /\ \A q \in Page : q # p => edited'[q] = edited[q] /\ version'[q] = version[q]
  <2>1. now \in Time BY <1>0, <1>n, PullBounds DEF TypeOK, NotionTypeOK, Time
  <2>2. version[p] + 1 \in Content
    BY <1>0, <1>n, PullBounds DEF Contents, Content
  <2>3. edited \in [Page -> Time] /\ version \in [Page -> Content]
    BY <1>0 DEF TypeOK, NotionTypeOK
  <2>4. edited' = [edited EXCEPT ![p] = now] /\ version' = [version EXCEPT ![p] = version[p] + 1]
    BY DEF Edit
  <2> QED BY <2>1, <2>2, <2>3, <2>4
<1>w. Written' = {q \in Page : edited'[q] > 0} /\ Written \subseteq Written'
  BY <1>0, <1>n, <1>e DEF Written, Contents
<1>t. /\ token => /\ tail' \subseteq Written' /\ IsTail(tail', edited')
                  /\ \A q \in tail : q # p => q \in tail'
      /\ ~token => tail' = tail
  <2>1. CASE token
    <3>1. tail' \in TailsAfter(p, tail, edited') BY <2>1 DEF Edit
    <3> QED BY <2>1, <3>1, <1>w, TailAfterEdit
  <2>2. CASE ~token
    <3>1. tail' \in {tail} BY <2>2 DEF Edit
    <3> QED BY <2>2, <3>1
  <2> QED BY <2>1, <2>2
<1>s. /\ resume => /\ savedTail' \subseteq Written' /\ IsTail(savedTail', edited')
                   /\ \A q \in savedTail : q # p => q \in savedTail'
      /\ ~resume => savedTail' = savedTail
  <2>1. CASE resume
    <3>1. savedTail' \in TailsAfter(p, savedTail, edited') BY <2>1 DEF Edit
    <3> QED BY <2>1, <3>1, <1>w, TailAfterEdit
  <2>2. CASE ~resume
    <3>1. savedTail' \in {savedTail} BY <2>2 DEF Edit
    <3> QED BY <2>2, <3>1
  <2> QED BY <2>1, <2>2
<1>1. TypeOK'
  <2>1. tail' \subseteq Page /\ savedTail' \subseteq Page
    BY <1>0, <1>t, <1>s DEF Written, TypeOK, CursorTypeOK, CallTypeOK
  <2>2. edits' \in 0..MaxEdits BY <1>0, <1>n, PullBounds
  <2> QED BY <1>0, <1>e, <2>1, <2>2 DEF TypeOK, NotionTypeOK, CursorTypeOK, CallTypeOK
<1>2. Contents'
  <2> SUFFICES ASSUME NEW q \in Page
               PROVE  /\ edited'[q] <= now' /\ (version'[q] > 0 <=> edited'[q] > 0)
                      /\ version'[q] <= edits' + 1 /\ brain'[q] <= version'[q]
                      /\ staged'[q] <= version'[q]
                      /\ staged'[q] > 0 => brain'[q] <= staged'[q]
    BY DEF Contents
  <2> QED BY <1>0, <1>n, <1>e DEF Contents
<1>3. Stored' BY <1>0, <1>s DEF Stored
<1>4. Running' BY <1>0, <1>t DEF Running
<1>5. Limit' BY <1>0 DEF Limit
<1>6. NoEditLost'
  <2> SUFFICES ASSUME NEW q \in Page PROVE (brain[q] = version[q] \/ StillToRead(q))'
    BY DEF NoEditLost
  <2>1. CASE q = p BY <2>1, <1>0, <1>n, <1>e DEF StillToRead, Stored
  <2>2. CASE q # p BY <2>2, <1>0, <1>n, <1>e, <1>s DEF NoEditLost, StillToRead
  <2> QED BY <2>1, <2>2
<1>7. ASSUME NEW q \in Page PROVE Covered(q)'
  <2>0. Covered(q) BY DEF Inv
  <2>1. CASE q = p
    <3>1. pc # "idle" => edited'[q] >= maxSeen' /\ NewEnough(edited[q])'
      BY <2>1, <1>0, <1>n, <1>e DEF Running, NewEnough
    <3>2. \A item \in batch' : edited'[q] >= item.at
      BY <2>1, <1>0, <1>n, <1>e DEF Running
    <3>3. q \in Written' BY <2>1, <1>e, <1>n, <1>w
    <3>4. pc # "idle" => Searching(q)' /\ Late(q)' /\ Ending(q)'
      BY <3>1, <3>2, <3>3 DEF Searching, Ahead, Late, Ending
    <3> QED BY <3>4, <1>0 DEF Covered, Reading
  <2>2. CASE q # p
    <3>1. /\ edited'[q] = edited[q] /\ version'[q] = version[q]
          /\ (token => (q \in tail => q \in tail')) /\ (~token => tail' = tail)
          /\ q \in Written => q \in Written'
      BY <2>2, <1>e, <1>t, <1>w
    <3>2. Running BY <1>0
    <3> HIDE DEF Running
    <3>3. pc = "search" /\ Searching(q) => Searching(q)'
      BY <3>1, <1>0 DEF Searching, Ahead, NewEnough
    <3>4. pc = "item" /\ Reading(q) => Reading(q)'
      <4> SUFFICES ASSUME pc = "item", Reading(q) PROVE Reading(q)' OBVIOUS
      <4>0. batch' = batch /\ cutoff' = cutoff /\ maxSeen' = maxSeen BY <1>0
      <4>1. token BY <3>2 DEF Running
      <4>2. CASE \E item \in batch : item.page = q /\ NewEnough(item.at)
        BY <4>2, <4>0 DEF Reading, NewEnough
      <4>3. CASE q \in tail /\ NewEnough(edited[q]) /\ \A item \in batch : edited[q] <= item.at
        <5>1. q \in tail' /\ NewEnough(edited[q])' BY <4>3, <4>0, <4>1, <3>1 DEF NewEnough
        <5>2. \A item \in batch' : edited'[q] <= item.at BY <4>3, <4>0, <3>1
        <5> QED BY <5>1, <5>2 DEF Reading
      <4>4. CASE Late(q)
        <5>1. Late(q)' BY <4>4, <4>0, <3>1 DEF Late
        <5> QED BY <5>1 DEF Reading
      <4> QED BY <4>2, <4>3, <4>4 DEF Reading
    <3>5. Ending(q) => Ending(q)'
      <4>1. pending => token BY <3>2 DEF Running
      <4> QED BY <3>1, <4>1, <1>0 DEF Ending, NewEnough
    <3> QED BY <2>0, <3>1, <3>3, <3>4, <3>5, <1>0 DEF Covered, Behind
  <2> QED BY <2>1, <2>2
<1> QED BY <1>1, <1>2, <1>3, <1>4, <1>5, <1>6, <1>7 DEF Inv

(***************************************************************************)
(* extract                                                                 *)
(***************************************************************************)
LEMMA StartStep == Inv /\ Start => Inv'
<1> SUFFICES ASSUME Inv, Start PROVE Inv' OBVIOUS
<1>0. /\ TypeOK /\ Contents /\ Stored /\ Running /\ Limit /\ NoEditLost
      /\ pc = "idle" /\ pc' = "search" /\ token' = resume /\ tail' = savedTail
      /\ cutoff' = IF resume THEN OrSince(cycleSince) ELSE since
      /\ maxSeen' = IF resume THEN OrSince(cycleMax) ELSE since
      /\ UNCHANGED <<now, edited, version, edits, brain, since, resume, cycleSince,
                     cycleMax, savedTail, errored, batch, count, pending, staged, faults>>
  BY DEF Inv, Start, notionVars, cursorVars
<1>n. /\ now \in Nat /\ since \in Nat /\ cycleSince \in Nat /\ cycleMax \in Nat
      /\ \A p \in Page : edited[p] \in Nat /\ version[p] \in Nat /\ brain[p] \in Nat
  BY <1>0, TimesAreNumbers
<1>c. /\ cutoff' \in Time /\ maxSeen' \in Time
      /\ cutoff' <= maxSeen' /\ maxSeen' <= now /\ (cutoff' = 0 => since = 0)
  BY <1>0, <1>n DEF TypeOK, CursorTypeOK, Stored, OrSince
<1>1. TypeOK' BY <1>0, <1>c DEF TypeOK, NotionTypeOK, CursorTypeOK, CallTypeOK
<1>2. Contents' BY <1>0 DEF Contents
<1>3. Stored' BY <1>0 DEF Stored, Written, IsTail
<1>4. Running'
  <2>1. batch' = {} /\ count' = 0 /\ pending' = FALSE
    BY <1>0 DEF Running, TypeOK, CallTypeOK
  <2>2. token' => tail' \subseteq Written' /\ IsTail(tail', edited')
    BY <1>0 DEF Stored, Written, IsTail
  <2> QED BY <1>0, <1>c, <2>1, <2>2 DEF Running
<1>5. Limit' BY <1>0 DEF Limit
<1>6. NoEditLost' BY <1>0 DEF NoEditLost, StillToRead
<1>7. ASSUME NEW p \in Page PROVE Covered(p)'
  <2> SUFFICES ASSUME Behind(p) PROVE Searching(p)' BY <1>0 DEF Covered, Behind
  <2>1. StillToRead(p) BY <1>0 DEF NoEditLost, Behind
  <2>2. CASE ~resume
    <3>1. p \in Written' BY <1>0, <1>n DEF Behind, Contents, Written
    <3> QED BY <2>1, <2>2, <3>1, <1>0 DEF StillToRead, Searching, Ahead, NewEnough
  <2>3. CASE resume /\ p \in savedTail /\ (cycleSince = 0 \/ edited[p] >= cycleSince)
    <3>1. cutoff' = 0 \/ (cutoff' = cycleSince /\ cycleSince # 0)
      BY <1>0, <2>3 DEF Stored, OrSince
    <3> QED BY <2>3, <3>1, <1>0 DEF Searching, Ahead, NewEnough
  <2>4. CASE resume /\ edited[p] >= cycleMax
    <3>1. maxSeen' = cycleMax BY <1>0, <1>n, <2>4 DEF Stored, OrSince
    <3> QED BY <2>4, <3>1, <1>0 DEF Searching
  <2> QED BY <2>1, <2>2, <2>3, <2>4 DEF StillToRead
<1> QED BY <1>1, <1>2, <1>3, <1>4, <1>5, <1>6, <1>7 DEF Inv

LEMMA SearchStep == Inv /\ Search => Inv'
<1> SUFFICES ASSUME Inv, Search PROVE Inv' OBVIOUS
<1> DEFINE from == IF token THEN tail ELSE Written
<1>0. /\ TypeOK /\ Contents /\ Stored /\ Running /\ Limit /\ NoEditLost
      /\ pc = "search" /\ pc' = "item" /\ token' = TRUE
      /\ UNCHANGED <<now, edited, version, edits, brain, since, resume, cycleSince,
                     cycleMax, savedTail, errored, cutoff, maxSeen, count, pending, staged, faults>>
  BY DEF Inv, Search, notionVars, cursorVars
<1>n. /\ now \in Nat /\ cutoff \in Nat /\ maxSeen \in Nat /\ count \in Nat
      /\ \A p \in Page : edited[p] \in Nat /\ version[p] \in Nat /\ brain[p] \in Nat
  BY <1>0, TimesAreNumbers
<1>r. PICK results \in SUBSET from :
         /\ IsResponse(results, from)
         /\ WithinLimit(results)
         /\ batch' = {[page |-> p, at |-> edited[p]] : p \in results}
         /\ tail' = from \ results
  BY DEF Search
<1>f. from \subseteq Written /\ Written \subseteq Page /\ results \subseteq Page
  BY <1>0, <1>r DEF Running, Written
<1>a. \A p \in Written : edited[p] > 0 /\ edited[p] <= now
  BY <1>0 DEF Contents, Written
<1> HIDE DEF from
<1>b. \A item \in batch' : \E p \in results : item = [page |-> p, at |-> edited[p]]
  BY <1>r
<1>m. \A p \in results : /\ [page |-> p, at |-> edited[p]] \in batch'
                         /\ [page |-> p, at |-> edited[p]].page = p
                         /\ [page |-> p, at |-> edited[p]].at = edited[p]
  BY <1>r
<1>1. TypeOK'
  <2>1. \A p \in results : [page |-> p, at |-> edited[p]] \in [page : Page, at : Time]
    BY <1>0, <1>f DEF TypeOK, NotionTypeOK
  <2>2. batch' \subseteq [page : Page, at : Time] BY <2>1, <1>b
  <2>3. tail' \subseteq Page BY <1>r, <1>f
  <2> QED BY <1>0, <2>2, <2>3 DEF TypeOK, NotionTypeOK, CursorTypeOK, CallTypeOK
<1>2. Contents' BY <1>0 DEF Contents
<1>3. Stored' BY <1>0 DEF Stored, Written, IsTail
\* What the response leaves are the last pages of the list.
<1>t. IsTail(tail', edited)
  <2> SUFFICES ASSUME NEW p \in tail', NEW q \in Page \ tail', edited[q] > 0
               PROVE  edited[q] >= edited[p]
    BY DEF IsTail
  <2>1. CASE q \in results BY <2>1, <1>r DEF IsResponse
  <2>2. CASE q \notin results
    <3>1. p \in from /\ q \notin from BY <1>r, <2>2
    <3>2. token
      <4>1. q \in Written BY <1>0 DEF Contents, Written
      <4> QED BY <3>1, <4>1 DEF from
    <3> QED BY <1>0, <3>1, <3>2 DEF Running, IsTail, from
  <2> QED BY <2>1, <2>2
<1>4. Running'
  <2>1. \A item \in batch' : item.at > 0 /\ item.at <= now
    BY <1>b, <1>a, <1>f, <1>r
  <2>2. tail' \subseteq Written'
    <3>1. Written' = Written BY <1>0 DEF Written
    <3> QED BY <3>1, <1>f, <1>r
  <2>4. ~pending BY <1>0 DEF Running
  <2>5. cutoff <= maxSeen /\ maxSeen <= now /\ (cutoff = 0 => since = 0)
        /\ (count > 0 => maxSeen > 0)
    BY <1>0 DEF Running
  <2> QED BY <1>0, <1>t, <2>1, <2>2, <2>4, <2>5 DEF Running
<1>5. Limit'
  <2>1. IsFiniteSet(results) BY <1>f, FinitelyManyPages, FS_Subset
  <2>2. IsFiniteSet(batch') /\ Cardinality(batch') <= Cardinality(results)
    <3> DEFINE hit == [p \in results |-> [page |-> p, at |-> edited[p]]]
    <3>1. hit \in Surjection(results, batch') BY <1>r DEF Surjection
    <3> QED BY <2>1, <3>1, FS_Surjection
  <2>3. Cardinality(results) <= MaxPagesPerCycle - count BY <1>r DEF WithinLimit
  <2>4. Cardinality(results) \in Nat /\ Cardinality(batch') \in Nat
    BY <2>1, <2>2, FS_CardinalityType
  <2> QED BY <2>2, <2>3, <2>4, <1>0, <1>n, PullBounds DEF Limit
<1>6. NoEditLost' BY <1>0 DEF NoEditLost, StillToRead
<1>7. ASSUME NEW p \in Page PROVE Covered(p)'
  <2> SUFFICES ASSUME Behind(p), staged[p] # version[p] PROVE Reading(p)'
    BY <1>0 DEF Covered, Behind
  <2>1. Searching(p) BY <1>0 DEF Inv, Covered
  <2>2. ASSUME p \in from, NewEnough(edited[p]) PROVE Reading(p)'
    <3>1. CASE p \in results
      <4>1. NewEnough(edited[p])' BY <1>0, <2>2 DEF NewEnough
      <4> QED BY <3>1, <1>m, <4>1, <1>0 DEF Reading, NewEnough
    <3>2. CASE p \notin results
      <4>1. p \in tail' /\ NewEnough(edited[p])' BY <3>2, <2>2, <1>r, <1>0 DEF NewEnough
      <4>2. \A item \in batch' : edited[p] <= item.at
        BY <3>2, <2>2, <1>b, <1>r, <1>f, <1>n DEF IsResponse
      <4>3. \A item \in batch' : edited'[p] <= item.at BY <4>2, <1>0
      <4> QED BY <4>1, <4>3 DEF Reading
    <3> QED BY <3>1, <3>2
  <2>3. CASE Ahead(p) BY <2>2, <2>3 DEF Ahead, from
  <2>4. CASE token /\ edited[p] >= maxSeen
    <3>1. CASE p \in from
      <4>1. NewEnough(edited[p]) BY <2>4, <1>0, <1>n DEF Running, NewEnough
      <4> QED BY <2>2, <3>1, <4>1
    <3>2. CASE p \notin from
      <4>1. edited[p] > 0 BY <1>0, <1>n DEF Behind, Contents
      <4>2. \A q \in from : edited[p] >= edited[q]
        BY <3>2, <4>1, <2>4, <1>0 DEF Running, IsTail, from
      <4>3. \A item \in batch' : edited[p] >= item.at BY <4>2, <1>b, <1>r
      <4>4. Late(p)' BY <4>3, <2>4, <1>0 DEF Late
      <4> QED BY <4>4 DEF Reading
    <3> QED BY <3>1, <3>2
  <2> QED BY <2>1, <2>3, <2>4 DEF Searching
<1> QED BY <1>1, <1>2, <1>3, <1>4, <1>5, <1>6, <1>7 DEF Inv

LEMMA ReadItemStep == ASSUME Inv, NEW item \in batch, ReadItem(item) PROVE Inv'
<1>0. /\ TypeOK /\ Contents /\ Stored /\ Running /\ Limit /\ NoEditLost
      /\ pc = "item" /\ pc' = pc /\ First(item)
      /\ staged' = [staged EXCEPT ![item.page] = version[item.page]]
      /\ maxSeen' = Later(maxSeen, item.at)
      /\ count' = count + 1
      /\ batch' = batch \ {item}
      /\ UNCHANGED <<now, edited, version, edits, brain, since, resume, cycleSince,
                     cycleMax, savedTail, errored, cutoff, token, tail, pending, faults>>
  BY DEF Inv, ReadItem, notionVars, cursorVars
<1>n. /\ now \in Nat /\ cutoff \in Nat /\ maxSeen \in Nat /\ count \in Nat
      /\ \A p \in Page : /\ edited[p] \in Nat /\ version[p] \in Nat
                         /\ brain[p] \in Nat /\ staged[p] \in Nat
      /\ item.page \in Page /\ item.at \in Nat
  BY <1>0, TimesAreNumbers
<1>i. item.at > 0 /\ item.at <= now BY <1>0 DEF Running
<1>m. /\ maxSeen' \in Nat /\ maxSeen' >= maxSeen /\ maxSeen' >= item.at
      /\ maxSeen' = maxSeen \/ maxSeen' = item.at
  BY <1>0, <1>n DEF Later
<1>s. /\ staged'[item.page] = version[item.page]
      /\ \A p \in Page : p # item.page => staged'[p] = staged[p]
  BY <1>0, <1>n DEF TypeOK, CallTypeOK
<1>b. /\ IsFiniteSet(batch') /\ Cardinality(batch') \in Nat
      /\ Cardinality(batch') + count' <= MaxPagesPerCycle
  <2>1. IsFiniteSet(batch) /\ Cardinality(batch) + count <= MaxPagesPerCycle
    BY <1>0 DEF Limit
  <2>2. IsFiniteSet(batch') /\ Cardinality(batch') = Cardinality(batch) - 1
    BY <2>1, <1>0, FS_RemoveElement
  <2>3. Cardinality(batch) \in Nat /\ Cardinality(batch') \in Nat
    BY <2>1, <2>2, FS_CardinalityType
  <2> QED BY <2>1, <2>2, <2>3, <1>0, <1>n, PullBounds
<1>1. TypeOK'
  <2>1. maxSeen' \in Time BY <1>0, <1>n, <1>m, <1>i DEF TypeOK, CallTypeOK, NotionTypeOK, Time
  <2>2. count' \in 0..MaxPagesPerCycle BY <1>b, <1>0, <1>n, PullBounds
  <2>3. staged' \in [Page -> Content]
    BY <1>0, <1>n DEF TypeOK, CallTypeOK, NotionTypeOK
  <2>4. batch' \subseteq [page : Page, at : Time] BY <1>0 DEF TypeOK, CallTypeOK
  <2> QED BY <1>0, <2>1, <2>2, <2>3, <2>4 DEF TypeOK, NotionTypeOK, CursorTypeOK, CallTypeOK
<1>2. Contents'
  <2> SUFFICES ASSUME NEW p \in Page
               PROVE  /\ edited'[p] <= now' /\ (version'[p] > 0 <=> edited'[p] > 0)
                      /\ version'[p] <= edits' + 1 /\ brain'[p] <= version'[p]
                      /\ staged'[p] <= version'[p]
                      /\ staged'[p] > 0 => brain'[p] <= staged'[p]
    BY DEF Contents
  <2> QED BY <1>0, <1>n, <1>s DEF Contents
<1>3. Stored' BY <1>0 DEF Stored, Written, IsTail
<1>4. Running'
  <2>1. cutoff' <= maxSeen' /\ maxSeen' <= now' /\ (cutoff' = 0 => since' = 0)
        /\ maxSeen' > 0
    BY <1>0, <1>n, <1>m, <1>i DEF Running
  <2>2. token' /\ ~pending' BY <1>0 DEF Running
  <2>3. tail' \subseteq Written' /\ IsTail(tail', edited')
    BY <1>0 DEF Running, Written, IsTail
  <2>4. \A other \in batch' : other.at > 0 /\ other.at <= now' BY <1>0 DEF Running
  <2> QED BY <1>0, <2>1, <2>2, <2>3, <2>4 DEF Running
<1>5. Limit' BY <1>b DEF Limit
<1>6. NoEditLost' BY <1>0 DEF NoEditLost, StillToRead
<1>7. ASSUME NEW p \in Page PROVE Covered(p)'
  <2> SUFFICES ASSUME Behind(p), staged'[p] # version[p] PROVE Reading(p)'
    BY <1>0 DEF Covered, Behind
  <2>1. p # item.page /\ staged[p] # version[p] BY <1>s
  <2>2. Reading(p) BY <2>1, <1>0 DEF Inv, Covered
  <2>3. CASE \E other \in batch : other.page = p /\ NewEnough(other.at)
    BY <2>1, <2>3, <1>0 DEF Reading, NewEnough
  <2>4. CASE p \in tail /\ NewEnough(edited[p]) /\ \A other \in batch : edited[p] <= other.at
    <3>1. p \in tail' /\ NewEnough(edited[p])' BY <2>4, <1>0 DEF NewEnough
    <3>2. \A other \in batch' : edited'[p] <= other.at BY <2>4, <1>0
    <3> QED BY <3>1, <3>2 DEF Reading
  <2>5. CASE Late(p)
    <3>1. edited'[p] >= maxSeen' BY <2>5, <1>0, <1>m DEF Late
    <3>2. \A other \in batch' : edited'[p] >= other.at BY <2>5, <1>0 DEF Late
    <3> QED BY <3>1, <3>2 DEF Late, Reading
  <2> QED BY <2>2, <2>3, <2>4, <2>5 DEF Reading
<1> QED BY <1>1, <1>2, <1>3, <1>4, <1>5, <1>6, <1>7 DEF Inv

\* The first old item is the latest that is left: nothing behind it is new enough.
LEMMA StopAtOldItemStep ==
  ASSUME Inv, NEW item \in batch, StopAtOldItem(item) PROVE Inv'
<1>0. /\ TypeOK /\ Contents /\ Stored /\ Running /\ Limit /\ NoEditLost
      /\ pc = "item" /\ pc' = "import" /\ First(item) /\ TooOld(item)
      /\ pending' = FALSE /\ token' = FALSE /\ tail' = {} /\ batch' = {}
      /\ UNCHANGED <<now, edited, version, edits, brain, since, resume, cycleSince,
                     cycleMax, savedTail, errored, cutoff, maxSeen, count, staged, faults>>
  BY DEF Inv, StopAtOldItem, notionVars, cursorVars
<1>n. /\ now \in Nat /\ cutoff \in Nat /\ maxSeen \in Nat /\ count \in Nat
      /\ \A p \in Page : edited[p] \in Nat
      /\ \A other \in batch : other.at \in Nat
  BY <1>0, TimesAreNumbers
<1>1. TypeOK' BY <1>0 DEF TypeOK, NotionTypeOK, CursorTypeOK, CallTypeOK
<1>2. Contents' BY <1>0 DEF Contents
<1>3. Stored' BY <1>0 DEF Stored, Written, IsTail
<1>4. Running' BY <1>0 DEF Running
<1>5. Limit'
  <2>1. count <= MaxPagesPerCycle BY <1>0 DEF TypeOK, CallTypeOK
  <2> QED BY <1>0, <1>n, <2>1, FS_EmptySet DEF Limit
<1>6. NoEditLost' BY <1>0 DEF NoEditLost, StillToRead
<1>7. ASSUME NEW p \in Page PROVE Covered(p)'
  <2> SUFFICES ASSUME Behind(p), staged[p] # version[p] PROVE edited[p] >= maxSeen
    BY <1>0 DEF Covered, Behind, Ending
  <2>1. Reading(p) BY <1>0 DEF Inv, Covered
  <2>2. cutoff # 0 /\ item.at < cutoff BY <1>0 DEF TooOld
  <2>3. \A other \in batch : ~NewEnough(other.at)
    BY <2>2, <1>0, <1>n DEF First, NewEnough
  <2>4. edited[p] <= item.at => ~NewEnough(edited[p]) BY <2>2, <1>n DEF NewEnough
  <2> QED BY <2>1, <2>3, <2>4 DEF Reading, Late
<1> QED BY <1>1, <1>2, <1>3, <1>4, <1>5, <1>6, <1>7 DEF Inv

LEMMA EndBatchStep == Inv /\ EndBatch => Inv'
<1> SUFFICES ASSUME Inv, EndBatch PROVE Inv' OBVIOUS
<1>0. /\ TypeOK /\ Contents /\ Stored /\ Running /\ Limit /\ NoEditLost
      /\ pc = "item" /\ batch = {}
      /\ pending' = (tail # {} /\ count >= MaxPagesPerCycle)
      /\ pc' = IF tail # {} /\ count < MaxPagesPerCycle THEN "search" ELSE "import"
      /\ UNCHANGED <<now, edited, version, edits, brain, since, resume, cycleSince,
                     cycleMax, savedTail, errored, cutoff, maxSeen, token, tail, batch, count,
                     staged, faults>>
  BY DEF Inv, EndBatch, notionVars, cursorVars
<1>n. count \in Nat /\ maxSeen \in Nat BY <1>0, TimesAreNumbers
<1>p. /\ pc' \in {"search", "import"} /\ pending' \in BOOLEAN
      /\ pending' => count > 0 /\ pc' = "import"
      /\ pc' = "import" /\ tail # {} => pending'
  <2>1. MaxPagesPerCycle \in Nat /\ MaxPagesPerCycle > 0 BY PullBounds
  <2>2. CASE tail = {} BY <2>2, <1>0
  <2>3. CASE tail # {} /\ count < MaxPagesPerCycle
    <3>1. ~(count >= MaxPagesPerCycle) BY <2>1, <2>3, <1>n
    <3> QED BY <2>3, <3>1, <1>0
  <2>4. CASE tail # {} /\ ~(count < MaxPagesPerCycle)
    <3>1. count >= MaxPagesPerCycle /\ count > 0 BY <2>1, <2>4, <1>n
    <3> QED BY <2>4, <3>1, <1>0
  <2> QED BY <2>2, <2>3, <2>4
<1>1. TypeOK' BY <1>0, <1>p DEF TypeOK, NotionTypeOK, CursorTypeOK, CallTypeOK
<1>2. Contents' BY <1>0 DEF Contents
<1>3. Stored' BY <1>0 DEF Stored, Written, IsTail
<1>4. Running' BY <1>0, <1>p DEF Running, Written, IsTail
<1>5. Limit' BY <1>0 DEF Limit
<1>6. NoEditLost' BY <1>0 DEF NoEditLost, StillToRead
<1>7. ASSUME NEW p \in Page PROVE Covered(p)'
  <2>1. ASSUME Behind(p), staged[p] # version[p]
        PROVE  (p \in tail /\ NewEnough(edited[p])) \/ edited[p] >= maxSeen
    <3>1. Reading(p) BY <2>1, <1>0 DEF Inv, Covered
    <3> QED BY <3>1, <1>0 DEF Reading, Late
  <2>2. token BY <1>0 DEF Running
  <2> QED BY <2>1, <2>2, <1>0, <1>p DEF Covered, Behind, Searching, Ahead, Ending, NewEnough
<1> QED BY <1>1, <1>2, <1>3, <1>4, <1>5, <1>6, <1>7 DEF Inv

(***************************************************************************)
(* The rest of the cycle                                                   *)
(***************************************************************************)
LEMMA ImportStep == Inv /\ Import => Inv'
<1> SUFFICES ASSUME Inv, Import PROVE Inv' OBVIOUS
<1>0. /\ TypeOK /\ Contents /\ Stored /\ Running /\ Limit /\ NoEditLost
      /\ pc = "import" /\ pc' = "commit"
      /\ brain' = [p \in Page |-> IF staged[p] > 0 THEN staged[p] ELSE brain[p]]
      /\ UNCHANGED <<now, edited, version, edits, since, resume, cycleSince,
                     cycleMax, savedTail, errored, cutoff, maxSeen, token, tail, batch, count,
                     pending, staged, faults>>
  BY DEF Inv, Import, notionVars, cursorVars
<1>n. \A p \in Page : /\ version[p] \in Nat /\ brain[p] \in Nat /\ staged[p] \in Nat
                      /\ brain'[p] = IF staged[p] > 0 THEN staged[p] ELSE brain[p]
  BY <1>0, TimesAreNumbers
\* A page that is still behind was behind, and what was read of it is old.
<1>b. ASSUME NEW p \in Page, brain'[p] # version[p]
      PROVE  Behind(p) /\ staged[p] # version[p]
  BY <1>0, <1>n, <1>b DEF Contents, Behind
<1>1. TypeOK'
  <2>1. brain' \in [Page -> Content] BY <1>0 DEF TypeOK, NotionTypeOK, CallTypeOK
  <2> QED BY <1>0, <2>1 DEF TypeOK, NotionTypeOK, CursorTypeOK, CallTypeOK
<1>2. Contents'
  <2> SUFFICES ASSUME NEW p \in Page
               PROVE  brain'[p] <= version[p] /\ (staged[p] > 0 => brain'[p] <= staged[p])
    BY <1>0 DEF Contents
  <2> QED BY <1>0, <1>n DEF Contents
<1>3. Stored' BY <1>0 DEF Stored, Written, IsTail
<1>4. Running' BY <1>0 DEF Running, Written, IsTail
<1>5. Limit' BY <1>0 DEF Limit
<1>6. NoEditLost'
  <2> SUFFICES ASSUME NEW p \in Page, brain'[p] # version[p] PROVE StillToRead(p)'
    BY <1>0 DEF NoEditLost
  <2>1. StillToRead(p) BY <1>b, <1>0 DEF NoEditLost, Behind
  <2> QED BY <2>1, <1>0 DEF StillToRead
<1>7. ASSUME NEW p \in Page PROVE Covered(p)'
  <2> SUFFICES ASSUME brain'[p] # version[p] PROVE Ending(p)'
    BY <1>0 DEF Covered, Behind
  <2>1. Ending(p) BY <1>b, <1>0 DEF Inv, Covered
  <2> QED BY <2>1, <1>0 DEF Ending, NewEnough
<1> QED BY <1>1, <1>2, <1>3, <1>4, <1>5, <1>6, <1>7 DEF Inv

\* What the end of a call leaves in place, however it ends.
LEMMA CallEndsStep ==
  ASSUME Inv, CallEnds, UNCHANGED <<notionVars, brain>>, faults' \in 0..MaxFaults
  PROVE  /\ NotionTypeOK' /\ CallTypeOK' /\ Contents' /\ Running' /\ Limit'
         /\ \A p \in Page : Covered(p)'
<1>0. /\ TypeOK /\ Contents /\ UNCHANGED <<now, edited, version, edits, brain>>
  BY DEF Inv, notionVars
<1>n. /\ MaxPagesPerCycle \in Nat /\ MaxEdits \in Nat /\ 0 \in Time /\ 0 \in Content
      /\ now \in Nat /\ \A p \in Page : version[p] \in Nat
  BY <1>0, PullBounds, TimesAreNumbers DEF Time, Content
<1>s. staged' \in [Page -> Content] /\ \A p \in Page : staged'[p] = 0
  BY <1>n DEF CallEnds
<1>1. NotionTypeOK' BY <1>0 DEF TypeOK, NotionTypeOK
<1>2. CallTypeOK'
  <2>1. 0 \in 0..MaxPagesPerCycle BY <1>n
  <2> QED BY <1>n, <1>s, <2>1 DEF CallEnds, CallTypeOK
<1>3. Contents'
  <2> SUFFICES ASSUME NEW p \in Page
               PROVE  staged'[p] <= version[p] /\ ~(staged'[p] > 0)
    BY <1>0 DEF Contents
  <2> QED BY <1>n, <1>s
<1>4. Running' BY <1>s DEF CallEnds, Running
<1>5. Limit' BY <1>n, FS_EmptySet DEF CallEnds, Limit
<1>6. \A p \in Page : Covered(p)' BY DEF CallEnds, Covered
<1> QED BY <1>1, <1>2, <1>3, <1>4, <1>5, <1>6

LEMMA CommitStep == Inv /\ Commit => Inv'
<1> SUFFICES ASSUME Inv, Commit PROVE Inv' OBVIOUS
<1>0. /\ TypeOK /\ Contents /\ Stored /\ Running /\ Limit /\ NoEditLost
      /\ pc = "commit" /\ CallEnds
      /\ since' = IF pending THEN since ELSE maxSeen
      /\ resume' = pending
      /\ cycleSince' = IF pending THEN cutoff ELSE 0
      /\ cycleMax' = IF pending THEN maxSeen ELSE 0
      /\ savedTail' = IF pending THEN tail ELSE {}
      /\ errored' = FALSE
      /\ UNCHANGED <<now, edited, version, edits, brain, faults>>
  BY DEF Inv, Commit, notionVars
<1>n. /\ now \in Nat /\ now > 0 /\ since \in Nat /\ maxSeen \in Nat /\ cutoff \in Nat
      /\ \A p \in Page : edited[p] \in Nat
  BY <1>0, TimesAreNumbers
<1>r. /\ cutoff <= maxSeen /\ maxSeen <= now /\ (cutoff = 0 => since = 0)
      /\ pending => maxSeen > 0 /\ tail \subseteq Written /\ IsTail(tail, edited)
  BY <1>0 DEF Running
<1>1. CallTypeOK' /\ NotionTypeOK' /\ Contents' /\ Running' /\ Limit'
      /\ \A p \in Page : Covered(p)'
  <2>1. faults' \in 0..MaxFaults BY <1>0 DEF TypeOK, CallTypeOK
  <2>2. UNCHANGED <<notionVars, brain>> BY <1>0 DEF notionVars
  <2> QED BY <1>0, <2>1, <2>2, CallEndsStep
<1>2. CursorTypeOK'
  <2>1. 0 \in Time BY PullBounds DEF Time
  <2> QED BY <1>0, <2>1 DEF TypeOK, CallTypeOK, CursorTypeOK
<1>3. Stored'
  <2>1. CASE pending BY <2>1, <1>0, <1>n, <1>r DEF Stored, Written, IsTail
  <2>2. CASE ~pending BY <2>2, <1>0, <1>n, <1>r DEF Stored
  <2> QED BY <2>1, <2>2
<1>4. NoEditLost'
  <2> SUFFICES ASSUME NEW p \in Page, Behind(p) PROVE StillToRead(p)'
    BY <1>0 DEF NoEditLost, Behind
  <2>1. Ending(p) BY <1>0 DEF Inv, Covered
  <2>2. CASE pending BY <2>1, <2>2, <1>0 DEF Ending, NewEnough, StillToRead
  <2>3. CASE ~pending BY <2>1, <2>3, <1>0 DEF Ending, StillToRead
  <2> QED BY <2>2, <2>3
<1> QED BY <1>1, <1>2, <1>3, <1>4 DEF Inv, TypeOK

LEMMA FailStep == Inv /\ Fail => Inv'
<1> SUFFICES ASSUME Inv, Fail PROVE Inv' OBVIOUS
<1>0. /\ TypeOK /\ Contents /\ Stored /\ Limit /\ NoEditLost
      /\ CallEnds /\ faults < MaxFaults /\ faults' = faults + 1
      /\ UNCHANGED <<now, edited, version, edits, brain, since, resume, cycleSince,
                     cycleMax, savedTail, errored>>
  BY DEF Inv, Fail, notionVars, cursorVars
<1>1. CallTypeOK' /\ NotionTypeOK' /\ Contents' /\ Running' /\ Limit'
      /\ \A p \in Page : Covered(p)'
  <2>1. faults' \in 0..MaxFaults BY <1>0, PullBounds DEF TypeOK, CallTypeOK
  <2>2. UNCHANGED <<notionVars, brain>> BY <1>0 DEF notionVars
  <2> QED BY <1>0, <2>1, <2>2, CallEndsStep
<1>2. CursorTypeOK' BY <1>0 DEF TypeOK, CursorTypeOK
<1>3. Stored' BY <1>0 DEF Stored, Written, IsTail
<1>4. NoEditLost' BY <1>0 DEF NoEditLost, StillToRead
<1> QED BY <1>1, <1>2, <1>3, <1>4 DEF Inv, TypeOK

\* A connection that stands between two calls may leave service and come back.
LEMMA BetweenCallsStep ==
  ASSUME Inv, pc = "idle", UNCHANGED <<notionVars, brain, callVars>>, faults' \in 0..MaxFaults
  PROVE  /\ NotionTypeOK' /\ CallTypeOK' /\ Contents' /\ Limit'
         /\ \A p \in Page : Covered(p)'
<1>0. TypeOK /\ Contents /\ Limit BY DEF Inv
<1> USE DEF notionVars, callVars
<1>1. NotionTypeOK' /\ CallTypeOK' BY <1>0 DEF TypeOK, NotionTypeOK, CallTypeOK
<1>2. Contents' /\ Limit' BY <1>0 DEF Contents, Limit
<1>3. \A p \in Page : Covered(p)' BY DEF Covered
<1> QED BY <1>1, <1>2, <1>3

LEMMA RejectStep == Inv /\ Reject => Inv'
<1> SUFFICES ASSUME Inv, Reject PROVE Inv' OBVIOUS
<1>0. /\ TypeOK /\ Stored /\ Running /\ NoEditLost
      /\ pc = "idle" /\ faults < MaxFaults /\ faults' = faults + 1 /\ errored' = TRUE
      /\ UNCHANGED <<notionVars, brain, since, resume, cycleSince, cycleMax, savedTail, callVars>>
  BY DEF Inv, Reject
<1> USE DEF notionVars, callVars
<1>1. faults' \in 0..MaxFaults BY <1>0, PullBounds DEF TypeOK, CallTypeOK
<1>2. CursorTypeOK' BY <1>0 DEF TypeOK, CursorTypeOK
<1>3. Stored' BY <1>0 DEF Stored, Written, IsTail
<1>4. Running' BY <1>0 DEF Running, Written, IsTail
<1>5. NoEditLost' BY <1>0 DEF NoEditLost, StillToRead
<1> QED BY <1>0, <1>1, <1>2, <1>3, <1>4, <1>5, BetweenCallsStep DEF Inv, TypeOK

LEMMA ReconnectStep == Inv /\ Reconnect => Inv'
<1> SUFFICES ASSUME Inv, Reconnect PROVE Inv' OBVIOUS
<1>0. /\ TypeOK /\ Stored /\ Running
      /\ pc = "idle" /\ errored' = FALSE
      /\ since' = 0 /\ resume' = FALSE /\ cycleSince' = 0 /\ cycleMax' = 0 /\ savedTail' = {}
      /\ UNCHANGED <<notionVars, brain, callVars, faults>>
  BY DEF Inv, Reconnect
<1> USE DEF notionVars, callVars
<1>n. now \in Nat /\ 0 \in Time BY <1>0, TimesAreNumbers, PullBounds DEF Time
<1>1. faults' \in 0..MaxFaults BY <1>0 DEF TypeOK, CallTypeOK
<1>2. CursorTypeOK' BY <1>0, <1>n DEF TypeOK, CursorTypeOK
<1>3. Stored' BY <1>0, <1>n DEF Stored
<1>4. Running' BY <1>0 DEF Running, Written, IsTail
<1>5. NoEditLost' BY <1>0 DEF NoEditLost, StillToRead
<1> QED BY <1>0, <1>1, <1>2, <1>3, <1>4, <1>5, BetweenCallsStep DEF Inv, TypeOK

(***************************************************************************)
(* The theorems                                                            *)
(***************************************************************************)
LEMMA InvStep == Inv /\ [Next]_vars => Inv'
<1> SUFFICES ASSUME Inv, [Next]_vars PROVE Inv' OBVIOUS
<1>1. CASE Start BY <1>1, StartStep
<1>2. CASE Search BY <1>2, SearchStep
<1>3. CASE Read BY <1>3, ReadItemStep, StopAtOldItemStep DEF Read
<1>4. CASE EndBatch BY <1>4, EndBatchStep
<1>5. CASE Import BY <1>5, ImportStep
<1>6. CASE Commit BY <1>6, CommitStep
<1>7. CASE Fail \/ Reject \/ Reconnect BY <1>7, FailStep, RejectStep, ReconnectStep
<1>8. CASE Tick BY <1>8, TickStep
<1>9. CASE \E p \in Page : Edit(p) BY <1>9, EditStep
<1>10. CASE UNCHANGED vars
  <2> USE <1>10 DEF vars, notionVars, cursorVars, callVars
  <2>1. TypeOK' BY DEF Inv, TypeOK, NotionTypeOK, CursorTypeOK, CallTypeOK
  <2>2. Contents' /\ Limit' BY DEF Inv, Contents, Limit
  <2>3. Stored' /\ Running' BY DEF Inv, Stored, Running, Written, IsTail
  <2>4. NoEditLost' BY DEF Inv, NoEditLost, StillToRead
  <2>5. ASSUME NEW p \in Page PROVE Covered(p)'
    <3>1. Covered(p) BY DEF Inv
    <3> QED BY <3>1 DEF Covered, Behind, Searching, Reading, Ending, Ahead, Late,
                        NewEnough, Written
  <2> QED BY <2>1, <2>2, <2>3, <2>4, <2>5 DEF Inv
<1> QED BY <1>1, <1>2, <1>3, <1>4, <1>5, <1>6, <1>7, <1>8, <1>9, <1>10 DEF Next, Call

LEMMA Invariant == Spec => []Inv
BY InitStep, InvStep, PTL DEF Spec

\* Every variable of the page list, of the stored cursor and of a running call
\* keeps its type, and a call never reads more pages than its limit.
THEOREM PullTypeCorrect == Spec => []TypeOK
<1>1. Inv => TypeOK BY DEF Inv
<1> QED BY <1>1, Invariant, PTL

\* extract and finalizeCursor never lose an edit, for any number of pages, edits
\* and failed cycles: a page that gbrain has an older text of will be read again.
THEOREM EditsAreNotLost == Spec => []NoEditLost
<1>1. Inv => NoEditLost BY DEF Inv
<1> QED BY <1>1, Invariant, PTL

-----------------------------------------------------------------------------
\* NotionPull implements SourceMirror.

NotOwedIsUpToDate == \A p \in Page : ~StillToRead(p) => brain[p] = version[p]

LEMMA NothingElseIsOwed == Inv => NotOwedIsUpToDate
BY DEF Inv, NoEditLost, NotOwedIsUpToDate

LEMMA UpTo ==
  ASSUME NEW n \in Content PROVE 1..n \subseteq Content \ {0}
BY PullBounds DEF Content

LEMMA PagesAreMirrored ==
  ASSUME Inv
  PROVE  /\ [p \in Page |-> 1..version[p]] \in [Page -> SUBSET (Content \ {0})]
         /\ [p \in Page |-> 1..brain[p]] \in [Page -> SUBSET (Content \ {0})]
         /\ \A p \in Page : 1..brain[p] \subseteq 1..version[p]
<1>1. \A p \in Page : version[p] \in Content /\ brain[p] \in Content
  BY DEF Inv, TypeOK, NotionTypeOK
<1>2. \A p \in Page : brain[p] \in Nat /\ version[p] \in Nat /\ brain[p] <= version[p]
  BY TimesAreNumbers DEF Inv, Contents
<1> QED
  BY <1>1, <1>2, UpTo

LEMMA InitMirrors == ASSUME Init PROVE Mirror!Init
<1>1. Inv
  BY InitStep
<1>2. \A p \in Page : StillToRead(p)
  BY DEF Init, StillToRead
<1> QED
  BY <1>1, <1>2, PagesAreMirrored DEF Mirror!Init

LEMMA EditMirrors == ASSUME Inv, NEW p \in Page, Edit(p) PROVE Mirror!Write(p)
<1> DEFINE content == [q \in Page |-> 1..version[q]]
           owed == {q \in Page : StillToRead(q)}
<1>1. /\ TypeOK /\ Contents /\ Stored /\ edits < MaxEdits
      /\ UNCHANGED <<now, brain, since, resume, cycleSince, cycleMax>>
  BY DEF Inv, Edit
<1>2. /\ version'[p] = version[p] + 1 /\ edited'[p] = now
      /\ \A q \in Page \ {p} : version'[q] = version[q] /\ edited'[q] = edited[q]
  BY <1>1 DEF Edit, TypeOK, NotionTypeOK
<1>3. version[p] \in Nat /\ version[p] + 1 \in Content \ {0} /\ version[p] + 1 \notin 1..version[p]
  BY <1>1, TimesAreNumbers, PullBounds DEF Contents, Content
<1>4. content' = [content EXCEPT ![p] = @ \cup {version[p] + 1}]
  <2>1. 1..(version[p] + 1) = 1..version[p] \cup {version[p] + 1}
    BY <1>3
  <2> QED
    BY <1>2, <2>1
<1>5. \A q \in Page \ {p} : q \in savedTail /\ resume => q \in savedTail'
  BY TailAfterEdit DEF Edit
<1>6. owed \cup {p} \subseteq owed'
  <2>1. StillToRead(p)'
    BY <1>1, <1>2, TimesAreNumbers DEF Stored, StillToRead
  <2>2. \A q \in Page \ {p} : StillToRead(q) => StillToRead(q)'
    BY <1>1, <1>2, <1>5 DEF StillToRead
  <2> QED
    BY <2>1, <2>2
<1>7. [q \in Page |-> 1..brain[q]]' = [q \in Page |-> 1..brain[q]]
  BY <1>1
<1> QED
  BY <1>3, <1>4, <1>6, <1>7 DEF Mirror!Write

LEMMA ImportMirrors == ASSUME Inv, Inv', Import PROVE Mirror!Import
<1>1. UNCHANGED <<version, edited, since, resume, cycleSince, cycleMax, savedTail, errored>>
  BY DEF Import, notionVars, cursorVars
<1>2. ASSUME NEW p \in Page PROVE 1..brain[p] \subseteq 1..brain'[p]
  <2>1. brain'[p] = IF staged[p] > 0 THEN staged[p] ELSE brain[p]
    BY DEF Import
  <2>2. brain[p] \in Nat /\ staged[p] \in Nat /\ (staged[p] > 0 => brain[p] <= staged[p])
    BY TimesAreNumbers DEF Inv, Contents
  <2> QED
    BY <2>1, <2>2
<1>3. \A p \in Page : 1..brain'[p] \subseteq 1..version[p]
  <2>1. \A p \in Page : brain'[p] \in Nat /\ version'[p] \in Nat /\ brain'[p] <= version'[p]
    BY PullBounds DEF Inv, Contents, TypeOK, NotionTypeOK, Content
  <2> QED
    BY <1>1, <2>1
<1>4. [p \in Page |-> 1..brain'[p]] \in [Page -> SUBSET (Content \ {0})]
  <2>1. \A p \in Page : brain'[p] \in Content
    BY DEF Inv, TypeOK, NotionTypeOK
  <2> QED
    BY <2>1, UpTo
<1>5. \A p \in Page : StillToRead(p)' <=> StillToRead(p)
  BY <1>1 DEF StillToRead
<1> QED
  BY <1>1, <1>2, <1>3, <1>4, <1>5 DEF Mirror!Import

LEMMA SettleMirrors == ASSUME Inv', UNCHANGED <<version, brain>> PROVE Mirror!Settle
<1>1. NotOwedIsUpToDate'
  BY NothingElseIsOwed, PTL
<1> QED
  BY <1>1 DEF NotOwedIsUpToDate, Mirror!Settle, Mirror!UpToDate

\* What pages contain, what gbrain has of them and what the stored cursor owes changes in
\* steps of the abstract mirror: gbrain never goes back to an older text, and a commit of
\* the cursor gives up no page that gbrain is behind on.
THEOREM PullMirrors == Spec => ImplementsMirror
<1>1. Inv /\ Inv' /\ [Next]_vars => [Mirror!Next]_(Mirror!mirrorVars)
  <2> SUFFICES ASSUME Inv, Inv', [Next]_vars PROVE Mirror!Next
    OBVIOUS
  <2>1. \/ Import \/ UNCHANGED <<version, brain>> \/ \E p \in Page : Edit(p)
    BY DEF Next, Call, Read, Start, Search, ReadItem, StopAtOldItem, EndBatch, Commit, Fail, Reject,
       Reconnect, Tick, vars, notionVars
  <2> QED
    BY <2>1, EditMirrors, ImportMirrors, SettleMirrors DEF Mirror!Next
<1>2. Init => Mirror!Init
  BY InitMirrors
<1> QED
  BY <1>1, <1>2, Invariant, PTL DEF Spec, ImplementsMirror, Mirror!Spec

-----------------------------------------------------------------------------
\* Repositories: the types.

LEMMA SetSyncTyped ==
  ASSUME NEW c \in Conn, repo \in [Conn -> RepoRow], NEW status \in Sync, SetSync(c, status)
  PROVE  repo' \in [Conn -> RepoRow]
<1>1. repo[c] \in RepoRow
  OBVIOUS
<1>2. [repo[c] EXCEPT !.sync = status] \in RepoRow
  BY <1>1 DEF RepoRow
<1> QED
  BY <1>2 DEF SetSync

LEMMA SetStatusTyped ==
  ASSUME NEW c \in Conn, conn \in [Conn -> Connection],
         NEW status \in {"pending_import", "active", "errored"}, SetStatus(c, status)
  PROVE  conn' \in [Conn -> Connection]
BY DEF SetStatus, Connection

LEMMA GoesTyped ==
  ASSUME NEW r \in Req, req \in [Req -> Request],
         NEW label \in {"new", "over", "insert", "token", "source", "record", "fail", "failConn",
                     "behind", "pending", "syncing", "remove", "forget", "disconnect"},
         Goes(r, label)
  PROVE  req' \in [Req -> Request]
BY DEF Goes, Request

LEMMA FixedTyped ==
  /\ NoRequest \in Request /\ Over \in Request
  /\ NoRepo \in RepoRow /\ NoSource \in Source
BY RepoSyncConstants
DEF NoRequest, Over, Request, Conn, NoRepo, RepoRow, NoSource, Source, Sync, Token,
    CommitNumber

LEMMA KnownIsFinite == IsFiniteSet(Known)
<1>1. IsFiniteSet(1..MaxConn)
  BY RepoSyncConstants, FS_Interval
<1> QED
  BY <1>1, FS_Subset DEF Known, Conn

LEMMA GitHubTyped ==
  ASSUME RepoTyped, Push \/ Uninstall \/ Webhook \/ LoseEvent PROVE RepoTyped'
<1> USE RepoSyncConstants DEF RepoTyped, github, gbrain, rows, CommitNumber
<1>1. CASE Push
  BY <1>1 DEF Push
<1>2. CASE Uninstall
  <2>1. events' \subseteq CommitNumber
    BY <1>2 DEF Uninstall
  <2> QED
    BY <1>2, <2>1 DEF Uninstall
<1>3. ASSUME NEW commit \in CommitNumber, HandlePush(commit) PROVE RepoTyped'
  <2>1. ASSUME NEW c \in Conn
        PROVE  [repo[c] EXCEPT !.headSha = commit, !.sync = "behind"] \in RepoRow
    <3>1. repo[c] \in RepoRow
      OBVIOUS
    <3>2. [repo[c] EXCEPT !.headSha = commit] \in RepoRow
      BY <3>1, <1>3 DEF RepoRow
    <3>3. [[repo[c] EXCEPT !.headSha = commit] EXCEPT !.sync = "behind"] \in RepoRow
      BY <3>2 DEF RepoRow, Sync
    <3> QED
      BY <3>3
  <2>2. repo' \in [Conn -> RepoRow]
    BY <1>3, <2>1 DEF HandlePush
  <2>3. Cardinality(Known) \in Nat
    BY KnownIsFinite, FS_CardinalityType
  <2>k. kicks' = kicks + Cardinality(Known) /\ events' = events \ {commit}
    BY <1>3 DEF HandlePush
  <2>4. kicks' \in Nat
    BY <2>k, <2>3
  <2> QED
    BY <1>3, <2>2, <2>k, <2>4 DEF HandlePush
<1>4. CASE HandleUninstall
  <2>1. ASSUME NEW c \in Conn PROVE [repo[c] EXCEPT !.sync = "errored"] \in RepoRow
    BY DEF RepoRow, Sync
  <2>2. repo' \in [Conn -> RepoRow]
    BY <1>4, <2>1 DEF HandleUninstall, AuthRequired
  <2> QED
    BY <1>4, <2>2 DEF HandleUninstall
<1>5. CASE LoseEvent
  BY <1>5 DEF LoseEvent
<1> QED
  BY <1>1, <1>2, <1>3, <1>4, <1>5 DEF Webhook

LEMMA AsksTyped == ASSUME RepoTyped, NEW r \in Req, Asks(r) PROVE RepoTyped'
<1> USE DEF RepoTyped, github, gbrain, rows
<1>1. CASE Add(r)
  <2>1. PICK c \in Conn :
          /\ SetStatus(c, "pending_import")
          /\ req' = [req EXCEPT ![r] = [op |-> "add", conn |-> c, pc |-> "insert"]]
    BY <1>1 DEF Add
  <2>2. conn' \in [Conn -> Connection]
    BY <2>1, SetStatusTyped
  <2>3. req' \in [Req -> Request]
    BY <2>1 DEF Request
  <2> QED
    BY <1>1, <2>2, <2>3 DEF Add
<1>2. CASE Manage(r)
  <2>1. PICK c \in Known, op \in {"sync", "patch", "repair", "retry"} :
          req' = [req EXCEPT ![r] = [op |-> op, conn |-> c, pc |-> FirstStep(op, c)]]
    BY <1>2 DEF Manage
  <2>2. [op |-> op, conn |-> c, pc |-> FirstStep(op, c)] \in Request
    BY <2>1 DEF Known, FirstStep, Request
  <2>3. req' \in [Req -> Request]
    BY <2>1, <2>2
  <2> QED
    BY <1>2, <2>3 DEF Manage
<1>3. CASE Disconnect(r)
  <2>1. req' \in [Req -> Request]
    BY <1>3 DEF Disconnect, Request
  <2> QED
    BY <1>3, <2>1 DEF Disconnect
<1> QED
  BY <1>1, <1>2, <1>3 DEF Asks

LEMMA EndsTyped ==
  ASSUME NEW r \in Req, req \in [Req -> Request], MaxConn \in Nat \ {0}, Ends(r)
  PROVE  req' \in [Req -> Request]
BY FixedTyped DEF Ends

LEMMA RegistrationTyped ==
  ASSUME RepoTyped, NEW r \in Req,
         InsertRepo(r) \/ RenewToken(r) \/ SourcesAdd(r) \/ RecordRegistration(r)
           \/ MarkRegistrationError(r)
  PROVE  RepoTyped'
<1> DEFINE c == req[r].conn
<1> USE RepoSyncConstants DEF github, gbrain, rows
<1>c. /\ c \in Conn /\ r \in Token /\ NoToken \in Token /\ req[r] \in Request
      /\ repo[c] \in RepoRow
  BY DEF RepoTyped, Request, Token
<1>1. CASE InsertRepo(r)
  <2>1. CASE Ends(r) /\ UNCHANGED repo
    BY <1>1, <2>1, EndsTyped DEF InsertRepo, RepoTyped
  <2>2. CASE /\ repo' = [repo EXCEPT ![c] = [NoRepo EXCEPT !.exists = TRUE,
                                          !.token = IF RepoPrivate THEN r ELSE NoToken]]
             /\ Goes(r, "source")
    <3>1. [NoRepo EXCEPT !.exists = TRUE, !.token = IF RepoPrivate THEN r ELSE NoToken]
            \in RepoRow
      BY <1>c, FixedTyped DEF RepoRow
    <3>2. repo' \in [Conn -> RepoRow] /\ req' \in [Req -> Request]
      BY <1>c, <2>2, <3>1, GoesTyped DEF RepoTyped
    <3> QED
      BY <1>1, <3>2 DEF InsertRepo, RepoTyped
  <2> QED
    BY <1>1, <2>1, <2>2 DEF InsertRepo
<1>2. CASE RenewToken(r)
  <2>1. [repo[c] EXCEPT !.token = r] \in RepoRow
    BY <1>c DEF RepoRow, RepoTyped
  <2>2. repo' \in [Conn -> RepoRow] /\ req' \in [Req -> Request]
    BY <1>2, <1>c, <2>1, GoesTyped DEF RenewToken, RepoTyped
  <2> QED
    BY <1>2, <2>2 DEF RenewToken, RepoTyped
<1>3. CASE SourcesAdd(r)
  <2> DEFINE given == IF RepoPrivate THEN r ELSE NoToken
             added == [source EXCEPT ![c].there = TRUE, ![c].token = given]
  <2>1. [[source[c] EXCEPT !.there = TRUE] EXCEPT !.token = given] \in Source
    BY <1>c DEF Source, RepoTyped
  <2>2. added \in [Conn -> Source]
    BY <1>c, <2>1 DEF RepoTyped
  <2>3. source' \in {source, added} /\ failures' \in 0..MaxFailures
        /\ (Goes(r, "record") \/ Goes(r, "fail"))
    BY <1>3 DEF SourcesAdd, RepoTyped
  <2>4. source' \in [Conn -> Source] /\ req' \in [Req -> Request]
    BY <2>2, <2>3, GoesTyped DEF RepoTyped
  <2> QED
    BY <1>3, <2>3, <2>4 DEF SourcesAdd, RepoTyped
<1>4. CASE RecordRegistration(r)
  <2>0. [repo[c] EXCEPT !.registered = TRUE] \in RepoRow
    BY <1>c DEF RepoRow
  <2>1. [[repo[c] EXCEPT !.registered = TRUE] EXCEPT !.sync = "syncing"] \in RepoRow
    BY <2>0 DEF RepoRow, Sync
  <2>2. repo' \in [Conn -> RepoRow]
    BY <1>4, <1>c, <2>1 DEF RecordRegistration, RepoTyped
  <2>3. req' \in [Req -> Request] /\ kicks' \in Nat
    BY <1>4, GoesTyped, EndsTyped DEF RecordRegistration, RepoTyped
  <2> QED
    BY <1>4, <2>2, <2>3 DEF RecordRegistration, RepoTyped
<1>5. CASE At(r, "fail") /\ MarkRegistrationError(r)
  <2>1. SetSync(c, "errored") /\ Goes(r, "failConn")
        /\ UNCHANGED <<github, gbrain, conn, kicks, cycle, failures>>
    BY <1>5 DEF MarkRegistrationError, At
  <2>2. repo' \in [Conn -> RepoRow]
    BY <1>c, <2>1, SetSyncTyped DEF RepoTyped, Sync
  <2>3. req' \in [Req -> Request]
    BY <2>1, GoesTyped DEF RepoTyped
  <2> QED
    BY <2>1, <2>2, <2>3 DEF RepoTyped
<1>6. CASE At(r, "failConn") /\ MarkRegistrationError(r)
  <2>1. SetStatus(c, "errored") /\ Ends(r)
        /\ UNCHANGED <<github, gbrain, repo, kicks, cycle, failures>>
    BY <1>6 DEF MarkRegistrationError, At
  <2>2. conn' \in [Conn -> Connection] /\ req' \in [Req -> Request]
    BY <1>c, <2>1, SetStatusTyped, EndsTyped DEF RepoTyped
  <2> QED
    BY <2>1, <2>2 DEF RepoTyped
<1> QED
  BY <1>1, <1>2, <1>3, <1>4, <1>5, <1>6 DEF MarkRegistrationError

LEMMA RouteTyped ==
  ASSUME RepoTyped, NEW r \in Req,
         SetPending(r) \/ SetSyncing(r) \/ SetBehind(r)
           \/ SourcesRemove(r) \/ ForgetToken(r) \/ SetDisconnected(r)
  PROVE  RepoTyped'
<1> DEFINE c == req[r].conn
<1> USE RepoSyncConstants DEF github, gbrain, rows
<1>c. c \in Conn /\ NoToken \in Token /\ req[r] \in Request /\ repo[c] \in RepoRow
  BY DEF RepoTyped, Request, Token
<1>1. CASE SetPending(r)
  <2>1. conn' \in [Conn -> Connection]
    BY <1>1, <1>c, SetStatusTyped DEF SetPending, RepoTyped
  <2>2. req' \in [Req -> Request] /\ kicks' \in Nat
    BY <1>1, GoesTyped, EndsTyped DEF SetPending, EndsWithKick, RepoTyped
  <2> QED
    BY <1>1, <2>1, <2>2 DEF SetPending, RepoTyped
<1>2. CASE SetSyncing(r)
  <2>1. repo' \in [Conn -> RepoRow]
    BY <1>2, <1>c, SetSyncTyped DEF SetSyncing, RepoTyped, Sync
  <2>2. req' \in [Req -> Request] /\ kicks' \in Nat
    BY <1>2, EndsTyped DEF SetSyncing, EndsWithKick, RepoTyped
  <2> QED
    BY <1>2, <2>1, <2>2 DEF SetSyncing, RepoTyped
<1>3. CASE SetBehind(r)
  <2>1. repo' \in [Conn -> RepoRow]
    BY <1>3, <1>c, SetSyncTyped DEF SetBehind, RepoTyped, Sync
  <2>2. req' \in [Req -> Request] /\ kicks' \in Nat
    BY <1>3, GoesTyped, EndsTyped DEF SetBehind, EndsWithKick, RepoTyped
  <2> QED
    BY <1>3, <2>1, <2>2 DEF SetBehind, RepoTyped
<1>4. CASE SourcesRemove(r)
  <2>1. source' \in {source, [source EXCEPT ![c] = NoSource]} /\ failures' \in 0..MaxFailures
        /\ (Goes(r, "forget") \/ Ends(r))
    BY <1>4 DEF SourcesRemove, RepoTyped
  <2>2. source' \in [Conn -> Source] /\ req' \in [Req -> Request]
    BY <2>1, GoesTyped, EndsTyped, FixedTyped DEF RepoTyped
  <2> QED
    BY <1>4, <2>1, <2>2 DEF SourcesRemove, RepoTyped
<1>5. CASE ForgetToken(r)
  <2>0. [repo[c] EXCEPT !.token = NoToken] \in RepoRow
    BY <1>c DEF RepoRow
  <2>1. [[repo[c] EXCEPT !.token = NoToken] EXCEPT !.sync = "fresh"] \in RepoRow
    BY <2>0 DEF RepoRow, Sync
  <2>2. repo' \in [Conn -> RepoRow] /\ req' \in [Req -> Request]
    BY <1>5, <1>c, <2>1, GoesTyped DEF ForgetToken, RepoTyped
  <2> QED
    BY <1>5, <2>2 DEF ForgetToken, RepoTyped
<1>6. CASE SetDisconnected(r)
  <2>1. conn' \in [Conn -> Connection]
    BY <1>6, <1>c DEF SetDisconnected, Connection, RepoTyped
  <2>2. req' \in [Req -> Request]
    BY <1>6, EndsTyped DEF SetDisconnected, RepoTyped
  <2> QED
    BY <1>6, <2>1, <2>2 DEF SetDisconnected, RepoTyped
<1> QED
  BY <1>1, <1>2, <1>3, <1>4, <1>5, <1>6

LEMMA CycleGoesTyped ==
  ASSUME cycle \in Cycle,
         NEW label \in {"idle", "select", "next", "mark", "submit", "poll", "fresh", "degraded",
                     "fail", "failConn", "commit"},
         CycleGoes(label)
  PROVE  cycle' \in Cycle
BY DEF CycleGoes, Cycle

LEMMA NoCycleTyped == NoCycle \in Cycle
BY RepoSyncConstants DEF NoCycle, Cycle, Conn, CommitNumber

LEMMA CycleStartTyped == ASSUME RepoTyped, SchedulerTick \/ Kick PROVE RepoTyped'
<1>1. [NoCycle EXCEPT !.pc = "select"] \in Cycle
  BY NoCycleTyped DEF Cycle
<1>2. Starts => cycle' \in Cycle
  BY <1>1 DEF Starts
<1>3. CASE SchedulerTick
  BY <1>2, <1>3 DEF SchedulerTick, RepoTyped, github, gbrain, rows
<1>4. CASE Kick
  <2>1. kicks' \in Nat /\ cycle' \in Cycle
    BY <1>2, <1>4 DEF Kick, RepoTyped
  <2> QED
    BY <2>1, <1>4 DEF Kick, RepoTyped, github, gbrain, rows
<1> QED
  BY <1>3, <1>4

LEMMA RunsCycleTyped == ASSUME RepoTyped, RunsCycle PROVE RepoTyped'
<1> USE RepoSyncConstants DEF github, gbrain, rows
<1>c. cycle \in Cycle /\ cycle.on \in Conn /\ 1 \in Conn /\ 0 \in CommitNumber
  BY DEF RepoTyped, Cycle, Conn, CommitNumber
<1>1. CASE Select
  <2>1. cycle' \in Cycle
    BY <1>1, <1>c DEF Select, Cycle
  <2> QED
    BY <1>1, <2>1 DEF Select, RepoTyped
<1>2. CASE LoadRepo
  <2>1. ASSUME NEW c \in cycle.todo,
               cycle' = [cycle EXCEPT !.todo = @ \ {c}, !.on = c,
                           !.pc = IF repo[c].registered THEN "mark" ELSE "fail"]
        PROVE  cycle' \in Cycle
    BY <2>1, <1>c DEF Cycle
  <2>2. cycle' \in Cycle
    BY <1>2, <1>c, <2>1, CycleGoesTyped DEF LoadRepo
  <2> QED
    BY <1>2, <2>2 DEF LoadRepo, RepoTyped
<1>3. CASE MarkSyncing
  <2>1. cycle' \in Cycle
    BY <1>3, <1>c, CycleGoesTyped DEF MarkSyncing
  <2>2. repo' \in [Conn -> RepoRow]
    BY <1>3, <1>c, SetSyncTyped DEF MarkSyncing, RepoTyped, Sync
  <2> QED
    BY <1>3, <2>1, <2>2 DEF MarkSyncing, RepoTyped
<1>4. CASE SubmitSync
  <2>1. cycle' \in Cycle
    BY <1>4, <1>c, CycleGoesTyped DEF SubmitSync
  <2>2. job' \in [Conn -> {"none", "running", "completed", "failed"}] /\ failures' \in 0..MaxFailures
    BY <1>4, <1>c DEF SubmitSync, RepoTyped
  <2> QED
    BY <1>4, <2>1, <2>2 DEF SubmitSync, RepoTyped
<1>5. CASE Poll
  <2>1. ASSUME NEW label \in {"fresh", "degraded"}
        PROVE  [cycle EXCEPT !.saw = source[cycle.on].commit, !.pc = label] \in Cycle
    <3>1. source[cycle.on].commit \in CommitNumber
      BY <1>c DEF RepoTyped, Source
    <3> QED
      BY <3>1, <1>c DEF Cycle
  <2>2. cycle' \in Cycle
    BY <1>5, <1>c, <2>1, CycleGoesTyped DEF Poll
  <2>3. job' \in [Conn -> {"none", "running", "completed", "failed"}] /\ failures' \in 0..MaxFailures
    BY <1>5, <1>c DEF Poll, RepoTyped
  <2> QED
    BY <1>5, <2>2, <2>3 DEF Poll, RepoTyped
<1>6. CASE WriteFresh
  <2>1. cycle' \in Cycle
    BY <1>6, <1>c DEF WriteFresh, Cycle
  <2>2. repo[cycle.on] \in RepoRow /\ cycle.saw \in CommitNumber
    BY <1>c DEF RepoTyped, Cycle
  <2>3. [[repo[cycle.on] EXCEPT !.indexed = cycle.saw] EXCEPT !.headSha = cycle.saw] \in RepoRow
    BY <2>2 DEF RepoRow
  <2>4. ASSUME NEW status \in Sync
        PROVE  [[[repo[cycle.on] EXCEPT !.indexed = cycle.saw] EXCEPT !.headSha = cycle.saw]
                  EXCEPT !.sync = status] \in RepoRow
    BY <2>3 DEF RepoRow
  <2>5. repo' \in [Conn -> RepoRow]
    <3>1. PICK status \in Sync :
            repo' = [repo EXCEPT ![cycle.on].indexed = cycle.saw, ![cycle.on].headSha = cycle.saw,
                                 ![cycle.on].sync = status]
      BY <1>6 DEF WriteFresh, Sync
    <3> QED
      BY <1>c, <2>4, <3>1 DEF RepoTyped
  <2> QED
    BY <1>6, <2>1, <2>5 DEF WriteFresh, RepoTyped
<1>7. CASE CycleAt("fail") /\ SyncFails
  <2>1. SetSync(cycle.on, "errored") /\ CycleGoes("failConn")
        /\ UNCHANGED <<github, gbrain, conn, req, kicks, failures>>
    BY <1>7 DEF SyncFails, CycleAt
  <2>2. repo' \in [Conn -> RepoRow] /\ cycle' \in Cycle
    BY <1>c, <2>1, SetSyncTyped, CycleGoesTyped DEF RepoTyped, Sync
  <2> QED
    BY <2>1, <2>2 DEF RepoTyped
<1>8. CASE CycleAt("failConn") /\ SyncFails
  <2>1. /\ SetStatus(cycle.on, "errored") /\ cycle' = [cycle EXCEPT !.pc = "next", !.on = 1]
        /\ UNCHANGED <<github, gbrain, repo, req, kicks, failures>>
    BY <1>8 DEF SyncFails, CycleAt
  <2>2. conn' \in [Conn -> Connection] /\ cycle' \in Cycle
    BY <1>c, <2>1, SetStatusTyped DEF RepoTyped, Cycle
  <2> QED
    BY <2>1, <2>2 DEF RepoTyped
<1>9. CASE CommitStatus
  <2>1. CASE cycle' = NoCycle /\ UNCHANGED conn
    BY <1>9, <2>1, NoCycleTyped DEF CommitStatus, RepoTyped
  <2>2. ASSUME NEW c \in cycle.done, SetStatus(c, "active"),
               cycle' = [cycle EXCEPT !.done = @ \ {c}]
        PROVE  RepoTyped'
    <3>1. conn' \in [Conn -> Connection] /\ cycle' \in Cycle
      BY <1>c, <2>2, SetStatusTyped DEF RepoTyped, Cycle
    <3> QED
      BY <1>9, <3>1 DEF CommitStatus, RepoTyped
  <2> QED
    BY <1>9, <2>1, <2>2 DEF CommitStatus
<1> QED
  BY <1>1, <1>2, <1>3, <1>4, <1>5, <1>6, <1>7, <1>8, <1>9 DEF RunsCycle, SyncFails

LEMMA RunsJobTyped == ASSUME RepoTyped, RunsJob PROVE RepoTyped'
<1> USE RepoSyncConstants DEF github, gbrain, rows
<1>1. ASSUME NEW c \in Conn, JobPulls(c) PROVE RepoTyped'
  <2>1. ASSUME NEW commit \in {0, source[c].commit, head}, NEW healthy \in BOOLEAN
        PROVE  [[source[c] EXCEPT !.commit = commit] EXCEPT !.healthy = healthy] \in Source
    <3>1. commit \in CommitNumber /\ source[c] \in Source
      BY DEF RepoTyped, Source, CommitNumber
    <3> QED
      BY <3>1 DEF Source
  <2>2. source' \in [Conn -> Source]
    <3>1. PICK commit \in {0, source[c].commit, head}, healthy \in BOOLEAN :
            source' = [source EXCEPT ![c].commit = commit, ![c].healthy = healthy]
      BY <1>1 DEF JobPulls
    <3> QED
      BY <2>1, <3>1 DEF RepoTyped
  <2>3. /\ job' \in [Conn -> {"none", "running", "completed", "failed"}]
        /\ failures' \in 0..MaxFailures
    BY <1>1 DEF JobPulls, RepoTyped
  <2> QED
    BY <1>1, <2>2, <2>3 DEF JobPulls, RepoTyped
<1>2. ASSUME NEW c \in Conn, JobFails(c) PROVE RepoTyped'
  <2>1. ASSUME NEW d \in Conn PROVE [repo[d] EXCEPT !.sync = "errored"] \in RepoRow
    <3>1. repo[d] \in RepoRow
      BY DEF RepoTyped
    <3> QED
      BY <3>1 DEF RepoRow, Sync
  <2>2. AuthRequired \in [Conn -> RepoRow]
    BY <2>1 DEF AuthRequired, RepoTyped
  <2>3. repo' \in [Conn -> RepoRow]
    BY <1>2, <2>2 DEF JobFails, RepoTyped
  <2>4. job' \in [Conn -> {"none", "running", "completed", "failed"}] /\ failures' \in 0..MaxFailures
    BY <1>2 DEF JobFails, RepoTyped
  <2> QED
    BY <1>2, <2>3, <2>4 DEF JobFails, RepoTyped
<1> QED
  BY <1>1, <1>2 DEF RunsJob

LEMMA CrashTyped == ASSUME RepoTyped, Crash PROVE RepoTyped'
<1>1. req' \in [Req -> Request] /\ cycle' \in Cycle
  BY FixedTyped, NoCycleTyped, RepoSyncConstants DEF Crash, RepoTyped
<1>2. failures' \in 0..MaxFailures
  BY RepoSyncConstants DEF Crash, RepoTyped
<1> QED
  BY <1>1, <1>2 DEF Crash, RepoTyped, github, gbrain, rows

LEMMA NextRepoTyped == ASSUME RepoTyped, [RepoNext]_repoVars PROVE RepoTyped'
<1>1. CASE UNCHANGED repoVars
  BY <1>1 DEF RepoTyped, repoVars, github, gbrain, rows
<1> QED
  BY <1>1, GitHubTyped, AsksTyped, RegistrationTyped, RouteTyped, CycleStartTyped,
     RunsCycleTyped, RunsJobTyped, CrashTyped
  DEF RepoNext, Serves

LEMMA InitRepoTyped == ASSUME RepoInit PROVE RepoTyped
<1> USE RepoSyncConstants
<1>1. PICK old \in {{}, {1}} :
       /\ repo = [c \in Conn |-> IF c \in old THEN Old ELSE NoRepo]
       /\ source = [c \in Conn |-> [there |-> c \in old, token |-> repo[c].token,
                                    commit |-> repo[c].indexed, healthy |-> TRUE]]
       /\ conn = [c \in Conn |-> [status |-> IF c \in old THEN "active" ELSE "none",
                                  deleted |-> FALSE]]
  BY DEF RepoInit
<1>0. head \in 1..MaxCommit
  BY DEF RepoInit
<1>2. Old \in RepoRow
  BY <1>0 DEF Old, RepoRow, Sync, Token, CommitNumber
<1>3. repo \in [Conn -> RepoRow]
  BY <1>1, <1>2, FixedTyped
<1>4. source \in [Conn -> Source]
  BY <1>1, <1>3 DEF Source, RepoRow
<1>5. conn \in [Conn -> Connection]
  BY <1>1 DEF Connection
<1>6. head \in 1..MaxCommit /\ installed \in BOOLEAN /\ events \subseteq CommitNumber /\ kicks \in Nat
  BY DEF RepoInit
<1>7. cycle \in Cycle
  BY NoCycleTyped DEF RepoInit
<1>8. req \in [Req -> Request]
  BY FixedTyped DEF RepoInit
<1> QED
  BY <1>3, <1>4, <1>5, <1>6, <1>7, <1>8 DEF RepoInit, RepoTyped

-----------------------------------------------------------------------------
\* Repositories: the rows, and what requests and the cycle rely on.

RowInv(c) ==
  /\ repo[c].registered => repo[c].exists
  /\ conn[c].status = "none" => ~repo[c].exists

\* Who is about to insert a row is the only one, and there is none yet; who
\* registers has one.
RequestInv(r) ==
  LET c == req[r].conn IN
  /\ req[r].pc = "insert" => conn[c].status # "none" /\ ~repo[c].exists
  /\ req[r].pc \in {"token", "source", "record"} => repo[c].exists

InsertsDiffer ==
  \A r, s \in Req : req[r].pc = "insert" /\ req[s].pc = "insert" /\ req[r].conn = req[s].conn
                      => r = s

\* The cycle is at a registered row, and commits the status of registered ones.
CycleInv ==
  /\ cycle.pc \in {"mark", "submit", "poll", "fresh", "degraded"} => repo[cycle.on].registered
  /\ \A c \in cycle.done : repo[c].registered

RepoInv ==
  /\ OneRepositoryRow /\ ActiveIsRegistered /\ NothingIsAhead
  /\ \A c \in Conn : RowInv(c)
  /\ \A r \in Req : RequestInv(r)
  /\ InsertsDiffer /\ CycleInv

\* What nearly every step keeps: it neither begins an insert nor makes one.
RowsKept ==
  \A c \in Conn : /\ repo'[c].exists = repo[c].exists
                  /\ repo[c].registered => repo'[c].registered
                  /\ repo'[c].registered => repo[c].exists
                  /\ repo'[c].headSha <= head' /\ repo'[c].indexed <= head'
StatusKept ==
  \A c \in Conn : /\ conn'[c].status = "none" => conn[c].status = "none"
                  /\ conn'[c].status = "active" => repo[c].registered
RequestsKept ==
  \A r \in Req : /\ req'[r].pc = "insert" => req[r].pc = "insert" /\ req'[r].conn = req[r].conn
                 /\ req'[r].pc \in {"token", "source", "record"} => repo[req'[r].conn].exists
CycleKept ==
  /\ cycle'.pc \in {"mark", "submit", "poll", "fresh", "degraded"} => repo[cycle'.on].registered
  /\ \A c \in cycle'.done : repo[c].registered
  /\ cycle'.saw <= head'
OutsideKept ==
  /\ \A c \in Conn : source'[c].commit <= head'
  /\ \A e \in events' : e <= head'

LEMMA KeptIsInv ==
  ASSUME RepoInv, RepoTyped, RepoTyped',
         RowsKept, StatusKept, RequestsKept, CycleKept, OutsideKept
  PROVE  RepoInv'
<1>1. /\ cycle'.on \in Conn /\ cycle'.done \subseteq Conn
      /\ \A r \in Req : req[r].conn \in Conn /\ req'[r].conn \in Conn
  BY DEF RepoTyped, Cycle, Request
<1>2. OneRepositoryRow'
  BY DEF RowsKept, RepoInv, OneRepositoryRow, Known
<1>3. ActiveIsRegistered'
  BY DEF RowsKept, StatusKept, ActiveIsRegistered
<1>4. NothingIsAhead'
  BY DEF RowsKept, CycleKept, OutsideKept, NothingIsAhead
<1>5. \A c \in Conn : RowInv(c)'
  BY DEF RowsKept, StatusKept, RepoInv, RowInv
<1>6. \A r \in Req : RequestInv(r)'
  BY <1>1 DEF RowsKept, StatusKept, RequestsKept, RepoInv, RequestInv
<1>7. InsertsDiffer'
  BY DEF RequestsKept, RepoInv, InsertsDiffer
<1>8. CycleInv'
  BY <1>1 DEF RowsKept, CycleKept, CycleInv
<1> QED
  BY <1>2, <1>3, <1>4, <1>5, <1>6, <1>7, <1>8 DEF RepoInv

\* What is not changed is kept.
LEMMA SameIsKept ==
  ASSUME RepoInv, RepoTyped
  PROVE  /\ UNCHANGED <<repo, head>> => RowsKept
         /\ UNCHANGED conn => StatusKept
         /\ UNCHANGED req => RequestsKept
         /\ UNCHANGED <<cycle, head>> => CycleKept
         /\ UNCHANGED <<source, events, head>> => OutsideKept
<1>1. UNCHANGED <<repo, head>> => RowsKept
  BY DEF RowsKept, RepoInv, RowInv, NothingIsAhead
<1>2. UNCHANGED conn => StatusKept
  BY DEF StatusKept, RepoInv, ActiveIsRegistered
<1>3. UNCHANGED req => RequestsKept
  BY DEF RequestsKept, RepoInv, RequestInv
<1>4. UNCHANGED <<cycle, head>> => CycleKept
  BY DEF CycleKept, RepoInv, CycleInv, NothingIsAhead
<1>5. UNCHANGED <<source, events, head>> => OutsideKept
  BY DEF OutsideKept, RepoInv, NothingIsAhead
<1> QED
  BY <1>1, <1>2, <1>3, <1>4, <1>5

\* The updates that the statements share.
LEMMA SetSyncKeeps ==
  ASSUME RepoInv, RepoTyped, NEW c \in Conn, NEW status \in Sync, SetSync(c, status), head' = head
  PROVE  RowsKept
<1>1. repo[c] \in RepoRow
  BY DEF RepoTyped
<1>2. ASSUME NEW d \in Conn
      PROVE  /\ repo'[d].exists = repo[d].exists /\ repo'[d].registered = repo[d].registered
             /\ repo'[d].headSha = repo[d].headSha /\ repo'[d].indexed = repo[d].indexed
  BY <1>1 DEF SetSync, RepoTyped, RepoRow
<1> QED
  BY <1>2 DEF RowsKept, RepoInv, RowInv, NothingIsAhead

LEMMA AuthRequiredKeeps ==
  ASSUME RepoInv, RepoTyped, repo' = AuthRequired, head' = head
  PROVE  RowsKept
<1>1. ASSUME NEW d \in Conn
      PROVE  /\ repo'[d].exists = repo[d].exists /\ repo'[d].registered = repo[d].registered
             /\ repo'[d].headSha = repo[d].headSha /\ repo'[d].indexed = repo[d].indexed
  <2>1. repo[d] \in RepoRow
    BY DEF RepoTyped
  <2> QED
    BY <2>1 DEF AuthRequired, RepoRow
<1> QED
  BY <1>1 DEF RowsKept, RepoInv, RowInv, NothingIsAhead

LEMMA SetStatusKeeps ==
  ASSUME RepoInv, RepoTyped, NEW c \in Conn,
         NEW status \in {"pending_import", "active", "errored"},
         status = "active" => repo[c].registered, SetStatus(c, status)
  PROVE  StatusKept
BY DEF SetStatus, StatusKept, RepoInv, ActiveIsRegistered, RepoTyped, Connection

LEMMA GoesKeeps ==
  ASSUME RepoInv, RepoTyped, NEW r \in Req, NEW label, label # "insert", Goes(r, label),
         label \in {"token", "source", "record"} => repo[req[r].conn].exists
  PROVE  RequestsKept
BY DEF Goes, RequestsKept, RepoInv, RequestInv, RepoTyped, Request

LEMMA EndsKeeps ==
  ASSUME RepoInv, RepoTyped, NEW r \in Req, Ends(r)
  PROVE  RequestsKept
BY DEF Ends, Over, NoRequest, RequestsKept, RepoInv, RequestInv, RepoTyped

LEMMA CycleGoesKeeps ==
  ASSUME RepoInv, RepoTyped, NEW label, CycleGoes(label), head' = head,
         label \in {"mark", "submit", "poll", "fresh", "degraded"} => repo[cycle.on].registered
  PROVE  CycleKept
BY DEF CycleGoes, CycleKept, RepoInv, CycleInv, NothingIsAhead, RepoTyped, Cycle

LEMMA GitHubKeepsInv ==
  ASSUME RepoInv, RepoTyped, RepoTyped', Push \/ Uninstall \/ Webhook \/ LoseEvent PROVE RepoInv'
<1> USE RepoSyncConstants DEF github, gbrain, rows
<1>i. NothingIsAhead /\ (\A c \in Conn : repo[c] \in RepoRow) /\ head \in Nat
      /\ (\A c \in Conn : RowInv(c))
  BY DEF RepoInv, RepoTyped
<1>1. CASE Push
  <2>1. head' = head + 1 /\ events' = events \cup {head'} /\ UNCHANGED <<source, repo, conn, req, cycle>>
    BY <1>1 DEF Push
  <2>2. RowsKept
    BY <1>i, <2>1 DEF RowsKept, RowInv, NothingIsAhead, RepoRow, CommitNumber
  <2>3. CycleKept
    <3>1. cycle.saw <= head /\ cycle.saw \in Nat
      BY DEF RepoTyped, RepoInv, NothingIsAhead, Cycle, CommitNumber
    <3>2. cycle'.saw <= head'
      BY <1>i, <2>1, <3>1
    <3> QED
      BY <2>1, <3>2 DEF CycleKept, RepoInv, CycleInv
  <2>4. OutsideKept
    <3>1. \A c \in Conn : source[c].commit \in Nat
      BY DEF RepoTyped, Source, CommitNumber
    <3>2. \A e \in events : e \in Nat
      BY DEF RepoTyped, CommitNumber
    <3> QED
      BY <1>i, <2>1, <3>1, <3>2 DEF OutsideKept, NothingIsAhead
  <2> QED
    BY <2>1, <2>2, <2>3, <2>4, SameIsKept, KeptIsInv
<1>2. CASE Uninstall
  <2>1. events' = events \cup {0} /\ UNCHANGED <<head, source, repo, conn, req, cycle>>
    BY <1>2 DEF Uninstall
  <2>2. OutsideKept
    BY <1>i, <2>1 DEF OutsideKept, NothingIsAhead
  <2> QED
    BY <2>1, <2>2, SameIsKept, KeptIsInv
<1>3. ASSUME NEW commit \in CommitNumber, HandlePush(commit) PROVE RepoInv'
  <2>1. /\ commit \in events /\ events' \subseteq events
        /\ UNCHANGED <<head, source, conn, req, cycle>>
        /\ repo' = [c \in Conn |-> IF c \in Known
                THEN [repo[c] EXCEPT !.headSha = commit, !.sync = "behind"] ELSE repo[c]]
    BY <1>3 DEF HandlePush
  <2>2. ASSUME NEW c \in Conn
        PROVE  /\ repo'[c].exists = repo[c].exists /\ repo'[c].registered = repo[c].registered
               /\ repo'[c].headSha \in {commit, repo[c].headSha}
               /\ repo'[c].indexed = repo[c].indexed
    BY <1>i, <2>1 DEF RepoRow
  <2>3. RowsKept
    BY <1>i, <2>1, <2>2 DEF RowsKept, RowInv, NothingIsAhead
  <2>4. OutsideKept
    BY <1>i, <2>1 DEF OutsideKept, NothingIsAhead
  <2> QED
    BY <2>1, <2>3, <2>4, SameIsKept, KeptIsInv
<1>4. CASE HandleUninstall
  <2>1. /\ events' \subseteq events /\ UNCHANGED <<head, source, conn, req, cycle>>
        /\ repo' = AuthRequired
    BY <1>4 DEF HandleUninstall
  <2>2. RowsKept
    BY <2>1, AuthRequiredKeeps
  <2>3. OutsideKept
    BY <1>i, <2>1 DEF OutsideKept, NothingIsAhead
  <2> QED
    BY <2>1, <2>2, <2>3, SameIsKept, KeptIsInv
<1>5. CASE LoseEvent
  <2>1. events' \subseteq events /\ UNCHANGED <<head, source, repo, conn, req, cycle>>
    BY <1>5 DEF LoseEvent
  <2>2. OutsideKept
    BY <1>i, <2>1 DEF OutsideKept, NothingIsAhead
  <2> QED
    BY <2>1, <2>2, SameIsKept, KeptIsInv
<1> QED
  BY <1>1, <1>2, <1>3, <1>4, <1>5 DEF Webhook

\* The two steps that KeptIsInv does not cover: an insert begins, and is made.
LEMMA AddKeepsInv ==
  ASSUME RepoInv, RepoTyped, RepoTyped', NEW r \in Req, Add(r) PROVE RepoInv'
<1> USE DEF github, gbrain, rows
<1>1. PICK c \in Conn :
        /\ \A k \in Conn : conn[k].status = "none" <=> k >= c
        /\ SetStatus(c, "pending_import")
        /\ req' = [req EXCEPT ![r] = [op |-> "add", conn |-> c, pc |-> "insert"]]
  BY DEF Add
<1>2. UNCHANGED <<head, events, source, repo, cycle>>
  BY DEF Add
<1>3. conn[c].status = "none" /\ ~repo[c].exists
  BY <1>1 DEF RepoInv, RowInv, Conn
<1>4. /\ conn'[c].status = "pending_import"
      /\ \A d \in Conn \ {c} : conn'[d] = conn[d]
  BY <1>1 DEF SetStatus, RepoTyped, Connection
<1>5. /\ req'[r].pc = "insert" /\ req'[r].conn = c
      /\ \A s \in Req \ {r} : req'[s] = req[s]
  BY <1>1 DEF RepoTyped
<1>6. \A s \in Req : req[s].pc = "insert" => req[s].conn # c
  BY <1>3 DEF RepoInv, RequestInv
<1>7. OneRepositoryRow' /\ NothingIsAhead' /\ CycleInv'
  BY <1>2 DEF RepoInv, OneRepositoryRow, Known, NothingIsAhead, CycleInv
<1>8. ActiveIsRegistered'
  BY <1>2, <1>4 DEF RepoInv, ActiveIsRegistered
<1>9. \A d \in Conn : RowInv(d)'
  BY <1>2, <1>4 DEF RepoInv, RowInv
<1>10. ASSUME NEW s \in Req PROVE RequestInv(s)'
  <2>1. CASE s = r
    BY <1>2, <1>3, <1>4, <1>5, <2>1 DEF RequestInv
  <2>2. CASE s # r
    <3>1. req'[s] = req[s] /\ req[s].conn \in Conn
      BY <1>5, <2>2 DEF RepoTyped, Request
    <3> QED
      BY <1>2, <1>4, <1>6, <3>1 DEF RequestInv, RepoInv
  <2> QED
    BY <2>1, <2>2
<1>11. InsertsDiffer'
  BY <1>5, <1>6 DEF RepoInv, InsertsDiffer
<1> QED
  BY <1>7, <1>8, <1>9, <1>10, <1>11 DEF RepoInv

LEMMA InsertKeepsInv ==
  ASSUME RepoInv, RepoTyped, RepoTyped', NEW r \in Req, InsertRepo(r) PROVE RepoInv'
<1> DEFINE c == req[r].conn
<1> USE DEF github, gbrain, rows
<1>c. c \in Conn
  BY DEF RepoTyped, Request
<1>1. CASE Ends(r) /\ UNCHANGED repo
  <2>1. UNCHANGED <<head, events, source, repo, conn, cycle>>
    BY <1>1 DEF InsertRepo
  <2> QED
    BY <1>1, <2>1, EndsKeeps, SameIsKept, KeptIsInv
<1>2. CASE /\ ~RepoTaken(c) /\ Goes(r, "source")
           /\ repo' = [repo EXCEPT ![c] = [NoRepo EXCEPT !.exists = TRUE,
                                          !.token = IF RepoPrivate THEN r ELSE NoToken]]
  <2>1. UNCHANGED <<head, events, source, conn, cycle>>
    BY DEF InsertRepo
  <2>2. req[r].pc = "insert" /\ conn[c].status # "none" /\ ~repo[c].exists
    BY DEF InsertRepo, At, RepoInv, RequestInv
  <2>3. /\ repo'[c].exists /\ ~repo'[c].registered
        /\ repo'[c].headSha = 0 /\ repo'[c].indexed = 0
        /\ \A d \in Conn \ {c} : repo'[d] = repo[d]
    BY <1>c, <1>2 DEF RepoTyped, NoRepo
  <2>4. /\ req'[r].pc = "source" /\ req'[r].conn = c
        /\ \A s \in Req \ {r} : req'[s] = req[s]
    BY <1>2 DEF Goes, RepoTyped, Request
  <2>5. ~repo[c].registered /\ conn[c].status # "active"
    BY <1>c, <2>2 DEF RepoInv, RowInv, ActiveIsRegistered
  <2>6. OneRepositoryRow'
    BY <1>2, <2>3 DEF RepoTaken, Known, OneRepositoryRow
  <2>7. ActiveIsRegistered'
    BY <2>1, <2>3, <2>5 DEF RepoInv, ActiveIsRegistered
  <2>8. NothingIsAhead'
    BY <2>1, <2>3, <1>c DEF RepoInv, NothingIsAhead, RepoTyped
  <2>9. \A d \in Conn : RowInv(d)'
    BY <2>1, <2>2, <2>3 DEF RepoInv, RowInv
  <2>10. ASSUME NEW s \in Req PROVE RequestInv(s)'
    <3>1. CASE s = r
      BY <2>3, <2>4, <3>1 DEF RequestInv
    <3>2. CASE s # r
      <4>1. req'[s] = req[s] /\ req[s].conn \in Conn
        BY <2>4, <3>2 DEF RepoTyped, Request
      <4>2. req[s].pc = "insert" => req[s].conn # c
        BY <2>2, <3>2 DEF RepoInv, InsertsDiffer
      <4> QED
        BY <2>1, <2>3, <4>1, <4>2 DEF RepoInv, RequestInv
    <3> QED
      BY <3>1, <3>2
  <2>11. InsertsDiffer'
    BY <2>4 DEF RepoInv, InsertsDiffer
  <2>12. CycleInv'
    BY <2>1, <2>3, <2>5 DEF RepoInv, CycleInv, RepoTyped, Cycle
  <2> QED
    BY <2>6, <2>7, <2>8, <2>9, <2>10, <2>11, <2>12 DEF RepoInv
<1> QED
  BY <1>1, <1>2 DEF InsertRepo

LEMMA AsksKeepsInv ==
  ASSUME RepoInv, RepoTyped, RepoTyped', NEW r \in Req, Asks(r) PROVE RepoInv'
<1> USE DEF github, gbrain, rows
<1>1. CASE Manage(r)
  <2>1. PICK c \in Known, op \in {"sync", "patch", "repair", "retry"} :
          req' = [req EXCEPT ![r] = [op |-> op, conn |-> c, pc |-> FirstStep(op, c)]]
    BY <1>1 DEF Manage
  <2>2. FirstStep(op, c) # "insert" /\ repo[c].exists
    BY <2>1 DEF FirstStep, Known
  <2>3. /\ req'[r].pc # "insert" /\ repo[req'[r].conn].exists
        /\ \A s \in Req \ {r} : req'[s] = req[s]
    BY <2>1, <2>2 DEF RepoTyped
  <2>4. RequestsKept
    BY <2>3 DEF RequestsKept, RepoInv, RequestInv
  <2>5. UNCHANGED <<head, events, source, repo, conn, cycle>>
    BY <1>1 DEF Manage
  <2> QED
    BY <2>4, <2>5, SameIsKept, KeptIsInv
<1>2. CASE Disconnect(r)
  <2>1. /\ req'[r].pc \in {"remove", "forget"} /\ \A s \in Req \ {r} : req'[s] = req[s]
    BY <1>2 DEF Disconnect, RepoTyped
  <2>2. RequestsKept
    BY <2>1 DEF RequestsKept, RepoInv, RequestInv
  <2>3. UNCHANGED <<head, events, source, repo, conn, cycle>>
    BY <1>2 DEF Disconnect
  <2> QED
    BY <2>2, <2>3, SameIsKept, KeptIsInv
<1> QED
  BY <1>1, <1>2, AddKeepsInv DEF Asks

LEMMA RegistrationKeepsInv ==
  ASSUME RepoInv, RepoTyped, RepoTyped', NEW r \in Req,
         RenewToken(r) \/ SourcesAdd(r) \/ RecordRegistration(r) \/ MarkRegistrationError(r)
  PROVE  RepoInv'
<1> DEFINE c == req[r].conn
<1> USE DEF github, gbrain, rows
<1>c. c \in Conn /\ RowInv(c) /\ RequestInv(r) /\ repo[c] \in RepoRow
  BY DEF RepoTyped, Request, RepoInv
<1>1. CASE RenewToken(r)
  <2>1. /\ repo[c].exists /\ Goes(r, "source") /\ repo' = [repo EXCEPT ![c].token = r]
        /\ UNCHANGED <<head, events, source, conn, cycle>>
    BY <1>1, <1>c DEF RenewToken, At, RequestInv
  <2>2. ASSUME NEW d \in Conn
        PROVE  /\ repo'[d].exists = repo[d].exists /\ repo'[d].registered = repo[d].registered
               /\ repo'[d].headSha = repo[d].headSha /\ repo'[d].indexed = repo[d].indexed
    BY <1>c, <2>1 DEF RepoTyped, RepoRow
  <2>3. RowsKept
    BY <2>1, <2>2 DEF RowsKept, RepoInv, RowInv, NothingIsAhead
  <2> QED
    BY <2>1, <2>3, GoesKeeps, SameIsKept, KeptIsInv
<1>2. CASE SourcesAdd(r)
  <2>1. /\ repo[c].exists /\ (Goes(r, "record") \/ Goes(r, "fail"))
        /\ source' \in {source, [source EXCEPT ![c].there = TRUE,
                                   ![c].token = IF RepoPrivate THEN r ELSE NoToken]}
        /\ UNCHANGED <<head, events, repo, conn, cycle>>
    BY <1>2, <1>c DEF SourcesAdd, At, RequestInv
  <2>2. \A d \in Conn : source'[d].commit = source[d].commit
    BY <1>c, <2>1 DEF RepoTyped, Source
  <2>3. OutsideKept
    BY <2>1, <2>2 DEF OutsideKept, RepoInv, NothingIsAhead
  <2>4. RequestsKept
    BY <2>1, GoesKeeps
  <2> QED
    BY <2>1, <2>3, <2>4, SameIsKept, KeptIsInv
<1>3. CASE RecordRegistration(r)
  <2>1. /\ repo[c].exists /\ (Goes(r, "syncing") \/ Ends(r))
        /\ repo' = [repo EXCEPT ![c].registered = TRUE, ![c].sync = "syncing"]
        /\ UNCHANGED <<head, events, source, conn, cycle>>
    BY <1>3, <1>c DEF RecordRegistration, At, RequestInv
  <2>2. ASSUME NEW d \in Conn
        PROVE  /\ repo'[d].exists = repo[d].exists
               /\ repo'[d].registered <=> d = c \/ repo[d].registered
               /\ repo'[d].headSha = repo[d].headSha /\ repo'[d].indexed = repo[d].indexed
    <3>1. CASE d = c
      BY <1>c, <2>1, <3>1 DEF RepoTyped, RepoRow
    <3>2. CASE d # c
      BY <2>1, <3>2 DEF RepoTyped
    <3> QED
      BY <3>1, <3>2
  <2>3. RowsKept
    BY <2>1, <2>2 DEF RowsKept, RepoInv, RowInv, NothingIsAhead
  <2>4. RequestsKept
    BY <2>1, GoesKeeps, EndsKeeps
  <2> QED
    BY <2>1, <2>3, <2>4, SameIsKept, KeptIsInv
<1>4. CASE At(r, "fail") /\ MarkRegistrationError(r)
  <2>1. /\ SetSync(c, "errored") /\ Goes(r, "failConn")
        /\ UNCHANGED <<head, events, source, conn, cycle>>
    BY <1>4 DEF MarkRegistrationError, At
  <2>2. RowsKept
    BY <1>c, <2>1, SetSyncKeeps DEF Sync
  <2> QED
    BY <2>1, <2>2, GoesKeeps, SameIsKept, KeptIsInv
<1>5. CASE At(r, "failConn") /\ MarkRegistrationError(r)
  <2>1. /\ SetStatus(c, "errored") /\ Ends(r)
        /\ UNCHANGED <<head, events, source, repo, cycle>>
    BY <1>5 DEF MarkRegistrationError, At
  <2>2. StatusKept
    BY <1>c, <2>1, SetStatusKeeps
  <2> QED
    BY <2>1, <2>2, EndsKeeps, SameIsKept, KeptIsInv
<1> QED
  BY <1>1, <1>2, <1>3, <1>4, <1>5 DEF MarkRegistrationError

LEMMA RouteKeepsInv ==
  ASSUME RepoInv, RepoTyped, RepoTyped', NEW r \in Req,
         SetPending(r) \/ SetSyncing(r) \/ SetBehind(r)
           \/ SourcesRemove(r) \/ ForgetToken(r) \/ SetDisconnected(r)
  PROVE  RepoInv'
<1> DEFINE c == req[r].conn
<1> USE DEF github, gbrain, rows
<1>c. c \in Conn /\ repo[c] \in RepoRow /\ head \in Nat
  BY RepoSyncConstants DEF RepoTyped, Request
<1>1. CASE SetPending(r)
  <2>1. /\ SetStatus(c, "pending_import") /\ (Goes(r, "syncing") \/ Ends(r))
        /\ UNCHANGED <<head, events, source, repo, cycle>>
    BY <1>1 DEF SetPending, EndsWithKick
  <2>2. StatusKept /\ RequestsKept
    BY <1>c, <2>1, SetStatusKeeps, GoesKeeps, EndsKeeps
  <2> QED
    BY <2>1, <2>2, SameIsKept, KeptIsInv
<1>2. CASE SetSyncing(r)
  <2>1. /\ SetSync(c, "syncing") /\ Ends(r) /\ UNCHANGED <<head, events, source, conn, cycle>>
    BY <1>2 DEF SetSyncing, EndsWithKick
  <2>2. RowsKept
    BY <1>c, <2>1, SetSyncKeeps DEF Sync
  <2> QED
    BY <2>1, <2>2, EndsKeeps, SameIsKept, KeptIsInv
<1>3. CASE SetBehind(r)
  <2>1. /\ SetSync(c, "behind") /\ (Goes(r, "pending") \/ Ends(r))
        /\ UNCHANGED <<head, events, source, conn, cycle>>
    BY <1>3 DEF SetBehind, EndsWithKick
  <2>2. RowsKept
    BY <1>c, <2>1, SetSyncKeeps DEF Sync
  <2>3. RequestsKept
    BY <2>1, GoesKeeps, EndsKeeps
  <2> QED
    BY <2>1, <2>2, <2>3, SameIsKept, KeptIsInv
<1>4. CASE SourcesRemove(r)
  <2>1. /\ source' \in {source, [source EXCEPT ![c] = NoSource]} /\ (Goes(r, "forget") \/ Ends(r))
        /\ UNCHANGED <<head, events, repo, conn, cycle>>
    BY <1>4 DEF SourcesRemove
  <2>2. \A d \in Conn : source'[d].commit \in {0, source[d].commit}
    BY <2>1 DEF RepoTyped, NoSource
  <2>3. OutsideKept
    BY <1>c, <2>1, <2>2 DEF OutsideKept, RepoInv, NothingIsAhead
  <2>4. RequestsKept
    BY <2>1, GoesKeeps, EndsKeeps
  <2> QED
    BY <2>1, <2>3, <2>4, SameIsKept, KeptIsInv
<1>5. CASE ForgetToken(r)
  <2>1. /\ repo' = IF repo[c].exists
                   THEN [repo EXCEPT ![c].token = NoToken, ![c].sync = "fresh"] ELSE repo
        /\ Goes(r, "disconnect") /\ UNCHANGED <<head, events, source, conn, cycle>>
    BY <1>5 DEF ForgetToken
  <2>2. ASSUME NEW d \in Conn
        PROVE  /\ repo'[d].exists = repo[d].exists /\ repo'[d].registered = repo[d].registered
               /\ repo'[d].headSha = repo[d].headSha /\ repo'[d].indexed = repo[d].indexed
    BY <1>c, <2>1 DEF RepoTyped, RepoRow
  <2>3. RowsKept
    BY <2>1, <2>2 DEF RowsKept, RepoInv, RowInv, NothingIsAhead
  <2> QED
    BY <2>1, <2>3, GoesKeeps, SameIsKept, KeptIsInv
<1>6. CASE SetDisconnected(r)
  <2>1. /\ conn' = [conn EXCEPT ![c] = [status |-> "disconnected", deleted |-> TRUE]]
        /\ Ends(r) /\ UNCHANGED <<head, events, source, repo, cycle>>
    BY <1>6 DEF SetDisconnected
  <2>2. StatusKept
    BY <1>c, <2>1 DEF StatusKept, RepoInv, ActiveIsRegistered, RepoTyped
  <2> QED
    BY <2>1, <2>2, EndsKeeps, SameIsKept, KeptIsInv
<1> QED
  BY <1>1, <1>2, <1>3, <1>4, <1>5, <1>6

LEMMA CycleKeepsInv ==
  ASSUME RepoInv, RepoTyped, RepoTyped', SchedulerTick \/ Kick \/ RunsCycle PROVE RepoInv'
<1> USE DEF github, gbrain, rows
<1>c. /\ cycle \in Cycle /\ cycle.on \in Conn /\ repo[cycle.on] \in RepoRow /\ head \in Nat
      /\ cycle.saw <= head /\ CycleInv
  BY RepoSyncConstants DEF RepoTyped, Cycle, RepoInv, NothingIsAhead
<1>1. CASE SchedulerTick \/ Kick
  <2>1. UNCHANGED <<head, events, source, repo, conn, req>> /\ (Starts \/ UNCHANGED cycle)
    BY <1>1 DEF SchedulerTick, Kick
  <2>2. CycleKept
    BY <1>c, <2>1, SameIsKept DEF Starts, NoCycle, CycleKept
  <2> QED
    BY <2>1, <2>2, SameIsKept, KeptIsInv
<1>2. CASE Select \/ LoadRepo
  <2>1. UNCHANGED <<head, events, source, repo, conn, req>>
    BY <1>2 DEF Select, LoadRepo
  <2>2. ASSUME Select PROVE CycleKept
    <3>1. cycle'.pc = "next" /\ cycle'.done = cycle.done /\ cycle'.saw = cycle.saw
      BY <1>c, <2>2 DEF Select, Cycle
    <3> QED
      BY <1>c, <2>1, <3>1 DEF CycleKept, CycleInv
  <2>3. ASSUME NEW c \in cycle.todo,
               cycle' = [cycle EXCEPT !.todo = @ \ {c}, !.on = c,
                           !.pc = IF repo[c].registered THEN "mark" ELSE "fail"]
        PROVE  CycleKept
    BY <1>c, <2>1, <2>3 DEF CycleKept, CycleInv, Cycle
  <2>4. ASSUME LoadRepo PROVE CycleKept
    <3>1. ~("commit" \in {"mark", "submit", "poll", "fresh", "degraded"})
      OBVIOUS
    <3>2. CASE CycleGoes("commit")
      BY <2>1, <3>1, <3>2, CycleGoesKeeps
    <3> QED
      BY <2>3, <2>4, <3>2 DEF LoadRepo
  <2> QED
    BY <1>2, <2>1, <2>2, <2>4, SameIsKept, KeptIsInv
<1>3. CASE MarkSyncing
  <2>1. /\ SetSync(cycle.on, "syncing") /\ CycleGoes("submit") /\ cycle.pc = "mark"
        /\ UNCHANGED <<head, events, source, conn, req>>
    BY <1>3 DEF MarkSyncing, CycleAt
  <2>2. RowsKept
    BY <1>c, <2>1, SetSyncKeeps DEF Sync
  <2>3. CycleKept
    BY <1>c, <2>1, CycleGoesKeeps DEF CycleInv
  <2> QED
    BY <2>1, <2>2, <2>3, SameIsKept, KeptIsInv
<1>4. CASE SubmitSync
  <2>1. /\ (CycleGoes("poll") \/ CycleGoes("fail")) /\ cycle.pc = "submit"
        /\ UNCHANGED <<head, events, source, repo, conn, req>>
    BY <1>4 DEF SubmitSync, CycleAt
  <2>2. CycleKept
    BY <1>c, <2>1, CycleGoesKeeps DEF CycleInv
  <2> QED
    BY <2>1, <2>2, SameIsKept, KeptIsInv
<1>5. CASE Poll
  <2>1. /\ \/ \E label \in {"fresh", "degraded"} :
                cycle' = [cycle EXCEPT !.saw = source[cycle.on].commit, !.pc = label]
           \/ CycleGoes("fail")
        /\ cycle.pc = "poll" /\ UNCHANGED <<head, events, source, repo, conn, req>>
    BY <1>5 DEF Poll, CycleAt
  <2>2. CycleKept
    BY <1>c, <2>1, CycleGoesKeeps DEF CycleInv, CycleKept, RepoInv, NothingIsAhead, Cycle
  <2> QED
    BY <2>1, <2>2, SameIsKept, KeptIsInv
<1>6. CASE WriteFresh
  <2>1. /\ \E status : repo' = [repo EXCEPT ![cycle.on].indexed = cycle.saw,
                                   ![cycle.on].headSha = cycle.saw, ![cycle.on].sync = status]
        /\ cycle' = [cycle EXCEPT !.pc = "next", !.done = @ \cup {cycle.on}, !.on = 1, !.saw = 0]
        /\ cycle.pc \in {"fresh", "degraded"} /\ UNCHANGED <<head, events, source, conn, req>>
    BY <1>6 DEF WriteFresh, CycleAt
  <2>2. ASSUME NEW d \in Conn
        PROVE  /\ repo'[d].exists = repo[d].exists /\ repo'[d].registered = repo[d].registered
               /\ repo'[d].headSha \in {cycle.saw, repo[d].headSha}
               /\ repo'[d].indexed \in {cycle.saw, repo[d].indexed}
    <3>1. CASE d = cycle.on
      BY <1>c, <2>1, <3>1 DEF RepoTyped, RepoRow
    <3>2. CASE d # cycle.on
      BY <2>1, <3>2 DEF RepoTyped
    <3> QED
      BY <3>1, <3>2
  <2>3. RowsKept
    BY <1>c, <2>1, <2>2 DEF RowsKept, RepoInv, RowInv, NothingIsAhead
  <2>4. CycleKept
    BY <1>c, <2>1 DEF CycleKept, CycleInv, Cycle
  <2> QED
    BY <2>1, <2>3, <2>4, SameIsKept, KeptIsInv
<1>7. CASE CycleAt("fail") /\ SyncFails
  <2>1. /\ SetSync(cycle.on, "errored") /\ CycleGoes("failConn")
        /\ UNCHANGED <<head, events, source, conn, req>>
    BY <1>7 DEF SyncFails, CycleAt
  <2>2. RowsKept /\ CycleKept
    BY <1>c, <2>1, SetSyncKeeps, CycleGoesKeeps DEF Sync
  <2> QED
    BY <2>1, <2>2, SameIsKept, KeptIsInv
<1>8. CASE CycleAt("failConn") /\ SyncFails
  <2>1. /\ SetStatus(cycle.on, "errored") /\ cycle' = [cycle EXCEPT !.pc = "next", !.on = 1]
        /\ UNCHANGED <<head, events, source, repo, req>>
    BY <1>8 DEF SyncFails, CycleAt
  <2>2. StatusKept
    BY <1>c, <2>1, SetStatusKeeps
  <2>3. CycleKept
    BY <1>c, <2>1 DEF CycleKept, CycleInv, Cycle
  <2> QED
    BY <2>1, <2>2, <2>3, SameIsKept, KeptIsInv
<1>9. CASE CommitStatus
  <2>1. UNCHANGED <<head, events, source, repo, req>>
    BY <1>9 DEF CommitStatus
  <2>2. CASE cycle' = NoCycle /\ UNCHANGED conn
    <3>1. CycleKept
      BY <1>c, <2>1, <2>2 DEF CycleKept, NoCycle
    <3> QED
      BY <2>1, <2>2, <3>1, SameIsKept, KeptIsInv
  <2>3. ASSUME NEW c \in cycle.done, SetStatus(c, "active"),
               cycle' = [cycle EXCEPT !.done = @ \ {c}]
        PROVE  RepoInv'
    <3>1. c \in Conn /\ repo[c].registered
      BY <1>c DEF Cycle, CycleInv
    <3>2. StatusKept
      BY <2>3, <3>1, SetStatusKeeps
    <3>3. CycleKept
      BY <1>c, <2>1, <2>3 DEF CycleKept, CycleInv, Cycle
    <3> QED
      BY <2>1, <3>2, <3>3, SameIsKept, KeptIsInv
  <2> QED
    BY <1>9, <2>2, <2>3 DEF CommitStatus
<1> QED
  BY <1>1, <1>2, <1>3, <1>4, <1>5, <1>6, <1>7, <1>8, <1>9 DEF RunsCycle, SyncFails

LEMMA JobsKeepInv ==
  ASSUME RepoInv, RepoTyped, RepoTyped', RunsJob \/ Crash PROVE RepoInv'
<1> USE DEF github, gbrain, rows
<1>c. head \in Nat
  BY RepoSyncConstants DEF RepoTyped
<1>1. ASSUME NEW c \in Conn, JobPulls(c) PROVE RepoInv'
  <2>1. /\ \E commit \in {0, source[c].commit, head}, healthy \in BOOLEAN :
             source' = [source EXCEPT ![c].commit = commit, ![c].healthy = healthy]
        /\ UNCHANGED <<head, events, repo, conn, req, cycle>>
    BY <1>1 DEF JobPulls
  <2>2. \A d \in Conn : source'[d].commit \in {0, head, source[d].commit}
    BY <2>1 DEF RepoTyped, Source
  <2>3. OutsideKept
    <3>1. head' = head /\ events' = events
      BY <2>1
    <3>2. \A d \in Conn : source'[d].commit <= head
      BY <1>c, <2>2 DEF RepoInv, NothingIsAhead
    <3> QED
      BY <3>1, <3>2 DEF OutsideKept, RepoInv, NothingIsAhead
  <2> QED
    BY <2>1, <2>3, SameIsKept, KeptIsInv
<1>2. ASSUME NEW c \in Conn, JobFails(c) PROVE RepoInv'
  <2>1. repo' \in {repo, AuthRequired} /\ UNCHANGED <<head, events, source, conn, req, cycle>>
    BY <1>2 DEF JobFails
  <2>2. RowsKept
    BY <2>1, AuthRequiredKeeps, SameIsKept
  <2> QED
    BY <2>1, <2>2, SameIsKept, KeptIsInv
<1>3. CASE Crash
  <2>1. /\ req' = [r \in Req |-> IF At(r, "new") THEN NoRequest ELSE Over]
        /\ cycle' = NoCycle /\ UNCHANGED <<head, events, source, repo, conn>>
    BY <1>3 DEF Crash
  <2>2. \A r \in Req : req'[r].pc \in {"new", "over"}
    BY <2>1 DEF NoRequest, Over
  <2>3. RequestsKept /\ CycleKept
    BY <1>c, <2>1, <2>2 DEF RequestsKept, CycleKept, NoCycle
  <2> QED
    BY <2>1, <2>3, SameIsKept, KeptIsInv
<1> QED
  BY <1>1, <1>2, <1>3 DEF RunsJob

LEMMA NextRepoInv ==
  ASSUME RepoInv, RepoTyped, [RepoNext]_repoVars PROVE RepoInv'
<1>t. RepoTyped'
  BY NextRepoTyped
<1>1. CASE UNCHANGED repoVars
  <2>1. UNCHANGED <<head, events, source, repo, conn, req, cycle>>
    BY <1>1 DEF repoVars, github, gbrain, rows
  <2> QED
    BY <1>t, <2>1, SameIsKept, KeptIsInv
<1>2. CASE RepoNext
  BY <1>2, <1>t, GitHubKeepsInv, AsksKeepsInv, InsertKeepsInv, RegistrationKeepsInv, RouteKeepsInv,
     CycleKeepsInv, JobsKeepInv
  DEF RepoNext, Serves
<1> QED
  BY <1>1, <1>2

LEMMA InitRepoInv == ASSUME RepoInit PROVE RepoInv
<1>t. RepoTyped
  BY InitRepoTyped
<1>1. PICK old \in {{}, {1}} :
       /\ repo = [c \in Conn |-> IF c \in old THEN Old ELSE NoRepo]
       /\ source = [c \in Conn |-> [there |-> c \in old, token |-> repo[c].token,
                                    commit |-> repo[c].indexed, healthy |-> TRUE]]
       /\ conn = [c \in Conn |-> [status |-> IF c \in old THEN "active" ELSE "none",
                                  deleted |-> FALSE]]
  BY DEF RepoInit
<1>2. \A c \in Conn : /\ c \in old => repo[c] = Old /\ conn[c].status = "active"
                      /\ c \notin old => repo[c] = NoRepo /\ conn[c].status = "none"
                      /\ source[c].commit = repo[c].indexed
  BY <1>1
<1>3. \A r \in Req : req[r].pc \in {"new", "over"}
  BY DEF RepoInit, NoRequest, Over
<1>4. head \in 1..MaxCommit /\ events = {} /\ cycle = NoCycle
  BY DEF RepoInit
<1>5. OneRepositoryRow /\ ActiveIsRegistered
  BY <1>1, <1>2 DEF OneRepositoryRow, Known, NoRepo, ActiveIsRegistered, Old
<1>6. NothingIsAhead
  BY <1>2, <1>4 DEF NothingIsAhead, Old, NoRepo, NoCycle
<1>7. \A c \in Conn : RowInv(c)
  BY <1>2 DEF RowInv, Old, NoRepo
<1>8. (\A r \in Req : RequestInv(r)) /\ InsertsDiffer /\ CycleInv
  BY <1>3, <1>4 DEF RequestInv, InsertsDiffer, CycleInv, NoCycle
<1> QED
  BY <1>5, <1>6, <1>7, <1>8 DEF RepoInv

\* Each kick that is to come has a request that is under way, a webhook that is on its
\* way, or a push that is still to happen.
Open == {r \in Req : req[r].pc # "over"}
Pushes == events \ {0}

KicksAreOwed ==
  kicks + Cardinality(Open) + Cardinality(Pushes) + (MaxCommit - head)
    <= Cardinality(Req) + MaxCommit - 1

LEMMA OwedIsFinite ==
  ASSUME RepoTyped
  PROVE  /\ IsFiniteSet(Open) /\ IsFiniteSet(Pushes)
         /\ Cardinality(Open) \in Nat /\ Cardinality(Pushes) \in Nat
         /\ Cardinality(Open) <= Cardinality(Req) /\ Cardinality(Req) \in Nat
<1>1. IsFiniteSet(CommitNumber)
  BY RepoSyncConstants, FS_Interval DEF CommitNumber
<1>2. Pushes \subseteq CommitNumber /\ Open \subseteq Req
  BY DEF RepoTyped, Pushes, Open
<1> QED
  BY <1>1, <1>2, RepoSyncConstants, FS_Subset, FS_CardinalityType

LEMMA NothingOwedGrows ==
  ASSUME RepoTyped, RepoTyped', KicksAreOwed, kicks' <= kicks, head' = head,
         Open' \subseteq Open, events' \subseteq events \cup {0}
  PROVE  KicksAreOwed'
<1>1. Pushes' \subseteq Pushes
  BY DEF Pushes
<1>2. Cardinality(Open') <= Cardinality(Open) /\ Cardinality(Pushes') <= Cardinality(Pushes)
  BY <1>1, OwedIsFinite, FS_Subset
<1>3. Cardinality(Open') \in Nat /\ Cardinality(Pushes') \in Nat
  BY <1>1, OwedIsFinite, FS_Subset, FS_CardinalityType
<1>4. /\ Cardinality(Open)' = Cardinality(Open') /\ Cardinality(Pushes)' = Cardinality(Pushes')
      /\ kicks \in Nat /\ kicks' \in Nat /\ head \in Nat
  BY RepoSyncConstants DEF RepoTyped
<1> QED
  BY <1>2, <1>3, <1>4, OwedIsFinite, RepoSyncConstants DEF KicksAreOwed

LEMMA GoesIsOpen ==
  ASSUME RepoTyped, NEW r \in Req, NEW label, Goes(r, label), req[r].pc # "over"
  PROVE  Open' \subseteq Open
BY DEF Goes, Open, RepoTyped

LEMMA EndsIsOver ==
  ASSUME RepoTyped, NEW r \in Req, Ends(r)
  PROVE  Open' = Open \ {r}
<1>1. req'[r].pc = "over" /\ \A s \in Req \ {r} : req'[s] = req[s]
  BY DEF Ends, Over, NoRequest, RepoTyped
<1> QED
  BY <1>1 DEF Open

LEMMA EndsWithKickOwed ==
  ASSUME RepoTyped, RepoTyped', KicksAreOwed, NEW r \in Req, req[r].pc # "over", EndsWithKick(r),
         UNCHANGED <<head, events>>
  PROVE  KicksAreOwed'
<1>1. Open' = Open \ {r} /\ r \in Open /\ kicks' = kicks + 1 /\ Pushes' = Pushes
  BY EndsIsOver DEF EndsWithKick, Open, Pushes
<1>2. Cardinality(Open') = Cardinality(Open) - 1
  BY <1>1, OwedIsFinite, FS_RemoveElement
<1>3. /\ Cardinality(Open)' = Cardinality(Open') /\ Cardinality(Pushes)' = Cardinality(Pushes')
      /\ kicks \in Nat /\ head \in Nat
  BY RepoSyncConstants DEF RepoTyped
<1> QED
  BY <1>1, <1>2, <1>3, OwedIsFinite, RepoSyncConstants DEF KicksAreOwed

LEMMA PushOwed ==
  ASSUME RepoTyped, RepoTyped', KicksAreOwed, Push PROVE KicksAreOwed'
<1>1. /\ head' = head + 1 /\ events' = events \cup {head'} /\ UNCHANGED <<req, kicks>>
      /\ head \in Nat /\ kicks \in Nat
  BY RepoSyncConstants DEF Push, RepoTyped
<1>2. Pushes' = Pushes \cup {head'} /\ Open' = Open
  BY <1>1 DEF Pushes, Open
<1>3. /\ Cardinality(Pushes') <= Cardinality(Pushes) + 1 /\ Cardinality(Pushes') \in Nat
  <2>1. IsFiniteSet(Pushes')
    BY <1>2, OwedIsFinite, FS_AddElement
  <2> QED
    BY <1>2, <2>1, OwedIsFinite, FS_AddElement, FS_CardinalityType
<1>4. Cardinality(Open)' = Cardinality(Open) /\ Cardinality(Pushes)' = Cardinality(Pushes')
  BY <1>2
<1> QED
  BY <1>1, <1>3, <1>4, OwedIsFinite, RepoSyncConstants DEF KicksAreOwed

LEMMA KnownAreFew == ASSUME OneRepositoryRow PROVE Cardinality(Known) \in 0..1
<1>1. CASE Known = {}
  BY <1>1, FS_EmptySet
<1>2. CASE Known # {}
  <2>1. PICK c \in Known : Known = {c}
    BY <1>2 DEF OneRepositoryRow
  <2> QED
    BY <2>1, FS_Singleton
<1> QED
  BY <1>1, <1>2

LEMMA HandlePushOwed ==
  ASSUME RepoTyped, RepoTyped', RepoInv, KicksAreOwed, NEW commit \in CommitNumber,
         HandlePush(commit)
  PROVE  KicksAreOwed'
<1>1. /\ commit \in Pushes /\ events' = events \ {commit} /\ UNCHANGED <<head, req>>
      /\ kicks' = kicks + Cardinality(Known)
  BY DEF HandlePush, Pushes
<1>6. head \in Nat /\ kicks \in Nat
  BY RepoSyncConstants DEF RepoTyped
<1>2. Pushes' = Pushes \ {commit} /\ Open' = Open
  BY <1>1 DEF Pushes, Open
<1>3. Cardinality(Pushes') = Cardinality(Pushes) - 1
  BY <1>1, <1>2, OwedIsFinite, FS_RemoveElement
<1>4. Cardinality(Open)' = Cardinality(Open) /\ Cardinality(Pushes)' = Cardinality(Pushes')
  BY <1>2
<1>5. Cardinality(Known) \in 0..1
  BY KnownAreFew DEF RepoInv
<1> QED
  BY <1>1, <1>3, <1>4, <1>5, <1>6, OwedIsFinite, RepoSyncConstants DEF KicksAreOwed

LEMMA GitHubOwed ==
  ASSUME RepoTyped, RepoTyped', RepoInv, KicksAreOwed, Push \/ Uninstall \/ Webhook \/ LoseEvent
  PROVE  KicksAreOwed'
<1>1. CASE Uninstall \/ HandleUninstall \/ LoseEvent
  <2>1. head' = head /\ kicks' = kicks /\ req' = req /\ events' \subseteq events \cup {0}
    BY <1>1 DEF Uninstall, HandleUninstall, LoseEvent
  <2>2. kicks' <= kicks /\ Open' \subseteq Open
    BY <2>1 DEF Open, RepoTyped
  <2> QED
    BY <2>1, <2>2, NothingOwedGrows
<1> QED
  BY <1>1, PushOwed, HandlePushOwed DEF Webhook

LEMMA RequestOwed ==
  ASSUME RepoTyped, RepoTyped', KicksAreOwed, NEW r \in Req, Asks(r) \/ Serves(r)
  PROVE  KicksAreOwed'
<1> USE DEF github, gbrain, rows
<1>1. UNCHANGED <<head, events>>
  BY DEF Asks, Add, Manage, Disconnect, Serves, InsertRepo, RenewToken, SourcesAdd,
         RecordRegistration, MarkRegistrationError, SetPending, SetSyncing, SetBehind,
         SourcesRemove, ForgetToken, SetDisconnected
<1>2. req[r].pc # "over"
  BY DEF Asks, Add, Manage, Disconnect, Serves, InsertRepo, RenewToken, SourcesAdd,
         RecordRegistration, MarkRegistrationError, SetPending, SetSyncing, SetBehind,
         SourcesRemove, ForgetToken, SetDisconnected, At
<1>3. CASE EndsWithKick(r)
  BY <1>1, <1>2, <1>3, EndsWithKickOwed
<1>4. CASE kicks' = kicks /\ (Ends(r) \/ \E label : Goes(r, label))
  <2>1. Open' \subseteq Open
    BY <1>2, <1>4, GoesIsOpen, EndsIsOver
  <2>2. kicks' <= kicks
    BY <1>4 DEF RepoTyped
  <2> QED
    BY <1>1, <2>1, <2>2, NothingOwedGrows
<1>5. CASE Asks(r)
  <2>1. kicks' = kicks /\ \A s \in Req \ {r} : req'[s] = req[s]
    BY <1>5 DEF Asks, Add, Manage, Disconnect, RepoTyped
  <2>2. Open' \subseteq Open /\ kicks' <= kicks
    BY <1>2, <2>1 DEF Open, RepoTyped
  <2> QED
    BY <1>1, <2>2, NothingOwedGrows
<1>6. CASE Serves(r)
  <2>1. \/ EndsWithKick(r)
        \/ kicks' = kicks /\ (Ends(r) \/ \E label : Goes(r, label))
    <3>1. CASE InsertRepo(r) \/ RenewToken(r) \/ SourcesAdd(r) \/ MarkRegistrationError(r)
      BY <3>1 DEF InsertRepo, RenewToken, SourcesAdd, MarkRegistrationError
    <3>2. CASE RecordRegistration(r) \/ SetPending(r) \/ SetSyncing(r) \/ SetBehind(r)
      BY <3>2 DEF RecordRegistration, SetPending, SetSyncing, SetBehind, EndsWithKick
    <3>3. CASE SourcesRemove(r) \/ ForgetToken(r) \/ SetDisconnected(r)
      BY <3>3 DEF SourcesRemove, ForgetToken, SetDisconnected
    <3> QED
      BY <1>6, <3>1, <3>2, <3>3 DEF Serves
  <2> QED
    BY <1>3, <1>4, <2>1
<1> QED
  BY <1>5, <1>6

LEMMA OthersOwed ==
  ASSUME RepoTyped, RepoTyped', KicksAreOwed,
         SchedulerTick \/ Kick \/ RunsCycle \/ RunsJob \/ Crash \/ UNCHANGED repoVars
  PROVE  KicksAreOwed'
<1> USE DEF github, gbrain, rows, repoVars
<1>k. kicks \in Nat
  BY DEF RepoTyped
<1>1. UNCHANGED <<head, events>>
  BY DEF SchedulerTick, Kick, RunsCycle, Select, LoadRepo, MarkSyncing, SubmitSync, Poll,
         WriteFresh, SyncFails, CommitStatus, RunsJob, JobPulls, JobFails, Crash
<1>2. kicks' <= kicks
  <2>1. CASE Kick \/ Crash
    BY <1>k, <2>1 DEF Kick, Crash
  <2>2. CASE SchedulerTick \/ RunsCycle \/ RunsJob \/ UNCHANGED repoVars
    <3>1. kicks' = kicks
      BY <2>2 DEF SchedulerTick, RunsCycle, Select, LoadRepo, MarkSyncing, SubmitSync, Poll,
         WriteFresh, SyncFails, CommitStatus, RunsJob, JobPulls, JobFails
    <3> QED
      BY <1>k, <3>1
  <2> QED
    BY <2>1, <2>2
<1>3. Open' \subseteq Open
  <2>1. CASE Crash
    <3>1. \A r \in Req : req'[r].pc # "over" => req[r].pc = "new"
      BY <2>1 DEF Crash, At, Over, NoRequest
    <3> QED
      BY <3>1 DEF Open
  <2>2. CASE ~Crash
    <3>1. req' = req
      BY <2>2 DEF SchedulerTick, Kick, RunsCycle, Select, LoadRepo, MarkSyncing, SubmitSync, Poll,
         WriteFresh, SyncFails, CommitStatus, RunsJob, JobPulls, JobFails
    <3> QED
      BY <3>1 DEF Open
  <2> QED
    BY <2>1, <2>2
<1> QED
  BY <1>1, <1>2, <1>3, NothingOwedGrows

LEMMA NextOwed ==
  ASSUME RepoTyped, RepoTyped', RepoInv, KicksAreOwed, [RepoNext]_repoVars PROVE KicksAreOwed'
BY GitHubOwed, RequestOwed, OthersOwed DEF RepoNext

LEMMA InitOwed == ASSUME RepoInit PROVE KicksAreOwed
<1>1. RepoTyped /\ kicks = 0 /\ head \in 1..MaxCommit /\ Pushes = {}
  BY InitRepoTyped DEF RepoInit, Pushes
<1> QED
  BY <1>1, OwedIsFinite, FS_EmptySet, RepoSyncConstants DEF KicksAreOwed

LEMMA OwedBoundsKicks == ASSUME RepoTyped, KicksAreOwed PROVE RepoTypeOK
<1>1. kicks \in Nat /\ head \in 1..MaxCommit
  BY DEF RepoTyped
<1> QED
  BY <1>1, OwedIsFinite, RepoSyncConstants DEF KicksAreOwed, RepoTypeOK

-----------------------------------------------------------------------------
\* Repositories: the theorems.

LEMMA RepoIsInductive == RepoSpec => [](RepoTyped /\ RepoInv /\ KicksAreOwed)
<1>1. RepoInit => RepoTyped /\ RepoInv /\ KicksAreOwed
  BY InitRepoTyped, InitRepoInv, InitOwed
<1>2. RepoTyped /\ RepoInv /\ KicksAreOwed /\ [RepoNext]_repoVars
        => (RepoTyped /\ RepoInv /\ KicksAreOwed)'
  BY NextRepoTyped, NextRepoInv, NextOwed
<1> QED
  BY <1>1, <1>2, PTL DEF RepoSpec

\* Rows, gbrain's sources, requests and the cycle keep their types, and a workspace
\* never has more calls of kick waiting than requests and pushes that caused them.
THEOREM RepoTypeCorrect == RepoSpec => []RepoTypeOK
<1>1. RepoTyped /\ RepoInv /\ KicksAreOwed => RepoTypeOK
  BY OwedBoundsKicks
<1> QED
  BY <1>1, RepoIsInductive, PTL

\* Whatever requests meet between the insert of a connection and that of its row, the
\* repository has one row, of one connection.
THEOREM RepositoryHasOneRow == RepoSpec => []OneRepositoryRow
<1>1. RepoTyped /\ RepoInv /\ KicksAreOwed => OneRepositoryRow
  BY DEF RepoInv
<1> QED
  BY <1>1, RepoIsInductive, PTL

\* An active connection has a row whose source gbrain has taken, although requests and
\* the cycle write the status and the row apart, by id.
THEOREM ActiveConnectionIsRegistered == RepoSpec => []ActiveIsRegistered
<1>1. RepoTyped /\ RepoInv /\ KicksAreOwed => ActiveIsRegistered
  BY DEF RepoInv
<1> QED
  BY <1>1, RepoIsInductive, PTL

\* No row, webhook, clone or cycle is ahead of the branch.
THEOREM NothingAheadOfBranch == RepoSpec => []NothingIsAhead
<1>1. RepoTyped /\ RepoInv /\ KicksAreOwed => NothingIsAhead
  BY DEF RepoInv
<1> QED
  BY <1>1, RepoIsInductive, PTL

LEMMA SyncKeepsRegistration ==
  ASSUME RepoTyped, NEW c \in Conn, NEW status, SetSync(c, status) PROVE KeepsRegistration
<1>1. repo[c] \in RepoRow
  BY DEF RepoTyped
<1> QED
  BY <1>1 DEF SetSync, KeepsRegistration, RepoTyped, RepoRow

LEMMA WebhooksKeepRegistration ==
  ASSUME RepoTyped, Webhook \/ RunsJob PROVE KeepsRegistration
<1>r. \A c \in Conn : repo[c] \in RepoRow
  BY DEF RepoTyped
<1>1. CASE repo' = AuthRequired
  BY <1>r, <1>1 DEF AuthRequired, KeepsRegistration, RepoRow
<1>2. CASE repo' = repo
  BY <1>2 DEF KeepsRegistration
<1>3. ASSUME NEW commit \in CommitNumber, HandlePush(commit) PROVE KeepsRegistration
  BY <1>r, <1>3 DEF HandlePush, KeepsRegistration, RepoRow
<1> QED
  BY <1>1, <1>2, <1>3 DEF Webhook, HandleUninstall, RunsJob, JobPulls, JobFails, rows

LEMMA RequestsKeepRegistration ==
  ASSUME RepoTyped, RepoInv, NEW r \in Req, Serves(r) PROVE KeepsRegistration
<1> DEFINE c == req[r].conn
<1>c. c \in Conn /\ repo[c] \in RepoRow /\ RequestInv(r) /\ RowInv(c)
  BY DEF RepoTyped, RepoInv, Request
<1> USE DEF rows
<1>1. CASE InsertRepo(r)
  <2>1. ~repo[c].exists /\ ~repo[c].registered
    BY <1>c, <1>1 DEF InsertRepo, At, RequestInv, RowInv
  <2>2. \A d \in Conn \ {c} : repo'[d] = repo[d]
    BY <1>1 DEF InsertRepo, RepoTyped
  <2> QED
    BY <2>1, <2>2 DEF KeepsRegistration
<1>2. CASE RenewToken(r)
  BY <1>c, <1>2 DEF RenewToken, KeepsRegistration, RepoTyped, RepoRow
<1>3. CASE RecordRegistration(r)
  <2>1. \A d \in Conn \ {c} : repo'[d] = repo[d]
    BY <1>3 DEF RecordRegistration, RepoTyped
  <2>2. repo'[c].registered /\ repo'[c].exists = repo[c].exists
    BY <1>c, <1>3 DEF RecordRegistration, RepoTyped, RepoRow
  <2> QED
    BY <2>1, <2>2 DEF KeepsRegistration
<1>4. CASE ForgetToken(r)
  BY <1>c, <1>4 DEF ForgetToken, KeepsRegistration, RepoTyped, RepoRow
<1>5. CASE MarkRegistrationError(r) \/ SetSyncing(r) \/ SetBehind(r)
  <2>1. repo' = repo \/ \E status \in Sync : SetSync(c, status)
    BY <1>5 DEF MarkRegistrationError, SetSyncing, SetBehind, Sync
  <2> QED
    BY <1>c, <2>1, SyncKeepsRegistration DEF KeepsRegistration
<1>6. CASE SourcesAdd(r) \/ SetPending(r) \/ SourcesRemove(r) \/ SetDisconnected(r)
  BY <1>6 DEF SourcesAdd, SetPending, SourcesRemove, SetDisconnected, KeepsRegistration
<1> QED
  BY <1>1, <1>2, <1>3, <1>4, <1>5, <1>6 DEF Serves

LEMMA CycleKeepsRegistration ==
  ASSUME RepoTyped, RunsCycle PROVE KeepsRegistration
<1>c. cycle.on \in Conn /\ repo[cycle.on] \in RepoRow
  BY DEF RepoTyped, Cycle
<1> USE DEF rows
<1>1. CASE MarkSyncing \/ SyncFails
  <2>1. repo' = repo \/ \E status \in Sync : SetSync(cycle.on, status)
    BY <1>1 DEF MarkSyncing, SyncFails, Sync
  <2> QED
    BY <1>c, <2>1, SyncKeepsRegistration DEF KeepsRegistration
<1>2. CASE WriteFresh
  <2>1. \A d \in Conn \ {cycle.on} : repo'[d] = repo[d]
    BY <1>2 DEF WriteFresh, RepoTyped
  <2>2. /\ repo'[cycle.on].exists = repo[cycle.on].exists
        /\ repo'[cycle.on].registered = repo[cycle.on].registered
    BY <1>c, <1>2 DEF WriteFresh, RepoTyped, RepoRow
  <2> QED
    BY <2>1, <2>2 DEF KeepsRegistration
<1>3. CASE Select \/ LoadRepo \/ SubmitSync \/ Poll \/ CommitStatus
  BY <1>3 DEF Select, LoadRepo, SubmitSync, Poll, CommitStatus, KeepsRegistration
<1> QED
  BY <1>1, <1>2, <1>3 DEF RunsCycle

LEMMA NextKeepsRegistration ==
  ASSUME RepoTyped, RepoInv, [RepoNext]_repoVars PROVE KeepsRegistration
<1>1. CASE UNCHANGED repo
  BY <1>1 DEF KeepsRegistration
<1>2. CASE Push \/ Uninstall \/ LoseEvent \/ SchedulerTick \/ Kick \/ Crash \/ UNCHANGED repoVars
           \/ \E r \in Req : Asks(r)
  <2>1. UNCHANGED repo
    BY <1>2 DEF Push, Uninstall, LoseEvent, SchedulerTick, Kick, Crash, Asks, Add, Manage, Disconnect,
       repoVars, rows
  <2> QED
    BY <1>1, <2>1
<1> QED
  BY <1>2, WebhooksKeepRegistration, RequestsKeepRegistration, CycleKeepsRegistration DEF RepoNext

\* No step takes a row or its registration back.
THEOREM RegistrationStays == RepoSpec => RegistrationIsKept
<1>1. RepoTyped /\ RepoInv /\ KicksAreOwed /\ [RepoNext]_repoVars => [KeepsRegistration]_repoVars
  BY NextKeepsRegistration
<1> QED
  BY <1>1, RepoIsInductive, PTL DEF RepoSpec, RegistrationIsKept
=============================================================================
