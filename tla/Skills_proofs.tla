----------------------------- MODULE Skills_proofs -----------------------------
(***************************************************************************)
(* Proofs for Skills, for any number of requests, sweepers and versions.   *)
(* The inductive invariant Inv says that what a request or a sweep         *)
(* remembers of a version stays about a version that exists.  Rows         *)
(* are only added and updated in place (RowsGrow), which keeps that true   *)
(* of everybody who is not the one that acts.                              *)
(***************************************************************************)
EXTENDS Skills, SequenceTheorems, TLAPS

OnVersion == {"revise", "check", "refresh", "explain", "capture", "read", "delete",
              "insert", "key", "insertKey"}

\* Versions 1..n exist.
RequestInv(q, n) == q.pc \in OnVersion => q.version \in 1..n

SweepInv(w, n) ==
  /\ w.pc \in {"resolve", "select", "insert"} => w.version \in 1..n
  /\ \A c \in w.todo : c[1] \in 1..n

Rows == versions \in Seq(Row) /\ Len(versions) <= MaxVersion /\ NoLostRevision
Requests == req \in [Req -> Request] /\ \A r \in Req : RequestInv(req[r], Len(versions))
SweepsOK == sweep \in [Sweeper -> Sweep] /\ \A s \in Sweeper : SweepInv(sweep[s], Len(versions))
Bundles == key \in Req \cup {NoKey} /\ bundles \subseteq Bundle /\ BundlesVerify
Rest == source \in Text \cup {NoText} /\ edits \in 0..MaxEdits

Inv == Rows /\ Requests /\ SweepsOK /\ Bundles /\ Rest

RowsGrow == Rows' /\ Len(versions) <= Len(versions')

LEMMA InvImplies == Inv => TypeOK /\ NoLostRevision /\ BundlesVerify
BY DEF Inv, Rows, Requests, SweepsOK, Bundles, Rest, TypeOK

(***************************************************************************)
(* What an action does to the rows, to one request and to one sweep        *)
(***************************************************************************)
LEMMA RowsStay ==
  ASSUME Rows, UNCHANGED versions PROVE RowsGrow
BY LenProperties DEF RowsGrow, Rows, NoLostRevision

LEMMA RowUpdated ==
  ASSUME Rows, NEW v \in 1..Len(versions), NEW row \in Row, row.base = versions[v].base,
         versions' = [versions EXCEPT ![v] = row]
  PROVE  RowsGrow
<1>1. /\ versions' \in Seq(Row)
      /\ Len(versions') = Len(versions)
      /\ \A j \in 1..Len(versions) : versions'[j] = IF j = v THEN row ELSE versions[j]
  BY ExceptSeq DEF Rows
<1>2. NoLostRevision' BY <1>1 DEF Rows, NoLostRevision
<1>3. Len(versions) \in Nat BY LenProperties DEF Rows
<1> QED BY <1>1, <1>2, <1>3 DEF RowsGrow, Rows

LEMMA RowAdded ==
  ASSUME Rows, NEW row \in Row, row.base = Len(versions), Len(versions) < MaxVersion,
         versions' = Append(versions, row)
  PROVE  RowsGrow
<1>1. /\ versions' \in Seq(Row)
      /\ Len(versions') = Len(versions) + 1
      /\ \A i \in 1..Len(versions) : versions'[i] = versions[i]
      /\ versions'[Len(versions) + 1] = row
  BY AppendProperties DEF Rows
<1>2. Len(versions) \in Nat BY LenProperties DEF Rows
<1>3. NoLostRevision'
  <2> SUFFICES ASSUME NEW v \in 1..Len(versions') PROVE versions'[v].base = v - 1
    BY DEF NoLostRevision
  <2>1. CASE v \in 1..Len(versions) BY <2>1, <1>1 DEF Rows, NoLostRevision
  <2>2. CASE v = Len(versions) + 1 BY <2>2, <1>1, <1>2
  <2> QED BY <2>1, <2>2, <1>1, <1>2
<1> QED BY <1>1, <1>2, <1>3, SkillsConstants DEF RowsGrow, Rows

LEMMA Lengths ==
  ASSUME Rows, RowsGrow
  PROVE  Len(versions) \in Nat /\ Len(versions') \in Nat /\ Len(versions) <= Len(versions')
BY LenProperties DEF Rows, RowsGrow

\* The request that acts goes on as q.
LEMMA RequestMoves ==
  ASSUME Rows, Requests, RowsGrow, NEW r \in Req, NEW q \in Request,
         RequestInv(q, Len(versions')), req' = [req EXCEPT ![r] = q]
  PROVE  Requests'
BY Lengths DEF Requests, RequestInv

LEMMA RequestsStay ==
  ASSUME Rows, Requests, RowsGrow, UNCHANGED req PROVE Requests'
BY Lengths DEF Requests, RequestInv

LEMMA SweepMoves ==
  ASSUME Rows, SweepsOK, RowsGrow, NEW s \in Sweeper, NEW w \in Sweep,
         SweepInv(w, Len(versions')), sweep' = [sweep EXCEPT ![s] = w]
  PROVE  SweepsOK'
BY Lengths DEF SweepsOK, SweepInv

LEMMA SweepsStay ==
  ASSUME Rows, SweepsOK, RowsGrow, UNCHANGED sweep PROVE SweepsOK'
BY Lengths DEF SweepsOK, SweepInv

LEMMA RequestEnds ==
  ASSUME Rows, Requests, RowsGrow, NEW r \in Req, Ends(r) PROVE Requests'
<1>1. Over \in Request /\ RequestInv(Over, Len(versions'))
  BY SkillsConstants DEF Over, NoRequest, Request, Explainer, RequestInv, OnVersion
<1> QED BY <1>1, RequestMoves DEF Ends

\* A request that goes on with the version it has.
LEMMA RequestGoes ==
  ASSUME Rows, Requests, RowsGrow, NEW r \in Req, req[r].pc \in OnVersion,
         NEW pc \in OnVersion, Goes(r, pc)
  PROVE  Requests'
<1> DEFINE q == [req[r] EXCEPT !.pc = pc]
<1>1. req[r] \in Request /\ req[r].version \in 1..Len(versions)
  BY DEF Requests, RequestInv
<1>2. q \in Request /\ q.version = req[r].version BY <1>1 DEF Request, OnVersion
<1>3. RequestInv(q, Len(versions')) BY <1>1, <1>2, Lengths DEF RequestInv
<1>4. req' = [req EXCEPT ![r] = q] BY DEF Goes
<1> QED BY <1>2, <1>3, <1>4, RequestMoves

LEMMA BundlesStay == ASSUME Bundles, UNCHANGED <<key, bundles>> PROVE Bundles'
BY DEF Bundles, BundlesVerify

\* Nothing but the request moves.
LEMMA OnlyRequest ==
  ASSUME Inv, UNCHANGED <<source, edits, skillRows, bundles, sweep>>, Requests'
  PROVE  Inv'
<1>1. RowsGrow BY RowsStay DEF Inv, skillRows
<1>2. SweepsOK' BY <1>1, SweepsStay DEF Inv
<1>3. Bundles' BY BundlesStay DEF Inv, skillRows
<1> QED BY <1>1, <1>2, <1>3 DEF Inv, Rest, RowsGrow

\* Rows and a request move.
LEMMA RowsAndRequest ==
  ASSUME Inv, UNCHANGED <<source, edits, key, bundles, sweep>>, RowsGrow, Requests'
  PROVE  Inv'
<1>1. SweepsOK' BY SweepsStay DEF Inv
<1>2. Bundles' BY BundlesStay DEF Inv
<1> QED BY <1>1, <1>2 DEF Inv, Rest, RowsGrow

\* Rows and a sweep move.
LEMMA RowsAndSweep ==
  ASSUME Inv, UNCHANGED <<source, edits, key, bundles, req>>, RowsGrow, SweepsOK'
  PROVE  Inv'
<1>1. Requests' BY RequestsStay DEF Inv
<1>2. Bundles' BY BundlesStay DEF Inv
<1> QED BY <1>1, <1>2 DEF Inv, Rest, RowsGrow

(***************************************************************************)
(* The steps                                                               *)
(***************************************************************************)
LEMMA InitStep == Init => Inv
<1> SUFFICES ASSUME Init PROVE Inv OBVIOUS
<1>1. Rows
  <2>1. CASE versions = <<>>
    BY <2>1, SkillsConstants DEF Rows, NoLostRevision
  <2>2. ASSUME NEW passage \in Passage, versions = <<NewRow(0, Absent, passage)>> PROVE Rows
    <3>1. NewRow(0, Absent, passage) \in Row /\ NewRow(0, Absent, passage).base = 0
      BY SkillsConstants DEF NewRow, Row, Explainer
    <3>2. versions \in Seq(Row) /\ Len(versions) = 1 /\ versions[1].base = 0
      BY <2>2, <3>1
    <3> QED BY <3>2, SkillsConstants DEF Rows, NoLostRevision
  <2> QED BY <2>1, <2>2 DEF Init
<1>2. Requests
  BY SkillsConstants DEF Init, Requests, NoRequest, Request, Explainer, RequestInv, OnVersion
<1>3. SweepsOK
  BY SkillsConstants DEF Init, SweepsOK, NoSweep, Sweep, SweepInv
<1>4. Bundles /\ Rest
  BY SkillsConstants DEF Init, Bundles, BundlesVerify, Rest
<1> QED BY <1>1, <1>2, <1>3, <1>4 DEF Inv

LEMMA EditSourceStep == Inv /\ EditSource => Inv'
<1> SUFFICES ASSUME Inv, EditSource PROVE Inv' OBVIOUS
<1>1. RowsGrow BY RowsStay DEF Inv, EditSource, skillRows
<1>2. Requests' /\ SweepsOK' BY <1>1, RequestsStay, SweepsStay DEF Inv, EditSource
<1>3. Bundles' BY BundlesStay DEF Inv, EditSource, skillRows
<1>4. Rest' BY SkillsConstants DEF Inv, EditSource, Rest
<1> QED BY <1>1, <1>2, <1>3, <1>4 DEF Inv, RowsGrow

LEMMA LatestExists ==
  ASSUME Rows, versions # <<>>
  PROVE  Len(versions) \in 1..Len(versions) /\ Len(versions) \in 0..MaxVersion
BY LenProperties, EmptySeq, SkillsConstants DEF Rows

\* A request that has loaded the latest version.
LEMMA LoadedIsRequest ==
  ASSUME Rows, RowsGrow, versions # <<>>, NEW pc \in OnVersion
  PROVE  Loaded(pc) \in Request /\ RequestInv(Loaded(pc), Len(versions'))
<1>1. versions[Len(versions)] \in Row
  BY LatestExists, ElementOfSeq DEF Rows
<1>2. versions[Len(versions)].explainer \in Explainer BY <1>1 DEF Row
<1>3. NoRequest \in Request
  BY SkillsConstants DEF NoRequest, Request, Explainer
<1>4. Loaded(pc) \in Request /\ Loaded(pc).version = Len(versions)
  BY <1>2, <1>3, LatestExists DEF Loaded, Request, OnVersion
<1> QED BY <1>4, LatestExists, Lengths DEF RequestInv

LEMMA LoadStep ==
  ASSUME Inv, NEW r \in Req, NEW pc \in OnVersion, Load(r, pc) PROVE Inv'
<1>1. RowsGrow BY RowsStay DEF Inv, Load, skillRows
<1>2. Requests' BY <1>1, LoadedIsRequest, RequestMoves DEF Inv, Load
<1> QED BY <1>2, OnlyRequest DEF Load

LEMMA MintStep == ASSUME Inv, NEW r \in Req, Mint(r) PROVE Inv'
<1>1. PICK passage \in Contained[source] :
        req' = [req EXCEPT ![r].pc = "persist", ![r].text = passage]
  BY DEF Mint
<1> DEFINE q == [req[r] EXCEPT !.pc = "persist", !.text = passage]
<1>2. RowsGrow BY RowsStay DEF Inv, Mint, skillRows
<1>3. passage \in Passage BY SkillsConstants DEF Inv, Rest, Mint
<1>4. q \in Request /\ RequestInv(q, Len(versions'))
  BY <1>3 DEF Inv, Requests, Request, RequestInv, OnVersion
<1>5. req' = [req EXCEPT ![r] = q] BY <1>1
<1>6. Requests' BY <1>2, <1>4, <1>5, RequestMoves DEF Inv
<1> QED BY <1>6, OnlyRequest DEF Mint

LEMMA PersistDraftStep == ASSUME Inv, NEW r \in Req, PersistDraft(r) PROVE Inv'
<1> DEFINE row == NewRow(0, Absent, req[r].text)
<1>1. RowsGrow
  <2>1. CASE versions = <<>>
    <3>1. row \in Row /\ row.base = 0
      BY SkillsConstants DEF NewRow, Row, Inv, Requests, Request, Explainer
    <3>2. versions' = <<row>> BY <2>1 DEF PersistDraft
    <3>3. versions' \in Seq(Row) /\ Len(versions') = 1 /\ versions'[1] = row
      BY <3>1, <3>2
    <3>4. NoLostRevision' BY <3>1, <3>3 DEF NoLostRevision
    <3> QED BY <2>1, <3>3, <3>4, SkillsConstants DEF RowsGrow, Rows
  <2>2. CASE versions # <<>> BY <2>2, RowsStay DEF Inv, PersistDraft
  <2> QED BY <2>1, <2>2
<1>2. Requests' BY <1>1, RequestEnds DEF Inv, PersistDraft
<1> QED BY <1>1, <1>2, RowsAndRequest DEF PersistDraft

\* What a request that works on a version may rely on.
LEMMA OnItsVersion ==
  ASSUME Inv, NEW r \in Req, req[r].pc \in OnVersion
  PROVE  /\ req[r] \in Request
         /\ req[r].version \in 1..Len(versions)
         /\ versions[req[r].version] \in Row
<1>1. req[r] \in Request /\ req[r].version \in 1..Len(versions)
  BY DEF Inv, Requests, RequestInv
<1> QED BY <1>1, ElementOfSeq DEF Inv, Rows

LEMMA PersistRevisionStep == ASSUME Inv, NEW r \in Req, PersistRevision(r) PROVE Inv'
<1> DEFINE base == req[r].version
           row == NewRow(base, Absent, versions[base].provenance)
<1>1. req[r].pc \in OnVersion BY DEF PersistRevision, At, OnVersion
<1>2. base \in 1..Len(versions) /\ versions[base] \in Row BY <1>1, OnItsVersion
<1>3. RowsGrow
  <2>1. CASE NumberTaken(base) BY <2>1, RowsStay DEF Inv, PersistRevision
  <2>2. CASE ~NumberTaken(base)
    <3>1. base = Len(versions) BY <2>2, <1>2, LenProperties DEF NumberTaken, Inv, Rows
    <3>2. row \in Row /\ row.base = Len(versions)
      BY <1>2, <3>1, LenProperties, SkillsConstants DEF NewRow, Row, Explainer, Inv, Rows
    <3>3. versions' = Append(versions, row) /\ Len(versions) < MaxVersion
      BY <2>2 DEF PersistRevision
    <3> QED BY <3>2, <3>3, RowAdded DEF Inv
  <2> QED BY <2>1, <2>2
<1>4. Requests' BY <1>3, RequestEnds DEF Inv, PersistRevision
<1> QED BY <1>3, <1>4, RowsAndRequest DEF PersistRevision

LEMMA CheckStaleStep == ASSUME Inv, NEW r \in Req, CheckStale(r) PROVE Inv'
<1>1. RowsGrow BY RowsStay DEF Inv, CheckStale, skillRows
<1>2. Requests' BY <1>1, RequestGoes DEF Inv, CheckStale, At, OnVersion
<1> QED BY <1>2, OnlyRequest DEF CheckStale

LEMMA RefreshStep == ASSUME Inv, NEW r \in Req, Refresh(r) PROVE Inv'
<1> DEFINE base == req[r].version
           row == NewRow(base, req[r].explainer, NoText)
           q == [req[r] EXCEPT !.pc = "explain", !.version = base + 1]
<1>1. req[r].pc \in OnVersion BY DEF Refresh, At, OnVersion
<1>2. req[r] \in Request /\ base \in 1..Len(versions) /\ versions[base] \in Row
  BY <1>1, OnItsVersion
<1>3. Len(versions) \in Nat BY LenProperties DEF Inv, Rows
<1>4. CASE Goes(r, "explain") /\ UNCHANGED versions
  <2>1. RowsGrow BY <1>4, RowsStay DEF Inv
  <2>2. Requests' BY <2>1, <1>1, <1>4, RequestGoes DEF Inv, OnVersion
  <2> QED BY <2>1, <2>2, RowsAndRequest DEF Refresh
<1>5. CASE req' = [req EXCEPT ![r] = Loaded("explain")] /\ UNCHANGED versions
  <2>1. RowsGrow BY <1>5, RowsStay DEF Inv
  <2>2. versions # <<>> BY <1>2, <1>3
  <2>3. Requests' BY <2>1, <2>2, <1>5, LoadedIsRequest, RequestMoves DEF Inv, OnVersion
  <2> QED BY <2>1, <2>3, RowsAndRequest DEF Refresh
<1>6. CASE /\ ~NumberTaken(base) /\ base < MaxVersion
           /\ versions' = Append(versions, row)
           /\ req' = [req EXCEPT ![r].pc = "explain", ![r].version = base + 1]
  <2>1. base = Len(versions) BY <1>2, <1>3, <1>6 DEF NumberTaken
  <2>2. row \in Row /\ row.base = Len(versions)
    BY <1>2, <1>3, <1>6, <2>1 DEF NewRow, Row, Request
  <2>3. RowsGrow BY <1>6, <2>1, <2>2, RowAdded DEF Inv
  <2>4. Len(versions') = Len(versions) + 1 BY <1>6, <2>2, AppendProperties DEF Inv, Rows
  <2>5. q \in Request /\ RequestInv(q, Len(versions'))
    <3>1. base + 1 \in 0..MaxVersion /\ base + 1 \in 1..Len(versions')
      BY <1>3, <1>6, <2>1, <2>4, SkillsConstants
    <3>2. q \in Request /\ q.version = base + 1 BY <1>2, <3>1 DEF Request
    <3> QED BY <3>1, <3>2 DEF RequestInv
  <2>6. req' = [req EXCEPT ![r] = q] BY <1>6
  <2>7. Requests' BY <2>3, <2>5, <2>6, RequestMoves DEF Inv
  <2> QED BY <2>3, <2>7, RowsAndRequest DEF Refresh
<1> QED BY <1>4, <1>5, <1>6 DEF Refresh

LEMMA MaterializeExplainerStep ==
  ASSUME Inv, NEW r \in Req, MaterializeExplainer(r) PROVE Inv'
<1>1. req[r].pc \in OnVersion BY DEF MaterializeExplainer, At, OnVersion
<1>2. /\ req[r] \in Request
      /\ req[r].version \in 1..Len(versions)
      /\ versions[req[r].version] \in Row
  BY <1>1, OnItsVersion
<1>3. CASE Goes(r, "capture") /\ UNCHANGED versions
  <2>1. RowsGrow BY <1>3, RowsStay DEF Inv
  <2>2. Requests' BY <2>1, <1>1, <1>3, RequestGoes DEF Inv, OnVersion
  <2> QED BY <2>1, <2>2, RowsAndRequest DEF MaterializeExplainer
<1>4. ASSUME NEW explainer \in {r, Null},
             versions' = [versions EXCEPT ![req[r].version].explainer = explainer],
             req' = [req EXCEPT ![r].pc = "capture", ![r].explainer = explainer]
      PROVE  Inv'
  <2> DEFINE v == req[r].version
             row == [versions[v] EXCEPT !.explainer = explainer]
             q == [req[r] EXCEPT !.pc = "capture", !.explainer = explainer]
  <2>1. row \in Row /\ row.base = versions[v].base BY <1>2 DEF Row, Explainer
  <2>2. versions' = [versions EXCEPT ![v] = row] BY <1>4
  <2>3. RowsGrow BY <1>2, <2>1, <2>2, RowUpdated DEF Inv
  <2>4. q \in Request /\ q.version = v BY <1>2 DEF Request, Explainer
  <2>5. RequestInv(q, Len(versions')) BY <1>2, <2>3, <2>4, Lengths DEF Inv, RequestInv
  <2>6. req' = [req EXCEPT ![r] = q] BY <1>4
  <2>7. Requests' BY <2>3, <2>4, <2>5, <2>6, RequestMoves DEF Inv
  <2> QED BY <2>3, <2>7, RowsAndRequest DEF MaterializeExplainer
<1> QED BY <1>3, <1>4 DEF MaterializeExplainer

LEMMA CaptureStep == ASSUME Inv, NEW r \in Req, Capture(r) PROVE Inv'
<1>1. RowsGrow BY RowsStay DEF Inv, Capture, skillRows
<1>2. Requests' BY <1>1, RequestGoes DEF Inv, Capture, At, OnVersion
<1> QED BY <1>2, OnlyRequest DEF Capture

LEMMA ReadSourceStep == ASSUME Inv, NEW r \in Req, ReadSource(r) PROVE Inv'
<1> DEFINE q == [req[r] EXCEPT !.pc = "delete", !.text = Excerpt[source]]
<1>1. req[r].pc \in OnVersion BY DEF ReadSource, At, OnVersion
<1>2. RowsGrow BY RowsStay DEF Inv, ReadSource, skillRows
<1>3. CASE Goes(r, "key")
  <2>1. Requests' BY <1>1, <1>2, <1>3, RequestGoes DEF Inv, OnVersion
  <2> QED BY <2>1, OnlyRequest DEF ReadSource
<1>4. CASE source # NoText /\ req' = [req EXCEPT ![r].pc = "delete", ![r].text = Excerpt[source]]
  <2>1. req[r] \in Request /\ req[r].version \in 1..Len(versions) BY <1>1, OnItsVersion
  <2>2. q \in Request /\ q.version = req[r].version
    <3>1. Excerpt[source] \in Passage BY <1>4, SkillsConstants DEF Inv, Rest
    <3> QED BY <2>1, <3>1 DEF Request
  <2>3. RequestInv(q, Len(versions')) BY <1>2, <2>1, <2>2, Lengths DEF Inv, RequestInv
  <2>4. req' = [req EXCEPT ![r] = q] BY <1>4
  <2>5. Requests' BY <1>2, <2>2, <2>3, <2>4, RequestMoves DEF Inv
  <2> QED BY <2>5, OnlyRequest DEF ReadSource
<1> QED BY <1>3, <1>4 DEF ReadSource

\* Captured text and flags are updated in place.
LEMMA ProvenanceSet ==
  ASSUME Inv, NEW v \in 1..Len(versions), NEW text \in Passage \cup {NoText},
         versions' = [versions EXCEPT ![v].provenance = text]
  PROVE  RowsGrow
<1> DEFINE row == [versions[v] EXCEPT !.provenance = text]
<1>1. versions[v] \in Row BY ElementOfSeq DEF Inv, Rows
<1>2. row \in Row /\ row.base = versions[v].base BY <1>1 DEF Row
<1>3. versions' = [versions EXCEPT ![v] = row] OBVIOUS
<1> QED BY <1>2, <1>3, RowUpdated DEF Inv

LEMMA FlagSet ==
  ASSUME Inv, NEW v \in 1..Len(versions), NEW flag \in BOOLEAN,
         versions' = [versions EXCEPT ![v].stale = flag]
  PROVE  RowsGrow
<1> DEFINE row == [versions[v] EXCEPT !.stale = flag]
<1>1. versions[v] \in Row BY ElementOfSeq DEF Inv, Rows
<1>2. row \in Row /\ row.base = versions[v].base BY <1>1 DEF Row
<1>3. versions' = [versions EXCEPT ![v] = row] OBVIOUS
<1> QED BY <1>2, <1>3, RowUpdated DEF Inv

LEMMA DeleteProvenanceStep == ASSUME Inv, NEW r \in Req, DeleteProvenance(r) PROVE Inv'
<1>1. req[r].pc \in OnVersion BY DEF DeleteProvenance, At, OnVersion
<1>2. RowsGrow BY <1>1, OnItsVersion, ProvenanceSet DEF DeleteProvenance
<1>3. Requests' BY <1>1, <1>2, RequestGoes DEF Inv, DeleteProvenance, OnVersion
<1> QED BY <1>2, <1>3, RowsAndRequest DEF DeleteProvenance

LEMMA InsertProvenanceStep == ASSUME Inv, NEW r \in Req, InsertProvenance(r) PROVE Inv'
<1>1. req[r].pc \in OnVersion BY DEF InsertProvenance, At, OnVersion
<1>2. CASE Ends(r) /\ UNCHANGED versions
  <2>1. RowsGrow BY <1>2, RowsStay DEF Inv
  <2>2. Requests' BY <2>1, <1>2, RequestEnds DEF Inv
  <2> QED BY <2>1, <2>2, RowsAndRequest DEF InsertProvenance
<1>3. CASE /\ versions' = [versions EXCEPT ![req[r].version].provenance = req[r].text]
           /\ Goes(r, "key")
  <2>1. req[r].text \in Passage \cup {NoText} BY <1>1, OnItsVersion DEF Request
  <2>2. RowsGrow BY <1>1, <1>3, <2>1, OnItsVersion, ProvenanceSet
  <2>3. Requests' BY <1>1, <1>3, <2>2, RequestGoes DEF Inv, OnVersion
  <2> QED BY <2>2, <2>3, RowsAndRequest DEF InsertProvenance
<1> QED BY <1>2, <1>3 DEF InsertProvenance

\* A bundle is handed out with the key that is, or has just become, the stored one.
LEMMA HandOut ==
  ASSUME Inv, NEW r \in Req, req[r].pc \in OnVersion, NEW k \in Req, HandsOut(r, k),
         key' = k, key \in {k, NoKey}, UNCHANGED <<source, edits, versions, sweep>>
  PROVE  Inv'
<1> DEFINE bundle == [version |-> req[r].version, explainer |-> req[r].explainer, key |-> k]
<1>1. RowsGrow BY RowsStay DEF Inv
<1>2. Requests' BY <1>1, RequestEnds DEF Inv, HandsOut
<1>3. SweepsOK' BY <1>1, SweepsStay DEF Inv
<1>4. bundle \in Bundle
  <2>1. req[r] \in Request /\ req[r].version \in 1..Len(versions) BY OnItsVersion
  <2>2. Len(versions) <= MaxVersion /\ Len(versions) \in Nat BY LenProperties DEF Inv, Rows
  <2> QED BY <2>1, <2>2, SkillsConstants DEF Bundle, Version, Request
<1>5. \A b \in bundles : b.key = k
  <2> SUFFICES ASSUME NEW b \in bundles PROVE b.key = k OBVIOUS
  <2>1. b.key = key /\ b.key \in Req BY DEF Inv, Bundles, BundlesVerify, Bundle
  <2> QED BY <2>1, SkillsConstants
<1>6. bundles' = bundles \cup {bundle} BY DEF HandsOut
<1>7. BundlesVerify' BY <1>5, <1>6 DEF BundlesVerify
<1>8. Bundles' BY <1>4, <1>6, <1>7 DEF Inv, Bundles
<1> QED BY <1>1, <1>2, <1>3, <1>8 DEF Inv, Rest, RowsGrow

LEMMA LoadKeyStep == ASSUME Inv, NEW r \in Req, LoadKey(r) PROVE Inv'
<1>1. req[r].pc \in OnVersion BY DEF LoadKey, At, OnVersion
<1>2. CASE key # NoKey /\ HandsOut(r, key)
  <2>1. key \in Req BY <1>2 DEF Inv, Bundles
  <2> QED BY <1>1, <1>2, <2>1, HandOut DEF LoadKey, skillRows
<1>3. CASE Goes(r, "insertKey") /\ UNCHANGED bundles
  <2>1. RowsGrow BY RowsStay DEF Inv, LoadKey, skillRows
  <2>2. Requests' BY <1>1, <1>3, <2>1, RequestGoes DEF Inv, OnVersion
  <2> QED BY <1>3, <2>2, OnlyRequest DEF LoadKey
<1> QED BY <1>2, <1>3 DEF LoadKey

LEMMA InsertKeyStep == ASSUME Inv, NEW r \in Req, InsertKey(r) PROVE Inv'
<1>1. req[r].pc \in OnVersion BY DEF InsertKey, At, OnVersion
<1>2. key' \in Req /\ key \in {key', NoKey} BY DEF InsertKey, Inv, Bundles
<1> QED BY <1>1, <1>2, HandOut DEF InsertKey

\* A sweep that starts, ends or goes on.
LEMMA SweepEnds ==
  ASSUME Rows, SweepsOK, RowsGrow, NEW s \in Sweeper, EndSweep(s) PROVE SweepsOK'
<1>1. NoSweep \in Sweep /\ SweepInv(NoSweep, Len(versions'))
  BY SkillsConstants DEF NoSweep, Sweep, SweepInv
<1> QED BY <1>1, SweepMoves DEF EndSweep

LEMMA NextCandidateStep ==
  ASSUME Rows, SweepsOK, RowsGrow, NEW s \in Sweeper, NextCandidate(s) PROVE SweepsOK'
<1> DEFINE w == [sweep[s] EXCEPT !.pc = "next", !.version = 0]
<1>1. sweep[s] \in Sweep /\ SweepInv(sweep[s], Len(versions)) BY DEF SweepsOK
<1>2. w \in Sweep /\ w.todo = sweep[s].todo /\ w.pc = "next"
  <2>1. 0 \in 0..MaxVersion BY SkillsConstants
  <2> QED BY <1>1, <2>1 DEF Sweep
<1>3. SweepInv(w, Len(versions')) BY <1>1, <1>2, Lengths DEF SweepInv
<1>4. sweep' = [sweep EXCEPT ![s] = w] BY DEF NextCandidate
<1> QED BY <1>2, <1>3, <1>4, SweepMoves

LEMMA StartSweepStep == ASSUME Inv, NEW s \in Sweeper, StartSweep(s) PROVE Inv'
<1> DEFINE w == [NoSweep EXCEPT !.pc = "next", !.todo = Candidates]
<1>1. RowsGrow BY RowsStay DEF Inv, StartSweep, skillRows
<1>2. Candidates \subseteq Version \X Passage /\ \A c \in Candidates : c[1] \in 1..Len(versions)
  <2>1. Candidates \subseteq Version \X Passage BY DEF Candidates
  <2>2. ASSUME NEW c \in Candidates PROVE c[1] \in 1..Len(versions)
    <3>1. PICK v \in 1..Len(versions) : c = <<v, versions[v].provenance>>
      BY DEF Candidates
    <3> QED BY <3>1
  <2> QED BY <2>1, <2>2
<1>3. w.pc = "next" /\ w.todo = Candidates BY DEF NoSweep
<1>4. w \in Sweep
  <2>1. NoSweep \in Sweep BY SkillsConstants DEF NoSweep, Sweep
  <2> QED BY <1>2, <2>1 DEF Sweep
<1>5. SweepInv(w, Len(versions')) BY <1>1, <1>2, <1>3, Lengths DEF Inv, SweepInv
<1>6. SweepsOK' BY <1>1, <1>4, <1>5, SweepMoves DEF Inv, StartSweep
<1> QED BY <1>1, <1>6, RowsAndSweep DEF StartSweep, skillRows

LEMMA CompareStep == ASSUME Inv, NEW s \in Sweeper, Compare(s) PROVE Inv'
<1>1. RowsGrow BY RowsStay DEF Inv, Compare, skillRows
<1>2. CASE EndSweep(s)
  <2>1. SweepsOK' BY <1>1, <1>2, SweepEnds DEF Inv
  <2> QED BY <1>1, <2>1, RowsAndSweep DEF Compare, skillRows
<1>3. ASSUME NEW c \in sweep[s].todo, NEW pc \in {"resolve", "select"},
             LET rest == [sweep[s] EXCEPT !.todo = @ \ {c}] IN
             sweep' = [sweep EXCEPT ![s] =
               IF source = NoText THEN rest ELSE [rest EXCEPT !.pc = pc, !.version = c[1]]]
      PROVE  Inv'
  <2> DEFINE rest == [sweep[s] EXCEPT !.todo = @ \ {c}]
             w == IF source = NoText THEN rest ELSE [rest EXCEPT !.pc = pc, !.version = c[1]]
  <2>1. sweep[s] \in Sweep /\ SweepInv(sweep[s], Len(versions)) BY DEF Inv, SweepsOK
  <2>2. c \in Version \X Passage /\ c[1] \in 1..Len(versions) BY <2>1 DEF Sweep, SweepInv
  <2>3. rest \in Sweep /\ rest.todo = sweep[s].todo \ {c} /\ rest.pc = sweep[s].pc
        /\ rest.version = sweep[s].version
    BY <2>1 DEF Sweep
  <2>4. c[1] \in 0..MaxVersion BY <2>2, SkillsConstants DEF Version
  <2> HIDE DEF rest
  <2>5. LET later == [rest EXCEPT !.pc = pc, !.version = c[1]] IN
        later \in Sweep /\ later.todo = rest.todo /\ later.version = c[1]
    BY <2>3, <2>4 DEF Sweep
  <2>6. w \in Sweep BY <2>3, <2>5
  <2>7. SweepInv(w, Len(versions'))
    BY <1>1, <2>1, <2>2, <2>3, <2>5, Lengths DEF Inv, SweepInv
  <2>8. SweepsOK' BY <1>1, <1>3, <2>6, <2>7, SweepMoves DEF Inv, rest
  <2> QED BY <1>1, <2>8, RowsAndSweep DEF Compare, skillRows
<1> QED BY <1>2, <1>3 DEF Compare

\* What a sweep that works on a version may rely on.
LEMMA SweepOnVersion ==
  ASSUME Inv, NEW s \in Sweeper, sweep[s].pc \in {"resolve", "select", "insert"}
  PROVE  sweep[s] \in Sweep /\ sweep[s].version \in 1..Len(versions)
BY DEF Inv, SweepsOK, SweepInv

LEMMA MarkResolvedStep == ASSUME Inv, NEW s \in Sweeper, MarkResolved(s) PROVE Inv'
<1>1. RowsGrow BY SweepOnVersion, FlagSet DEF MarkResolved
<1>2. SweepsOK' BY <1>1, NextCandidateStep DEF Inv, MarkResolved
<1> QED BY <1>1, <1>2, RowsAndSweep DEF MarkResolved

LEMMA SelectStaleStep == ASSUME Inv, NEW s \in Sweeper, SelectStale(s) PROVE Inv'
<1>1. RowsGrow BY RowsStay DEF Inv, SelectStale, skillRows
<1>2. CASE NextCandidate(s)
  <2>1. SweepsOK' BY <1>1, <1>2, NextCandidateStep DEF Inv
  <2> QED BY <1>1, <2>1, RowsAndSweep DEF SelectStale, skillRows
<1>3. CASE SweepGoes(s, "insert")
  <2> DEFINE w == [sweep[s] EXCEPT !.pc = "insert"]
  <2>1. sweep[s] \in Sweep /\ SweepInv(sweep[s], Len(versions)) /\ sweep[s].version \in 1..Len(versions)
    BY SweepOnVersion DEF Inv, SweepsOK, SelectStale
  <2>2. w \in Sweep /\ w.todo = sweep[s].todo /\ w.version = sweep[s].version
    BY <2>1 DEF Sweep
  <2>3. SweepInv(w, Len(versions')) BY <1>1, <2>1, <2>2, Lengths DEF Inv, SweepInv
  <2>4. sweep' = [sweep EXCEPT ![s] = w] BY <1>3 DEF SweepGoes
  <2>5. SweepsOK' BY <1>1, <2>2, <2>3, <2>4, SweepMoves DEF Inv
  <2> QED BY <1>1, <2>5, RowsAndSweep DEF SelectStale, skillRows
<1> QED BY <1>2, <1>3 DEF SelectStale

LEMMA InsertStaleStep == ASSUME Inv, NEW s \in Sweeper, InsertStale(s) PROVE Inv'
<1>1. CASE EndSweep(s) /\ UNCHANGED versions
  <2>1. RowsGrow BY <1>1, RowsStay DEF Inv
  <2>2. SweepsOK' BY <1>1, <2>1, SweepEnds DEF Inv
  <2> QED BY <2>1, <2>2, RowsAndSweep DEF InsertStale
<1>2. CASE versions' = [versions EXCEPT ![sweep[s].version].stale = TRUE] /\ NextCandidate(s)
  <2>1. RowsGrow BY <1>2, SweepOnVersion, FlagSet DEF InsertStale
  <2>2. SweepsOK' BY <1>2, <2>1, NextCandidateStep DEF Inv
  <2> QED BY <2>1, <2>2, RowsAndSweep DEF InsertStale
<1> QED BY <1>1, <1>2 DEF InsertStale

LEMMA StumbleStep == ASSUME Inv, NEW s \in Sweeper, Stumble(s) PROVE Inv'
<1>1. RowsGrow BY RowsStay DEF Inv, Stumble, skillRows
<1>2. SweepsOK' BY <1>1, SweepEnds DEF Inv, Stumble
<1> QED BY <1>1, <1>2, RowsAndSweep DEF Stumble, skillRows

LEMMA InvStep == Inv /\ [Next]_vars => Inv'
<1> SUFFICES ASSUME Inv, [Next]_vars PROVE Inv' OBVIOUS
<1>1. CASE EditSource BY <1>1, EditSourceStep
<1>2. ASSUME NEW r \in Req, Asks(r) PROVE Inv'
  BY <1>2, MintStep, LoadStep DEF Asks, OnVersion
<1>3. ASSUME NEW r \in Req, Serves(r) PROVE Inv'
  BY <1>3, PersistDraftStep, PersistRevisionStep, CheckStaleStep, RefreshStep,
     MaterializeExplainerStep, CaptureStep, ReadSourceStep, DeleteProvenanceStep,
     InsertProvenanceStep, LoadKeyStep, InsertKeyStep DEF Serves
<1>4. ASSUME NEW s \in Sweeper, Sweeps(s) \/ Stumble(s) PROVE Inv'
  BY <1>4, StartSweepStep, CompareStep, MarkResolvedStep, SelectStaleStep, InsertStaleStep,
     StumbleStep DEF Sweeps
<1>5. CASE UNCHANGED vars
  <2>1. RowsGrow BY <1>5, RowsStay DEF Inv, vars, skillRows
  <2>2. Requests' /\ SweepsOK' BY <1>5, <2>1, RequestsStay, SweepsStay DEF Inv, vars
  <2>3. Bundles' BY <1>5, BundlesStay DEF Inv, vars, skillRows
  <2> QED BY <1>5, <2>1, <2>2, <2>3 DEF Inv, Rest, RowsGrow, vars
<1> QED BY <1>1, <1>2, <1>3, <1>4, <1>5 DEF Next

LEMMA Invariant == Spec => []Inv
BY InitStep, InvStep, PTL DEF Spec

(***************************************************************************)
(* What is published stays: every step only adds or updates rows, a key    *)
(* is stored once, and a bundle cannot be called back                      *)
(***************************************************************************)
LEMMA ExplainerSet ==
  ASSUME Inv, NEW v \in 1..Len(versions), NEW explainer \in Explainer,
         versions' = [versions EXCEPT ![v].explainer = explainer]
  PROVE  RowsGrow
<1> DEFINE row == [versions[v] EXCEPT !.explainer = explainer]
<1>1. versions[v] \in Row BY ElementOfSeq DEF Inv, Rows
<1>2. row \in Row /\ row.base = versions[v].base BY <1>1 DEF Row
<1>3. versions' = [versions EXCEPT ![v] = row] OBVIOUS
<1> QED BY <1>2, <1>3, RowUpdated DEF Inv

\* A version that follows the one the request works on, its number being free.
LEMMA VersionFollows ==
  ASSUME Inv, NEW r \in Req, req[r].pc \in OnVersion, ~NumberTaken(req[r].version),
         NEW explainer \in Explainer, NEW text \in Passage \cup {NoText},
         Len(versions) < MaxVersion,
         versions' = Append(versions, NewRow(req[r].version, explainer, text))
  PROVE  RowsGrow
<1> DEFINE row == NewRow(req[r].version, explainer, text)
<1>1. req[r].version \in 1..Len(versions) BY OnItsVersion
<1>2. Len(versions) \in Nat BY LenProperties DEF Inv, Rows
<1>3. req[r].version = Len(versions) BY <1>1, <1>2 DEF NumberTaken
<1>4. row \in Row /\ row.base = Len(versions)
  BY <1>2, <1>3, SkillsConstants DEF NewRow, Row
<1> QED BY <1>4, RowAdded DEF Inv

LEMMA AsksRows == ASSUME Inv, NEW r \in Req, Asks(r) PROVE RowsGrow
BY RowsStay DEF Inv, Asks, Mint, Load, skillRows

LEMMA RevisionRows == ASSUME Inv, NEW r \in Req, PersistRevision(r) PROVE RowsGrow
<1>1. req[r].pc \in OnVersion BY DEF PersistRevision, At, OnVersion
<1>2. versions[req[r].version].provenance \in Passage \cup {NoText} BY <1>1, OnItsVersion DEF Row
<1>3. Absent \in Explainer BY DEF Explainer
<1>4. CASE NumberTaken(req[r].version) BY <1>4, RowsStay DEF Inv, PersistRevision
<1>5. CASE ~NumberTaken(req[r].version)
  BY <1>1, <1>2, <1>3, <1>5, VersionFollows DEF PersistRevision
<1> QED BY <1>4, <1>5

LEMMA RefreshRows == ASSUME Inv, NEW r \in Req, Refresh(r) PROVE RowsGrow
<1> DEFINE base == req[r].version
<1>1. req[r].pc \in OnVersion BY DEF Refresh, At, OnVersion
<1>2. req[r].explainer \in Explainer /\ base \in 1..Len(versions)
  BY <1>1, OnItsVersion DEF Request
<1>3. CASE UNCHANGED versions BY <1>3, RowsStay DEF Inv
<1>4. CASE /\ ~NumberTaken(base) /\ base < MaxVersion
           /\ versions' = Append(versions, NewRow(base, req[r].explainer, NoText))
  <2>1. Len(versions) < MaxVersion
    BY <1>2, <1>4, LenProperties DEF NumberTaken, Inv, Rows
  <2> QED BY <1>1, <1>2, <1>4, <2>1, VersionFollows
<1> QED BY <1>3, <1>4 DEF Refresh

LEMMA MaterializeExplainerRows ==
  ASSUME Inv, NEW r \in Req, MaterializeExplainer(r) PROVE RowsGrow
<1>1. req[r].pc \in OnVersion BY DEF MaterializeExplainer, At, OnVersion
<1>2. CASE UNCHANGED versions BY <1>2, RowsStay DEF Inv
<1>3. ASSUME NEW explainer \in {r, Null},
             versions' = [versions EXCEPT ![req[r].version].explainer = explainer]
      PROVE  RowsGrow
  BY <1>1, <1>3, OnItsVersion, ExplainerSet DEF Explainer
<1> QED BY <1>2, <1>3 DEF MaterializeExplainer

LEMMA ProvenanceRows ==
  ASSUME Inv, NEW r \in Req, DeleteProvenance(r) \/ InsertProvenance(r) PROVE RowsGrow
<1>1. req[r].pc \in OnVersion BY DEF DeleteProvenance, InsertProvenance, At, OnVersion
<1>2. req[r].text \in Passage \cup {NoText} BY <1>1, OnItsVersion DEF Request
<1>3. CASE UNCHANGED versions BY <1>3, RowsStay DEF Inv
<1>4. CASE versions # versions'
  BY <1>1, <1>2, <1>4, OnItsVersion, ProvenanceSet DEF DeleteProvenance, InsertProvenance
<1> QED BY <1>3, <1>4

LEMMA DraftRows == ASSUME Inv, NEW r \in Req, PersistDraft(r) PROVE Len(versions) <= Len(versions')
<1>1. CASE versions = <<>> BY <1>1 DEF PersistDraft
<1>2. CASE versions # <<>> BY <1>2, LenProperties DEF Inv, Rows, PersistDraft
<1> QED BY <1>1, <1>2

LEMMA SweepsRows == ASSUME Inv, NEW s \in Sweeper, Sweeps(s) \/ Stumble(s) PROVE RowsGrow
<1>1. CASE StartSweep(s) \/ Compare(s) \/ SelectStale(s) \/ Stumble(s)
  BY <1>1, RowsStay DEF Inv, StartSweep, Compare, SelectStale, Stumble, skillRows
<1>2. CASE MarkResolved(s) BY <1>2, SweepOnVersion, FlagSet DEF MarkResolved
<1>3. CASE InsertStale(s)
  <2>1. CASE UNCHANGED versions BY <2>1, RowsStay DEF Inv
  <2>2. CASE versions' = [versions EXCEPT ![sweep[s].version].stale = TRUE]
    BY <1>3, <2>2, SweepOnVersion, FlagSet DEF InsertStale
  <2> QED BY <1>3, <2>1, <2>2 DEF InsertStale
<1> QED BY <1>1, <1>2, <1>3 DEF Sweeps

LEMMA NoneTakenBack == ASSUME Inv, [Next]_vars PROVE Len(versions) <= Len(versions')
<1>1. CASE EditSource \/ UNCHANGED vars
  BY <1>1, RowsStay DEF RowsGrow, Inv, EditSource, skillRows, vars
<1>2. ASSUME NEW r \in Req, Asks(r) PROVE Len(versions) <= Len(versions')
  BY <1>2, AsksRows DEF RowsGrow
<1>3. ASSUME NEW r \in Req, Serves(r) PROVE Len(versions) <= Len(versions')
  <2>1. CASE CheckStale(r) \/ Capture(r) \/ ReadSource(r) \/ LoadKey(r) \/ InsertKey(r)
    BY <2>1, RowsStay
       DEF RowsGrow, Inv, CheckStale, Capture, ReadSource, LoadKey, InsertKey, skillRows
  <2> QED
    BY <1>3, <2>1, DraftRows, RevisionRows, RefreshRows, MaterializeExplainerRows,
       ProvenanceRows DEF RowsGrow, Serves
<1>4. ASSUME NEW s \in Sweeper, Sweeps(s) \/ Stumble(s) PROVE Len(versions) <= Len(versions')
  BY <1>4, SweepsRows DEF RowsGrow
<1> QED BY <1>1, <1>2, <1>3, <1>4 DEF Next

\* A key that is stored is not replaced, and a bundle that is out stays out.
LEMMA KeyAndBundlesStay ==
  ASSUME [Next]_vars PROVE (key # NoKey => key' = key) /\ bundles \subseteq bundles'
<1> DEFINE Kept == (key # NoKey => key' = key) /\ bundles \subseteq bundles'
<1>1. CASE EditSource \/ UNCHANGED vars
  BY <1>1 DEF EditSource, skillRows, vars
<1>2. ASSUME NEW r \in Req, Asks(r) PROVE Kept
  BY <1>2 DEF Asks, Mint, Load, skillRows
<1>3. ASSUME NEW r \in Req, Serves(r) PROVE Kept
  <2>1. CASE LoadKey(r) BY <2>1 DEF LoadKey, HandsOut, skillRows
  <2>2. CASE InsertKey(r) BY <2>2 DEF InsertKey, HandsOut
  <2> QED
    BY <1>3, <2>1, <2>2 DEF Serves, PersistDraft, PersistRevision, CheckStale, Refresh,
       MaterializeExplainer, Capture, ReadSource, DeleteProvenance, InsertProvenance, skillRows
<1>4. ASSUME NEW s \in Sweeper, Sweeps(s) \/ Stumble(s) PROVE Kept
  BY <1>4 DEF Sweeps, StartSweep, Compare, MarkResolved, SelectStale, InsertStale, Stumble,
     skillRows
<1> QED BY <1>1, <1>2, <1>3, <1>4 DEF Next

LEMMA StoredStep == Inv /\ [Next]_vars => StoredStays
<1> SUFFICES ASSUME Inv, [Next]_vars PROVE StoredStays OBVIOUS
<1>1. Inv' BY InvStep
<1>2. Len(versions) \in Nat /\ Len(versions') \in Nat
  BY <1>1, LenProperties DEF Inv, Rows
<1>3. \A v \in 1..Len(versions) : versions'[v].base = versions[v].base
  BY <1>1, <1>2, NoneTakenBack DEF Inv, Rows, NoLostRevision
<1> QED BY <1>3, NoneTakenBack, KeyAndBundlesStay DEF StoredStays

(***************************************************************************)
(* The theorems                                                            *)
(***************************************************************************)
\* Rows, requests, sweeps and what was handed out keep their types.
THEOREM SkillsTypeCorrect == Spec => []TypeOK
BY Invariant, InvImplies, PTL

\* A version that a request or a sweep remembers while it waits for gbrain or a model is
\* one that exists, whatever the others write meanwhile.
VersionsExist ==
  /\ \A r \in Req : RequestInv(req[r], Len(versions))
  /\ \A s \in Sweeper : SweepInv(sweep[s], Len(versions))

THEOREM RememberedVersionsExist == Spec => []VersionsExist
<1>1. Inv => VersionsExist BY DEF Inv, Requests, SweepsOK, VersionsExist
<1> QED BY <1>1, Invariant, PTL

\* However many requests revise and refresh one version at a time, every version was
\* made from the one before it: none replaces or skips what another has written.
THEOREM RevisionsAreKept == Spec => []NoLostRevision
BY Invariant, InvImplies, PTL

\* However many first exports race, every bundle verifies with the one stored key.
THEOREM BundlesAreVerifiable == Spec => []BundlesVerify
BY Invariant, InvImplies, PTL

\* However requests, sweeps and failures interleave, no step takes a version back,
\* gives one another origin, replaces a stored key or calls a bundle back.
THEOREM PublicationsStay == Spec => PublishedStays
<1>1. Inv /\ [Next]_vars => [StoredStays]_vars BY StoredStep
<1> QED BY <1>1, Invariant, PTL DEF Spec, PublishedStays
=============================================================================
