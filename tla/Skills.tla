-------------------------------- MODULE Skills --------------------------------
(***************************************************************************)
(* One skill that cites one document: how it is minted, revised and        *)
(* exported (routes/skills/mint.ts, skills/provenance.ts,                  *)
(* skills/signing.ts), and how sweeps flag the versions whose cited text   *)
(* has changed (queue/skill-staleness-worker.ts).                          *)
(*                                                                         *)
(* Requests read the latest version, wait for a language model or for      *)
(* gbrain, and write what they derived from it; only a transaction is one  *)
(* step.  Version numbers are positions in the list: a new version bumps   *)
(* the number of the version it was made from, and the pair of skill and   *)
(* number is unique.                                                       *)
(***************************************************************************)
EXTENDS Integers, Sequences, FiniteSets

CONSTANTS Req,        \* requests of users, each made once
          Sweeper,    \* workers of the sweep queue
          Text,       \* what the cited document may say
          Passage,    \* what may be captured of it
          Excerpt,    \* of each text: its first MAX_PROVENANCE_EXCERPT_CHARS characters
          Shown,      \* of each text: the passages within its excerpt
          Contained,  \* of each text: all its passages
          NoText,     \* the document is gone, or nothing was captured
          NoKey,      \* no signing key
          Absent,     \* the frontmatter has no explainer
          Null,       \* the explainer is null: the model gave none
          MaxVersion, \* bound: versions of the skill
          MaxEdits    \* bound: changes of the document

ASSUME SkillsConstants ==
  /\ MaxVersion \in Nat \ {0} /\ MaxEdits \in Nat
  /\ Excerpt \in [Text -> Passage]
  /\ Shown \in [Text -> SUBSET Passage] /\ Contained \in [Text -> SUBSET Passage]
  /\ \A t \in Text : Excerpt[t] \in Shown[t] /\ Shown[t] \subseteq Contained[t]
  /\ NoText \notin Text \cup Passage /\ NoKey \notin Req
  /\ Absent \notin Req /\ Null \notin Req /\ Absent # Null

VARIABLES
  source,   \* the text gbrain has for the cited document
  edits,
  versions, \* skill_versions, with their provenance and whether an open row flags them
  key,      \* workspace_signing_keys
  bundles,  \* what has been handed out
  req,
  sweep

skillRows == <<versions, key>>
vars == <<source, edits, skillRows, bundles, req, sweep>>

Version == 1..MaxVersion
Explainer == Req \cup {Absent, Null}

Row == [base : 0..MaxVersion, explainer : Explainer, provenance : Passage \cup {NoText},
        stale : BOOLEAN]
Bundle == [version : Version, explainer : Explainer, key : Req]
Request == [pc : {"new", "over", "persist", "revise", "check", "refresh", "explain",
                  "capture", "read", "delete", "insert", "key", "insertKey"},
            version : 0..MaxVersion, explainer : Explainer, text : Passage \cup {NoText}]
Sweep == [pc : {"idle", "next", "resolve", "select", "insert"},
          todo : SUBSET (Version \X Passage), version : 0..MaxVersion]

\* The types of the rows, of the requests and of the sweeps.
TypeOK ==
  /\ source \in Text \cup {NoText}
  /\ edits \in 0..MaxEdits
  /\ versions \in Seq(Row) /\ Len(versions) <= MaxVersion
  /\ key \in Req \cup {NoKey}
  /\ bundles \subseteq Bundle
  /\ req \in [Req -> Request]
  /\ sweep \in [Sweeper -> Sweep]

NoRequest == [pc |-> "new", version |-> 0, explainer |-> Absent, text |-> NoText]
Over == [NoRequest EXCEPT !.pc = "over"]
NoSweep == [pc |-> "idle", todo |-> {}, version |-> 0]

NewRow(base, explainer, provenance) ==
  [base |-> base, explainer |-> explainer, provenance |-> provenance, stale |-> FALSE]

\* There is no skill yet, or one that was minted before.
Init ==
  /\ source \in Text
  /\ edits = 0
  /\ versions \in {<<>>} \cup {<<NewRow(0, Absent, passage)>> : passage \in Passage}
  /\ key = NoKey
  /\ bundles = {}
  /\ req = [r \in Req |-> NoRequest]
  /\ sweep = [s \in Sweeper |-> NoSweep]

\* The document is edited, deleted or written again.
EditSource ==
  /\ edits < MaxEdits /\ edits' = edits + 1
  /\ source' \in (Text \cup {NoText}) \ {source}
  /\ UNCHANGED <<skillRows, bundles, req, sweep>>

-----------------------------------------------------------------------------
At(r, pc) == req[r].pc = pc
Goes(r, pc) == req' = [req EXCEPT ![r].pc = pc]
Ends(r) == req' = [req EXCEPT ![r] = Over]

\* bumpPatch, against the unique index of skill and version.
NumberTaken(base) == base + 1 <= Len(versions)

\* loadLatestVersion: the request keeps the row as it was.
Loaded(pc) == [NoRequest EXCEPT !.pc = pc, !.version = Len(versions),
                                !.explainer = versions[Len(versions)].explainer]

Load(r, pc) ==
  /\ At(r, "new") /\ versions # <<>>
  /\ req' = [req EXCEPT ![r] = Loaded(pc)]
  /\ UNCHANGED <<source, edits, skillRows, bundles, sweep>>

\* POST /: the cited passage is looked up in the whole document, or is its beginning;
\* then the model writes the draft.
Mint(r) ==
  /\ At(r, "new") /\ source # NoText
  /\ \E passage \in Contained[source] :
       req' = [req EXCEPT ![r].pc = "persist", ![r].text = passage]
  /\ UNCHANGED <<source, edits, skillRows, bundles, sweep>>

\* The name of the skill is unique.
PersistDraft(r) ==
  /\ At(r, "persist")
  /\ versions' = IF versions = <<>> THEN <<NewRow(0, Absent, req[r].text)>> ELSE versions
  /\ Ends(r)
  /\ UNCHANGED <<source, edits, key, bundles, sweep>>

PersistOnTop(r) ==   \* mutant: the number follows the latest version, not the one revised
  /\ At(r, "revise") /\ Len(versions) < MaxVersion
  /\ LET base == req[r].version IN
     versions' = Append(versions, NewRow(base, Absent, versions[base].provenance))
  /\ Ends(r)
  /\ UNCHANGED <<source, edits, key, bundles, sweep>>

\* The provenance is copied from the version that was revised.
PersistRevision(r) ==
  /\ At(r, "revise") /\ Len(versions) < MaxVersion
  /\ LET base == req[r].version IN
     versions' = IF NumberTaken(base) THEN versions
                 ELSE Append(versions, NewRow(base, Absent, versions[base].provenance))
  /\ Ends(r)
  /\ UNCHANGED <<source, edits, key, bundles, sweep>>

-----------------------------------------------------------------------------
\* Exports and shares.

CheckStale(r) ==
  /\ At(r, "check")
  /\ Goes(r, IF versions[req[r].version].stale THEN "refresh" ELSE "explain")
  /\ UNCHANGED <<source, edits, skillRows, bundles, sweep>>

\* refreshStaleVersionForExport: a new version with the old body, or whatever is
\* the latest when somebody else was faster.
Refresh(r) ==
  /\ At(r, "refresh")
  /\ LET base == req[r].version IN
     \/ /\ ~versions[base].stale
        /\ Goes(r, "explain") /\ UNCHANGED versions
     \/ /\ versions[base].stale /\ NumberTaken(base)
        /\ req' = [req EXCEPT ![r] = Loaded("explain")] /\ UNCHANGED versions
     \/ /\ versions[base].stale /\ ~NumberTaken(base) /\ base < MaxVersion
        /\ versions' = Append(versions, NewRow(base, req[r].explainer, NoText))
        /\ req' = [req EXCEPT ![r].pc = "explain", ![r].version = base + 1]
  /\ UNCHANGED <<source, edits, key, bundles, sweep>>

\* materializeExplainer looks at the row it loaded and writes into the stored one.
MaterializeExplainer(r) ==
  /\ At(r, "explain")
  /\ IF req[r].explainer # Absent
     THEN Goes(r, "capture") /\ UNCHANGED versions
     ELSE \E explainer \in {r, Null} :
            /\ versions' = [versions EXCEPT ![req[r].version].explainer = explainer]
            /\ req' = [req EXCEPT ![r].pc = "capture", ![r].explainer = explainer]
  /\ UNCHANGED <<source, edits, key, bundles, sweep>>

\* captureSkillCitationProvenance asks for captured text, then for the text of now.
Capture(r) ==
  /\ At(r, "capture")
  /\ Goes(r, IF versions[req[r].version].provenance = NoText THEN "read" ELSE "key")
  /\ UNCHANGED <<source, edits, skillRows, bundles, sweep>>

ReadSource(r) ==
  /\ At(r, "read")
  /\ IF source = NoText THEN Goes(r, "key")
     ELSE req' = [req EXCEPT ![r].pc = "delete", ![r].text = Excerpt[source]]
  /\ UNCHANGED <<source, edits, skillRows, bundles, sweep>>

DeleteProvenance(r) ==
  /\ At(r, "delete")
  /\ versions' = [versions EXCEPT ![req[r].version].provenance = NoText]
  /\ Goes(r, "insert")
  /\ UNCHANGED <<source, edits, key, bundles, sweep>>

\* The unique index of version and citation turns a second insert into a 500.
InsertProvenance(r) ==
  /\ At(r, "insert")
  /\ IF versions[req[r].version].provenance # NoText
     THEN Ends(r) /\ UNCHANGED versions
     ELSE /\ versions' = [versions EXCEPT ![req[r].version].provenance = req[r].text]
          /\ Goes(r, "key")
  /\ UNCHANGED <<source, edits, key, bundles, sweep>>

HandsOut(r, signedWith) ==
  /\ bundles' = bundles \cup {[version |-> req[r].version, explainer |-> req[r].explainer,
                               key |-> signedWith]}
  /\ Ends(r)

\* getOrCreateWorkspaceSigningKey
LoadKey(r) ==
  /\ At(r, "key")
  /\ \/ key # NoKey /\ HandsOut(r, key)
     \/ key = NoKey /\ Goes(r, "insertKey") /\ UNCHANGED bundles
  /\ UNCHANGED <<source, edits, skillRows, sweep>>

KeepOwnKey(r) ==   \* mutant: a request that lost the race signs with the key it made
  /\ At(r, "insertKey")
  /\ key' = IF key = NoKey THEN r ELSE key
  /\ HandsOut(r, r)
  /\ UNCHANGED <<source, edits, versions, sweep>>

\* The primary key of the table decides between two requests that made one.
InsertKey(r) ==
  /\ At(r, "insertKey")
  /\ key' = IF key = NoKey THEN r ELSE key
  /\ HandsOut(r, key')
  /\ UNCHANGED <<source, edits, versions, sweep>>

-----------------------------------------------------------------------------
\* Sweeps.

LeftJoined ==   \* mutant: versions without captured text are candidates as well
  {<<v, versions[v].provenance>> : v \in 1..Len(versions)}

LatestOnly ==   \* mutant: the versions before the latest are no longer looked at
  {<<v, versions[v].provenance>> : v \in {Len(versions)} \ {0}} \cap (Version \X Passage)

Candidates == {<<v, versions[v].provenance>> : v \in 1..Len(versions)} \cap (Version \X Passage)

StartSweep(s) ==
  /\ sweep[s].pc = "idle"
  /\ sweep' = [sweep EXCEPT ![s] = [NoSweep EXCEPT !.pc = "next", !.todo = Candidates]]
  /\ UNCHANGED <<source, edits, skillRows, bundles, req>>

EndSweep(s) == sweep' = [sweep EXCEPT ![s] = NoSweep]

\* One candidate is compared with the excerpt of now; without text it is skipped.
Compare(s) ==
  /\ sweep[s].pc = "next"
  /\ \/ sweep[s].todo = {} /\ EndSweep(s)
     \/ \E c \in sweep[s].todo :
          LET rest == [sweep[s] EXCEPT !.todo = @ \ {c}]
              pc == IF c[2] \in Shown[source] THEN "resolve" ELSE "select" IN
          sweep' = [sweep EXCEPT ![s] =
            IF source = NoText THEN rest ELSE [rest EXCEPT !.pc = pc, !.version = c[1]]]
  /\ UNCHANGED <<source, edits, skillRows, bundles, req>>

SweepGoes(s, pc) == sweep' = [sweep EXCEPT ![s].pc = pc]
NextCandidate(s) == sweep' = [sweep EXCEPT ![s].pc = "next", ![s].version = 0]

MarkResolved(s) ==
  /\ sweep[s].pc = "resolve"
  /\ versions' = [versions EXCEPT ![sweep[s].version].stale = FALSE]
  /\ NextCandidate(s)
  /\ UNCHANGED <<source, edits, key, bundles, req>>

\* upsertStale: an open row is refreshed by its id, whatever its status is by then.
SelectStale(s) ==
  /\ sweep[s].pc = "select"
  /\ IF versions[sweep[s].version].stale THEN NextCandidate(s) ELSE SweepGoes(s, "insert")
  /\ UNCHANGED <<source, edits, skillRows, bundles, req>>

\* The unique index of open rows makes the slower of two sweeps fail as a whole.
InsertStale(s) ==
  /\ sweep[s].pc = "insert"
  /\ LET v == sweep[s].version IN
     IF versions[v].stale THEN EndSweep(s) /\ UNCHANGED versions
     ELSE versions' = [versions EXCEPT ![v].stale = TRUE] /\ NextCandidate(s)
  /\ UNCHANGED <<source, edits, key, bundles, req>>

-----------------------------------------------------------------------------
\* gbrain, the database or the process fails a sweep, at a candidate of this workspace or of
\* another one: the loop over all of them has no catch.  A request that fails is one that
\* takes no further step.
Stumble(s) ==
  /\ sweep[s].pc # "idle"
  /\ EndSweep(s)
  /\ UNCHANGED <<source, edits, skillRows, bundles, req>>

Asks(r) == Mint(r) \/ Load(r, "revise") \/ Load(r, "check")
Serves(r) ==
  \/ PersistDraft(r) \/ PersistRevision(r) \/ CheckStale(r) \/ Refresh(r)
  \/ MaterializeExplainer(r) \/ Capture(r) \/ ReadSource(r) \/ DeleteProvenance(r)
  \/ InsertProvenance(r) \/ LoadKey(r) \/ InsertKey(r)
Sweeps(s) ==
  StartSweep(s) \/ Compare(s) \/ MarkResolved(s) \/ SelectStale(s) \/ InsertStale(s)

Next ==
  \/ EditSource
  \/ \E r \in Req : Asks(r) \/ Serves(r)
  \/ \E s \in Sweeper : Sweeps(s) \/ Stumble(s)

\* The job is repeated every 20 minutes; nobody has to ask for anything, and a request
\* may stop anywhere.
Fairness == \A s \in Sweeper : WF_vars(Sweeps(s))

Spec == Init /\ [][Next]_vars /\ Fairness

-----------------------------------------------------------------------------
\* Properties.

\* No revision is lost: every version was made from the one before it, however many
\* revisions and refreshing exports start from the same version.
NoLostRevision == \A v \in 1..Len(versions) : versions[v].base = v - 1

\* Every bundle that was handed out verifies against the key that the workspace
\* publishes, although the first two exports may both make a key.
BundlesVerify == \A bundle \in bundles : bundle.key = key

StoredStays ==
  /\ Len(versions) <= Len(versions')
  /\ \A v \in 1..Len(versions) : versions'[v].base = versions[v].base
  /\ key # NoKey => key' = key
  /\ bundles \subseteq bundles'

\* What is published stays: no version is taken back or given another origin, and
\* the key that bundles which have left the workspace verify with is never replaced.
PublishedStays == [][StoredStays]_vars

\* The flags settle: when the document is no longer edited and every sweep ends by a step
\* of its own, a version with captured text is flagged if and only if the beginning
\* of the document does not contain that text, although sweeps overlap, fail on each
\* other's rows and compare with a text that is changed before they write, and requests
\* replace what was captured.  A passage from further on in a long document is so flagged
\* for good, whether it has changed or not.
FlagConverges ==
  (\A s \in Sweeper : <>[][Stumble(s) => Sweeps(s)]_vars) =>
    \A v \in Version :
      <>[](v <= Len(versions) /\ source # NoText /\ versions[v].provenance # NoText
             => (versions[v].stale <=> versions[v].provenance \notin Shown[source]))

\* What the documentation says: a stored version is one text.  Two bundles of the
\* same version have the same content.
VersionsAreImmutable ==
  \A a, b \in bundles : a.version = b.version => a.explainer = b.explainer
=============================================================================
