---------------------------- MODULE MCIngestCycle ----------------------------
(***************************************************************************)
(* Two cycles over one workspace with up to three connections.  A row that *)
(* was disconnected long ago is inert, so that a scenario is a choice of   *)
(* the rows in play, of the faults left and of the source versions.        *)
(***************************************************************************)
EXTENDS IngestCycle, TLC

CONSTANTS w1, w2, zip, notion, repo

Rows == {zip, notion, repo}
KindOf == [k \in Rows |-> CASE k = zip    -> "notion-zip"
                            [] k = notion -> "notion-composio"
                            [] k = repo   -> "github-repo"]

Workers == {w1, w2}
WorkerSymmetry == Permutations(Workers)

Rest(K) == \A k \in Rows \ K : status[k] = "disconnected" /\ head[k] = 1

\* A live Notion connection, edited once, and one fault.
LiveNotion == status[notion] = "pending_import" /\ Rest({notion})
              /\ head[notion] = 1 /\ faults = 0

\* An archive that the user may disconnect and replace by a live connection, or the
\* other way round.
Replacement == {status[zip], status[notion]} = {"pending_import", "absent"}
               /\ Rest({zip, notion})
               /\ head = [k \in Rows |-> 1] /\ faults = MaxFaults

\* A GitHub repository, edited once, and one fault.
Repository == status[repo] = "pending_import" /\ Rest({repo})
              /\ head[repo] = 1 /\ faults = 0

SafetyInit == Init /\ (LiveNotion \/ Replacement \/ Repository)
SafetySpec == SafetyInit /\ [][Next]_vars

LivenessInit == Init /\ (Repository \/ Replacement)
LivenessSpec == LivenessInit /\ [][Next]_vars /\ Fairness

NotionSpec == (Init /\ LiveNotion) /\ [][Next]_vars
=============================================================================
