----------------------------- MODULE SourceMirror -----------------------------
(***************************************************************************)
(* What ingestion promises of a source, whatever connector reads it: a     *)
(* document only gains versions, gbrain's copy only gains versions that    *)
(* the source has had, and a document that nobody is going to read again   *)
(* is up to date.  How a connector remembers what it still has to read (a  *)
(* time and a page cursor, a commit, an archive on disk) and what becomes  *)
(* of cycles that fail, race or die is the business of NotionPull and      *)
(* IngestCycle, which both implement this specification.                   *)
(***************************************************************************)

CONSTANTS Doc,      \* what is read as a whole: a page, or a connection's source
          Version   \* what a document may contain, over time

VARIABLES content,  \* the versions that each document has had
          copy,     \* those that gbrain has taken, or something newer than them
          owed      \* the documents that a later cycle will read again

mirrorVars == <<content, copy, owed>>

UpToDate(d) == content[d] \subseteq copy[d]

Init ==
  /\ content \in [Doc -> SUBSET Version] /\ copy \in [Doc -> SUBSET Version]
  /\ owed \subseteq Doc
  /\ \A d \in Doc : copy[d] \subseteq content[d]
  /\ \A d \in Doc \ owed : UpToDate(d)

\* The user writes a document: it has to be read again, and others may have to.
Write(d) ==
  /\ \E v \in Version \ content[d] : content' = [content EXCEPT ![d] = @ \cup {v}]
  /\ owed \cup {d} \subseteq owed' /\ owed' \subseteq Doc
  /\ UNCHANGED copy

\* gbrain takes what was read, of any documents; nothing counts as read by that.
Import ==
  /\ copy' \in [Doc -> SUBSET Version]
  /\ \A d \in Doc : copy[d] \subseteq copy'[d] /\ copy'[d] \subseteq content[d]
  /\ UNCHANGED <<content, owed>>

\* Only what gbrain has is no longer owed; a document may be owed anew.
Settle ==
  /\ owed' \subseteq Doc
  /\ \A d \in Doc \ owed' : UpToDate(d)
  /\ UNCHANGED <<content, copy>>

Next == Import \/ Settle \/ \E d \in Doc : Write(d)

Spec == Init /\ [][Next]_mirrorVars
=============================================================================
