---------------------------- MODULE MCProjectScan ----------------------------
(* The indexer in the small: two files that may name the same requirement and *)
(* the file of a task; one version of a file states a status, one does not,   *)
(* and one names no requirement.                                              *)
EXTENDS ProjectScan

IdOfVersion == [stating |-> "R", silent |-> "R", nameless |-> NoId]

\* A file comes to name no requirement only later, and what version of the
\* task's file there is at first makes no difference.
Starts ==
  /\ ScanInit
  /\ \A f \in RequirementFiles : disk[f] # "nameless"
  /\ \A f \in TaskFiles : disk[f] \in {"stating", Absent}

Spec == Starts /\ [][ScanNext]_scanVars

\* project-indexer.ts:814-816: a projection must reflect the present state of
\* the document, which is why its key changes with its content.  A scan that ran
\* alone, on files at rest and with nothing failing, has made the row of each
\* task as its file is (upsertTaskProjectionAsync).
ProjectionReflectsCanonical ==
  settled => \A f \in TaskFiles : disk[f] # Absent => taskRows[f] = disk[f]
=============================================================================
