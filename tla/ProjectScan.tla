---------------------------- MODULE ProjectScan ----------------------------
(***************************************************************************)
(* The indexer: scanProject reads the project's markdown files and makes the *)
(* rows that the console shows agree with them.  Scans are asked for by      *)
(* users, by the file watcher and by hooks (startProjectScan, which claims   *)
(* the project), and by the startup of the server, which does not claim.     *)
(* Files change, and the server crashes, between any two steps of a scan.    *)
(*                                                                         *)
(* A file is a version or Absent.  There are files of requirements and files *)
(* of tasks.  A requirement's row is found by the id in its file: fields are  *)
(* taken from what the scan parsed, the text from a second reading, and some  *)
(* of the row only its creation writes.  A task's row is written through the  *)
(* executor with the version in the key (RunOnce).  The analysis marks of a   *)
(* requirement and the other projections (plugin journal, design documents,   *)
(* drafts, rollup) are left out.                                             *)
(***************************************************************************)
EXTENDS Naturals, FiniteSets

CONSTANTS
  RequirementFiles,  \* numbered in the order of their paths
  TaskFiles,
  Versions, Absent,
  Ids, NoId,
  IdOf,        \* the requirement id a version names
  Stating,     \* the versions that state a valid status
  Scans,       \* scans that run at once
  MaxChanges,  \* bound: changes of files
  MaxMishaps   \* bound: steps that fail, and crashes

ASSUME ScanAssumption ==
  /\ RequirementFiles \intersect TaskFiles = {} /\ Absent \notin Versions
  /\ RequirementFiles \subseteq Nat /\ NoId \notin Ids
  /\ IdOf \in [Versions -> Ids \union {NoId}] /\ Stating \subseteq Versions
  /\ MaxChanges \in Nat /\ MaxMishaps \in Nat

Files == RequirementFiles \union TaskFiles
Contents == Versions \union {Absent}

VARIABLES
  disk,
  documents,     \* rows of Document
  requirements,  \* rows of Requirement, each part by the version it is from
  taskRows,      \* rows of Task
  rowId,         \* how often the row of a task's file in Document was created
  applied,       \* the keys whose upsert the executor keeps
  syncStatus,
  modified,      \* a file in docs/ is newer than lastScanAt
  noticed,       \* a timer of the watcher or of the hooks is running
  startup,       \* the startup's own check is still to come
  scan,          \* each scan's step and what it holds
  settled,       \* the last scan ran alone and no file has changed since it began
  changes, mishaps

scanVars == <<disk, documents, requirements, taskRows, rowId, applied,
              syncStatus, modified, noticed, startup, scan, settled, changes, mishaps>>
rows == <<documents, requirements, taskRows, rowId, applied>>
TaskKeys == TaskFiles \X Versions \X Nat

Steps == {"read", "remove", "documents", "texts", "requirements", "tasks"}
Unread == [f \in Files |-> Absent]
Requirement == [fields : Contents, text : Contents, status : Contents,
                origin : Contents]  \* source and createdAt
NoRequirement ==
  [fields |-> Absent, text |-> Absent, status |-> Absent, origin |-> Absent]
NoText == [f \in RequirementFiles |-> Absent]
NoScan == [at |-> "none", todo |-> {}, found |-> Unread, text |-> NoText,
           keys |-> {}, alone |-> FALSE]

ScanTypeOK ==
  /\ disk \in [Files -> Contents] /\ documents \in [Files -> Contents]
  /\ requirements \in [Ids -> Requirement]
  /\ taskRows \in [TaskFiles -> Contents]
  /\ rowId \in [TaskFiles -> Nat] /\ applied \subseteq TaskKeys
  /\ syncStatus \in {"idle", "scanning", "failed"}
  /\ {modified, noticed, startup, settled} \subseteq BOOLEAN
  /\ scan \in [Scans -> [at : Steps \union {"none"}, todo : SUBSET Files,
                         found : [Files -> Contents],
                         text : [RequirementFiles -> Contents],
                         keys : SUBSET TaskKeys, alone : BOOLEAN]]
  /\ changes \in 0..MaxChanges /\ mishaps \in 0..MaxMishaps

Runs(s) == scan[s].at # "none"
Alone == \A s \in Scans : ~Runs(s)
Mishap == mishaps < MaxMishaps /\ mishaps' = mishaps + 1
NoMishap == UNCHANGED mishaps
Present(where) == {f \in DOMAIN where : where[f] # Absent}

ScanInit ==
  /\ disk \in [Files -> Contents] /\ documents = Unread
  /\ requirements = [i \in Ids |-> NoRequirement]
  /\ taskRows = [f \in TaskFiles |-> Absent] /\ applied = {}
  /\ rowId = [f \in TaskFiles |-> 0]
  /\ syncStatus = "idle" /\ modified = TRUE  \* lastScanAt is null
  /\ noticed = FALSE /\ startup = FALSE
  /\ scan = [s \in Scans |-> NoScan] /\ settled = FALSE
  /\ changes = 0 /\ mishaps = 0

(***************************************************************************)
(* Asking for a scan.                                                      *)
(***************************************************************************)
\* collectMarkdownFiles: what is there now is what will be read.
BeginScan ==
  /\ \E s \in Scans : ~Runs(s)
  /\ LET new == CHOOSE s \in Scans : ~Runs(s)
     IN scan' = [s \in Scans |->
          IF s = new THEN [NoScan EXCEPT !.at = "read", !.todo = Present(disk),
                                         !.alone = Alone]
          ELSE [scan[s] EXCEPT !.alone = FALSE]]
  /\ settled' = FALSE
AsksNobody == UNCHANGED <<disk, rows, modified, changes>>

\* Mutant of Request: the project is claimed whatever its status.
RequestUnclaimed == syncStatus' = "scanning" /\ BeginScan /\ UNCHANGED mishaps

\* startProjectScan; a project that is being scanned is left alone.
Request ==
  /\ IF syncStatus = "scanning"
       THEN UNCHANGED <<syncStatus, scan, settled>>
       ELSE syncStatus' = "scanning" /\ BeginScan
  /\ UNCHANGED mishaps

RequestScan == Request /\ AsksNobody /\ UNCHANGED <<noticed, startup>>

\* A timer of the watcher, or of queueProjectScan, has run down.
NoticeFires == noticed /\ noticed' = FALSE /\ Request /\ AsksNobody
               /\ UNCHANGED startup

\* The project was claimed and its job cannot be created.
ClaimFails == /\ syncStatus # "scanning" /\ syncStatus' = "scanning" /\ Mishap
              /\ AsksNobody /\ UNCHANGED <<noticed, startup, scan, settled>>

\* shouldScanProjectOnStartup: scanProject is called without a claim.
StartupCheck ==
  /\ startup /\ startup' = FALSE
  /\ IF modified THEN syncStatus' = "scanning" /\ BeginScan
                 ELSE UNCHANGED <<syncStatus, scan, settled>>
  /\ AsksNobody /\ UNCHANGED <<noticed, mishaps>>

(***************************************************************************)
(* scanProject.                                                            *)
(***************************************************************************)
\* Scan s goes on at step at, with the files todo and what it found.
ScanGoes(s, at, todo, found) ==
  scan' = [scan EXCEPT ![s] = [@ EXCEPT !.at = at, !.todo = todo, !.found = found]]
Ticks(s, f) == ScanGoes(s, scan[s].at, scan[s].todo \ {f}, scan[s].found)
AllDone(s, at) == scan[s].at = at /\ scan[s].todo = {} /\ scan[s].keys = {}
ScanKeeps == UNCHANGED <<disk, syncStatus, noticed, startup, settled, changes>>

\* The failure is recorded, whatever step it was.
ScanFails(s) ==
  /\ Runs(s) /\ syncStatus' = "failed" /\ scan' = [scan EXCEPT ![s] = NoScan]
  /\ settled' = FALSE
  /\ UNCHANGED <<disk, rows, modified, noticed, startup, changes>>
StepFails(s) == ScanFails(s) /\ Mishap

ReadFile(s, f) ==
  /\ scan[s].at = "read" /\ f \in scan[s].todo /\ disk[f] # Absent
  /\ ScanGoes(s, "read", scan[s].todo \ {f}, [scan[s].found EXCEPT ![f] = disk[f]])
  /\ ScanKeeps /\ UNCHANGED <<rows, modified, mishaps>>

\* A file that was listed is gone: readFile throws.
ReadFails(s, f) ==
  /\ scan[s].at = "read" /\ f \in scan[s].todo /\ disk[f] = Absent
  /\ ScanFails(s) /\ NoMishap

\* writeDocumentMapArtifacts writes into docs/ too.
WriteMap(s) ==
  /\ AllDone(s, "read") /\ ScanGoes(s, "remove", {}, scan[s].found)
  /\ modified' = TRUE
  /\ ScanKeeps /\ UNCHANGED <<rows, mishaps>>

\* Mutant of RemoveDocuments: nothing is removed when nothing was found.
RemoveUnlessEmpty(s) ==
  /\ scan[s].at = "remove"
  /\ documents' = [f \in Files |->
       IF scan[s].found[f] = Absent /\ scan[s].found # Unread
         THEN Absent ELSE documents[f]]
  /\ ScanGoes(s, "documents", Present(scan[s].found), scan[s].found)
  /\ ScanKeeps
  /\ UNCHANGED <<requirements, taskRows, rowId, applied, modified, mishaps>>

RemoveDocuments(s) ==
  /\ scan[s].at = "remove"
  /\ documents' = [f \in Files |->
                     IF scan[s].found[f] = Absent THEN Absent ELSE documents[f]]
  /\ ScanGoes(s, "documents", Present(scan[s].found), scan[s].found)
  /\ ScanKeeps
  /\ UNCHANGED <<requirements, taskRows, rowId, applied, modified, mishaps>>

UpsertDocument(s, f) ==
  /\ scan[s].at = "documents" /\ f \in scan[s].todo
  /\ documents' = [documents EXCEPT ![f] = scan[s].found[f]] /\ Ticks(s, f)
  /\ rowId' = [g \in TaskFiles |->
                 IF g = f /\ documents[f] = Absent THEN rowId[g] + 1 ELSE rowId[g]]
  /\ ScanKeeps /\ UNCHANGED <<requirements, taskRows, applied, modified, mishaps>>

DocumentsDone(s) ==
  /\ AllDone(s, "documents")
  /\ ScanGoes(s, "texts", RequirementFiles \intersect Present(scan[s].found),
              scan[s].found)
  /\ ScanKeeps /\ UNCHANGED <<rows, modified, mishaps>>

\* syncRequirementsFromMarkdown reads each file again; one that is gone has no
\* text.
ReadText(s, f) ==
  /\ scan[s].at = "texts" /\ f \in scan[s].todo
  /\ scan' = [scan EXCEPT ![s].text[f] = disk[f], ![s].todo = @ \ {f}]
  /\ ScanKeeps /\ UNCHANGED <<rows, modified, mishaps>>

TextsRead(s) ==
  /\ AllDone(s, "texts")
  /\ ScanGoes(s, "requirements", RequirementFiles \intersect Present(scan[s].found),
              scan[s].found)
  /\ ScanKeeps /\ UNCHANGED <<rows, modified, mishaps>>

\* The id in a file; a file without an id, or with the id of a file before it
\* in the order of paths, gets no row (missing_id, duplicate_id).
NamedIn(where, f) == IF where[f] = Absent THEN NoId ELSE IdOf[where[f]]
HasRow(where, f) ==
  /\ NamedIn(where, f) # NoId
  /\ \A g \in RequirementFiles : g < f => NamedIn(where, g) # NamedIn(where, f)

\* Mutant of UpsertRequirement: a row that is there is left as it is.
CreateRequirement(s, f) ==
  LET found == scan[s].found
      id == NamedIn(found, f)
  IN  /\ scan[s].at = "requirements" /\ f \in scan[s].todo
      /\ requirements' = IF ~HasRow(found, f) \/ requirements[id] # NoRequirement
           THEN requirements
           ELSE [requirements EXCEPT ![id] =
                  [fields |-> found[f], text |-> scan[s].text[f],
                   status |-> found[f], origin |-> found[f]]]
      /\ Ticks(s, f) /\ ScanKeeps
      /\ UNCHANGED <<documents, taskRows, rowId, applied, modified, mishaps>>

\* An update leaves the origin, and the status if the file states none.
UpsertRequirement(s, f) ==
  LET found == scan[s].found
      id == NamedIn(found, f)
      old == requirements[id]
  IN  /\ scan[s].at = "requirements" /\ f \in scan[s].todo
      /\ requirements' = IF ~HasRow(found, f) THEN requirements
           ELSE [requirements EXCEPT ![id] =
                  [fields |-> found[f], text |-> scan[s].text[f],
                   status |-> IF old = NoRequirement \/ found[f] \in Stating
                                THEN found[f] ELSE old.status,
                   origin |-> IF old = NoRequirement THEN found[f] ELSE old.origin]]
      /\ Ticks(s, f) /\ ScanKeeps
      /\ UNCHANGED <<documents, taskRows, rowId, applied, modified, mishaps>>

\* Mutant of DeriveTasks: files whose row was removed are derived from too.
DeriveGoneTasks(s) ==
  /\ AllDone(s, "requirements")
  /\ scan' = [scan EXCEPT ![s] = [@ EXCEPT !.at = "tasks", !.found = Unread,
       !.text = NoText,
       !.keys = {<<f, documents[f], rowId[f]>> : f \in TaskFiles}]]
  /\ ScanKeeps /\ UNCHANGED <<rows, modified, mishaps>>

\* The tasks are derived from the rows of Document, not from what was parsed;
\* what a task's row will hold, the row's own id included, makes its key.
DeriveTasks(s) ==
  /\ AllDone(s, "requirements")
  /\ scan' = [scan EXCEPT ![s] = [@ EXCEPT !.at = "tasks", !.found = Unread,
       !.text = NoText,
       !.keys = {<<f, documents[f], rowId[f]>> :
                   f \in TaskFiles \intersect Present(documents)}]]
  /\ ScanKeeps /\ UNCHANGED <<rows, modified, mishaps>>

\* upsertTaskProjectionAsync: what the executor keeps is not done again.
UpsertTask(s) == \E key \in scan[s].keys :
  /\ scan' = [scan EXCEPT ![s].keys = @ \ {key}]
  /\ IF key \in applied
       THEN UNCHANGED <<taskRows, applied, mishaps>>
       ELSE /\ taskRows' = [taskRows EXCEPT ![key[1]] = key[2]]
            /\ \/ applied' = applied \union {key} /\ NoMishap
               \/ UNCHANGED applied /\ Mishap
  /\ ScanKeeps /\ UNCHANGED <<documents, requirements, rowId, modified>>

\* mark_project_scan_idle
FinishScan(s) ==
  /\ AllDone(s, "tasks") /\ scan' = [scan EXCEPT ![s] = NoScan]
  /\ syncStatus' = "idle" /\ modified' = FALSE /\ settled' = scan[s].alone
  /\ UNCHANGED <<disk, rows, noticed, startup, changes, mishaps>>

(***************************************************************************)
(* Files and the server.                                                   *)
(***************************************************************************)
\* The watcher sees what happens after the startup; a file that is gone is not
\* newer than anything.
FileChanges(f, c) ==
  /\ changes < MaxChanges /\ changes' = changes + 1
  /\ c # disk[f] /\ disk' = [disk EXCEPT ![f] = c]
  /\ modified' = (modified \/ c # Absent) /\ noticed' = (noticed \/ ~startup)
  /\ settled' = FALSE
  /\ scan' = [s \in Scans |-> [scan[s] EXCEPT !.alone = FALSE]]
  /\ UNCHANGED <<rows, syncStatus, startup, mishaps>>

CrashServer ==
  /\ Mishap /\ scan' = [s \in Scans |-> NoScan]
  /\ noticed' = FALSE /\ startup' = TRUE /\ settled' = FALSE
  /\ UNCHANGED <<disk, rows, syncStatus, modified, changes>>

ScanStep(s) ==
  \/ \E f \in Files : \/ ReadFile(s, f) \/ ReadFails(s, f) \/ UpsertDocument(s, f)
  \/ \E f \in RequirementFiles : ReadText(s, f) \/ UpsertRequirement(s, f)
  \/ UpsertTask(s)
  \/ WriteMap(s) \/ RemoveDocuments(s) \/ DocumentsDone(s) \/ TextsRead(s)
  \/ DeriveTasks(s)
  \/ FinishScan(s) \/ StepFails(s)

ScanNext ==
  \/ RequestScan \/ NoticeFires \/ ClaimFails \/ StartupCheck
  \/ \E s \in Scans : ScanStep(s)
  \/ \E f \in Files, c \in Contents : FileChanges(f, c)
  \/ CrashServer

ScanSpec == ScanInit /\ [][ScanNext]_scanVars

(***************************************************************************)
(* Properties.                                                             *)
(***************************************************************************)
\* What a scan owes the file f of a requirement: its row has the fields and the
\* text of the file, and the status, if the file states one.
RowAgrees(f) ==
  LET row == requirements[NamedIn(disk, f)]
  IN  /\ row.fields = disk[f] /\ row.text = disk[f]
      /\ disk[f] \in Stating => row.status = disk[f]
RowsAgree == /\ documents = disk
             /\ \A f \in RequirementFiles : HasRow(disk, f) => RowAgrees(f)

\* A scan that ran alone, on files that did not change meanwhile, has left the
\* rows of Document as the files are, and those of Requirement in all that an
\* update writes, whatever earlier scans left half done and under whatever file
\* the id was found before (the removal, the upserts and the second reading).
CleanScanAgrees == settled => RowsAgree

\* The claim and the startup's scan, which has none, together let two scans of a
\* project run at once and never three, in whatever order they end; until the
\* startup has checked there is one (startProjectScan, StartupProjectScanService).
NeverThreeScans == LET running == {s \in Scans : Runs(s)} IN
  Cardinality(running) <= IF startup THEN 1 ELSE 2

\* Once the files rest and scans go on ending, the rows of Document, and those
\* of Requirement in what an update writes, come to agree with the files and stay
\* so, although overlapping scans wrote what they had read before (scanProject).
RowsHeal ==
  (<>[][FALSE]_disk /\ []<><<\E s \in Scans : FinishScan(s)>>_scanVars) => <>[]RowsAgree
=============================================================================
