-------------------------- MODULE ProjectScanProofs --------------------------
(***************************************************************************)
(* For any files, versions and number of scans that could run: at most two  *)
(* scans of a project run at once, and a scan that ran alone on files that   *)
(* rested leaves of each row what an update writes as the files are; for     *)
(* that, two files that get a row name different ids (RowsApart).  CountInv  *)
(* says how many scans run and how many less while the project is not        *)
(* claimed; AloneInv says, for a scan that is alone, what it holds and has   *)
(* written at each of its steps.                                             *)
(***************************************************************************)
EXTENDS ProjectScan, FiniteSetTheorems, TLAPS

running == {s \in Scans : Runs(s)}

CountInv ==
  /\ IsFiniteSet(running)
  /\ Cardinality(running) <= IF startup THEN 1 ELSE 2
  /\ syncStatus # "scanning" => Cardinality(running) <= IF startup THEN 0 ELSE 1

\* What scan q, if alone, has read of the files and written of the rows.
HasRead(q) == \A f \in Files \ q.todo : q.found[f] = disk[f]
HasDocuments(q) == q.found = disk /\ \A f \in Files \ q.todo : documents[f] = disk[f]
HasTexts(q) == /\ q.found = disk /\ documents = disk
               /\ \A f \in RequirementFiles \ q.todo :
                    disk[f] # Absent => q.text[f] = disk[f]
HasRequirements(q) ==
  /\ q.found = disk /\ documents = disk
  /\ \A f \in RequirementFiles : disk[f] # Absent => q.text[f] = disk[f]
  /\ \A f \in RequirementFiles \ q.todo : HasRow(disk, f) => RowAgrees(f)

Progress(q) ==
  /\ q.at = "read" => HasRead(q)
  /\ q.at = "remove" => q.found = disk
  /\ q.at = "documents" => HasDocuments(q)
  /\ q.at = "texts" => HasTexts(q)
  /\ q.at = "requirements" => HasRequirements(q)
  /\ q.at = "tasks" => RowsAgree

AloneInv ==
  /\ \A s \in Scans : Runs(s) /\ scan[s].alone =>
       Progress(scan[s]) /\ \A t \in Scans : t # s => ~Runs(t)
  /\ settled => RowsAgree /\ \A s \in Scans : ~Runs(s)

PInv == ScanTypeOK /\ CountInv /\ AloneInv

ScanSet == [at : Steps \union {"none"}, todo : SUBSET Files,
            found : [Files -> Contents], text : [RequirementFiles -> Contents],
            keys : SUBSET TaskKeys, alone : BOOLEAN]

LEMMA NoScanTyped ==
  /\ NoScan \in ScanSet /\ NoScan.at = "none" /\ ~NoScan.alone
  /\ NoScan.keys = {} /\ NoScan.todo = {} /\ NoScan.found = Unread
BY DEF NoScan, ScanSet, Unread, NoText, Contents

LEMMA ScanInitInv == ScanInit => PInv
<1> SUFFICES ASSUME ScanInit PROVE PInv
  OBVIOUS
<1> USE ScanAssumption DEF ScanInit
<1>1. \A s \in Scans : scan[s] = NoScan /\ ~Runs(s)
  BY NoScanTyped DEF Runs
<1>2. running = {}
  BY <1>1 DEF running
<1>3. ScanTypeOK
  <2>1. scan \in [Scans -> ScanSet]
    BY NoScanTyped
  <2>2. {modified, noticed, startup, settled} \subseteq BOOLEAN
    OBVIOUS
  <2>4. changes \in 0..MaxChanges /\ mishaps \in 0..MaxMishaps
    OBVIOUS
  <2>3. /\ documents \in [Files -> Contents] /\ taskRows \in [TaskFiles -> Contents]
        /\ requirements \in [Ids -> Requirement]
    BY DEF Unread, Contents, NoRequirement, Requirement
  <2> QED
    BY <2>1, <2>2, <2>3, <2>4 DEF ScanTypeOK, ScanSet
<1>4. CountInv
  BY <1>2, FS_EmptySet DEF CountInv
<1>5. AloneInv
  BY <1>1 DEF AloneInv
<1> QED
  BY <1>3, <1>4, <1>5 DEF PInv

(***************************************************************************)
(* How many scans run.                                                     *)
(***************************************************************************)
LEMMA CountSame ==
  ASSUME CountInv, running' = running, UNCHANGED startup,
         syncStatus' = "scanning" \/ syncStatus' = syncStatus
  PROVE  CountInv'
BY DEF CountInv

LEMMA CountEnds ==
  ASSUME CountInv, NEW s \in running, running' = running \ {s}, UNCHANGED startup
  PROVE  CountInv'
<1>1. /\ IsFiniteSet(running') /\ Cardinality(running) \in Nat
      /\ Cardinality(running') = Cardinality(running) - 1
  BY FS_RemoveElement, FS_CardinalityType DEF CountInv
<1> QED
  BY <1>1 DEF CountInv

LEMMA CountBegins ==
  ASSUME CountInv, NEW s, s \notin running, running' = running \union {s},
         syncStatus' = "scanning",
         \/ syncStatus # "scanning" /\ startup' = startup
         \/ startup /\ ~startup'
  PROVE  CountInv'
<1>1. /\ IsFiniteSet(running') /\ Cardinality(running) \in Nat
      /\ Cardinality(running') = Cardinality(running) + 1
  BY FS_AddElement, FS_CardinalityType DEF CountInv
<1> QED
  BY <1>1 DEF CountInv

(***************************************************************************)
(* What each way to change a scan leaves.                                  *)
(***************************************************************************)
LEMMA ScanTypes ==
  ASSUME PInv
  PROVE  /\ scan \in [Scans -> ScanSet] /\ disk \in [Files -> Contents]
         /\ documents \in [Files -> Contents]
BY DEF PInv, ScanTypeOK, ScanSet

LEMMA BeginFacts ==
  ASSUME PInv, BeginScan
  PROVE  \E new \in Scans :
           /\ ~Runs(new) /\ scan' \in [Scans -> ScanSet] /\ running' = running \union {new}
           /\ scan'[new].at = "read" /\ scan'[new].todo = Present(disk)
           /\ scan'[new].found = Unread /\ scan'[new].alone = Alone
           /\ \A t \in Scans : t # new => ~scan'[t].alone
<1> DEFINE new == CHOOSE s \in Scans : ~Runs(s)
           r == [NoScan EXCEPT !.at = "read", !.todo = Present(disk), !.alone = Alone]
<1>1. new \in Scans /\ ~Runs(new)
  BY DEF BeginScan
<1>2. disk \in [Files -> Contents] /\ scan \in [Scans -> ScanSet]
  BY ScanTypes
<1>3. Present(disk) \in SUBSET Files /\ Alone \in BOOLEAN
  BY <1>2 DEF Present, Alone
<1> HIDE DEF new
<1>4. scan' = [s \in Scans |-> IF s = new THEN r ELSE [scan[s] EXCEPT !.alone = FALSE]]
  BY DEF BeginScan, new
<1>5. /\ r \in ScanSet /\ r.at = "read" /\ r.todo = Present(disk)
      /\ r.found = Unread /\ r.alone = Alone
  BY <1>3, NoScanTyped DEF ScanSet, Steps
<1> HIDE DEF r
<1>6. \A s \in Scans : LET q == [scan[s] EXCEPT !.alone = FALSE] IN
        q \in ScanSet /\ q.at = scan[s].at /\ ~q.alone
  BY <1>2 DEF ScanSet
<1>7. scan' \in [Scans -> ScanSet]
  BY <1>4, <1>5, <1>6
<1>8. running' = running \union {new}
  BY <1>1, <1>4, <1>5, <1>6 DEF running, Runs
<1> QED
  BY <1>1, <1>4, <1>5, <1>6, <1>7, <1>8

LEMMA EndFacts ==
  ASSUME PInv, NEW s \in Scans, Runs(s), scan' = [scan EXCEPT ![s] = NoScan]
  PROVE  /\ scan' \in [Scans -> ScanSet] /\ running' = running \ {s}
         /\ s \in running /\ scan'[s] = NoScan
         /\ \A t \in Scans : t # s => scan'[t] = scan[t]
<1>1. scan' \in [Scans -> ScanSet] /\ scan'[s] = NoScan
      /\ \A t \in Scans : t # s => scan'[t] = scan[t]
  BY ScanTypes, NoScanTyped
<1> QED
  BY <1>1, NoScanTyped DEF running, Runs

LEMMA GoesFacts ==
  ASSUME PInv, NEW s \in Scans, NEW at \in Steps, NEW todo \in SUBSET Files,
         NEW found \in [Files -> Contents], ScanGoes(s, at, todo, found)
  PROVE  /\ scan' \in [Scans -> ScanSet]
         /\ scan'[s].at = at /\ scan'[s].todo = todo /\ scan'[s].found = found
         /\ scan'[s].text = scan[s].text /\ scan'[s].keys = scan[s].keys
         /\ scan'[s].alone = scan[s].alone
         /\ \A t \in Scans : t # s => scan'[t] = scan[t]
BY ScanTypes DEF ScanSet, ScanGoes

\* A scan that was running goes on: alone, if it keeps Progress.
LEMMA StepFrame ==
  ASSUME PInv, NEW s \in Scans, Runs(s), scan' \in [Scans -> ScanSet],
         scan'[s].at # "none", scan'[s].alone = scan[s].alone,
         \A t \in Scans : t # s => scan'[t] = scan[t],
         ScanKeeps,
         scan[s].alone => Progress(scan[s])'
  PROVE  CountInv' /\ AloneInv'
<1> USE DEF PInv
<1>1. \A t \in Scans : Runs(t)' = Runs(t)
  BY DEF Runs
<1>2. running' = running
  BY <1>1 DEF running, Runs
<1>3. CountInv'
  BY <1>2, CountSame DEF ScanKeeps
<1>4. ~settled'
  BY DEF ScanKeeps, AloneInv
<1>5. ASSUME NEW t \in Scans, Runs(t)', scan'[t].alone
      PROVE  Progress(scan[t])' /\ \A u \in Scans : u # t => ~Runs(u)'
  <2>1. t = s
    BY <1>1, <1>5 DEF AloneInv
  <2> QED
    BY <1>1, <1>5, <2>1 DEF AloneInv
<1> QED
  BY <1>3, <1>4, <1>5 DEF AloneInv

LEMMA MishapCount ==
  ASSUME ScanTypeOK, Mishap \/ NoMishap
  PROVE  mishaps' \in 0..MaxMishaps
BY ScanAssumption DEF ScanTypeOK, Mishap, NoMishap

(***************************************************************************)
(* Asking for a scan.                                                      *)
(***************************************************************************)
LEMMA BeginKeeps ==
  ASSUME PInv, BeginScan, AsksNobody, UNCHANGED mishaps, syncStatus' = "scanning",
         noticed' \in BOOLEAN, startup' \in BOOLEAN,
         \/ syncStatus # "scanning" /\ startup' = startup
         \/ startup /\ ~startup'
  PROVE  PInv'
<1>1. PICK new \in Scans :
        /\ ~Runs(new) /\ scan' \in [Scans -> ScanSet] /\ running' = running \union {new}
        /\ scan'[new].at = "read" /\ scan'[new].todo = Present(disk)
        /\ scan'[new].found = Unread /\ scan'[new].alone = Alone
        /\ \A t \in Scans : t # new => ~scan'[t].alone
  BY BeginFacts
<1>2. settled' = FALSE /\ UNCHANGED <<disk, rows, modified, changes>>
  BY DEF BeginScan, AsksNobody
<1>3. ScanTypeOK'
  BY <1>1, <1>2 DEF PInv, ScanTypeOK, ScanSet, rows
<1>4. CountInv'
  BY <1>1, CountBegins DEF PInv, running
<1>5. AloneInv'
  <2>1. ASSUME NEW t \in Scans, scan'[t].alone
        PROVE  Progress(scan[t])' /\ \A u \in Scans : u # t => ~Runs(u)'
    <3>1. t = new /\ Alone
      BY <1>1, <2>1
    <3>2. running' = {new}
      BY <1>1, <3>1 DEF Alone, running
    <3>3. \A u \in Scans : u # t => ~Runs(u)'
      BY <3>1, <3>2 DEF running, Runs
    <3>4. \A f \in Files \ Present(disk) : Unread[f] = disk[f]
      BY ScanTypes DEF Present, Unread
    <3>5. Progress(scan[t])'
      BY <1>1, <1>2, <3>1, <3>4 DEF Progress, HasRead
    <3> QED
      BY <3>3, <3>5
  <2> QED
    BY <1>2, <2>1 DEF AloneInv
<1> QED
  BY <1>3, <1>4, <1>5 DEF PInv

\* Nothing begins: only the claim and the timers change.
LEMMA AskedKeeps ==
  ASSUME PInv, AsksNobody, UNCHANGED <<scan, settled, startup>>,
         syncStatus' = "scanning" \/ syncStatus' = syncStatus,
         noticed' \in BOOLEAN, mishaps' \in 0..MaxMishaps
  PROVE  PInv'
<1> USE DEF PInv
<1>1. ScanTypeOK'
  BY DEF ScanTypeOK, AsksNobody, rows
<1>2. running' = running
  BY DEF running, Runs
<1>3. CountInv'
  BY <1>2, CountSame
<1>4. AloneInv'
  BY DEF AloneInv, AsksNobody, rows, Runs, Progress, HasRead, HasDocuments, HasTexts,
     HasRequirements, RowsAgree, RowAgrees, HasRow, NamedIn
<1> QED
  BY <1>1, <1>3, <1>4

LEMMA RequestKeeps ==
  ASSUME PInv, Request, AsksNobody, UNCHANGED startup, noticed' \in BOOLEAN
  PROVE  PInv'
<1>1. startup \in BOOLEAN /\ mishaps' = mishaps /\ mishaps' \in 0..MaxMishaps
  BY DEF PInv, ScanTypeOK, Request
<1>2. CASE syncStatus = "scanning"
  BY <1>1, <1>2, AskedKeeps DEF Request
<1>3. CASE syncStatus # "scanning"
  BY <1>1, <1>3, BeginKeeps DEF Request
<1> QED
  BY <1>2, <1>3

LEMMA StartupKeeps == ASSUME PInv, StartupCheck PROVE PInv'
<1>1. /\ startup /\ startup' = FALSE /\ noticed' \in BOOLEAN /\ AsksNobody
      /\ mishaps' = mishaps
  BY DEF StartupCheck, PInv, ScanTypeOK
<1>2. CASE modified
  BY <1>1, <1>2, BeginKeeps DEF StartupCheck
<1>3. CASE ~modified
  <2>1. UNCHANGED <<syncStatus, scan, settled, disk, rows, modified, changes>>
    BY <1>1, <1>3 DEF StartupCheck, AsksNobody
  <2>2. ScanTypeOK'
    BY <1>1, <2>1 DEF PInv, ScanTypeOK, rows
  <2>3. running' = running
    BY <2>1 DEF running, Runs
  <2>4. CountInv'
    <3>1. Cardinality(running) \in Nat
      BY FS_CardinalityType DEF PInv, CountInv
    <3> QED
      BY <1>1, <2>1, <2>3, <3>1 DEF PInv, CountInv
  <2>5. AloneInv'
    BY <2>1 DEF PInv, AloneInv, rows, Runs, Progress, HasRead, HasDocuments, HasTexts,
       HasRequirements, RowsAgree, RowAgrees, HasRow, NamedIn
  <2> QED
    BY <2>2, <2>4, <2>5 DEF PInv
<1> QED
  BY <1>2, <1>3

LEMMA AsksKeep ==
  ASSUME PInv, RequestScan \/ NoticeFires \/ ClaimFails \/ StartupCheck
  PROVE  PInv'
<1>1. CASE RequestScan
  BY <1>1, RequestKeeps DEF RequestScan, PInv, ScanTypeOK
<1>2. CASE NoticeFires
  BY <1>2, RequestKeeps DEF NoticeFires
<1>3. CASE ClaimFails
  <2>1. mishaps' \in 0..MaxMishaps /\ noticed \in BOOLEAN
    BY <1>3, MishapCount DEF ClaimFails, PInv, ScanTypeOK
  <2> QED
    BY <1>3, <2>1, AskedKeeps DEF ClaimFails
<1> QED
  BY <1>1, <1>2, <1>3, StartupKeeps

(***************************************************************************)
(* The end of a scan, a change of a file and a crash.                      *)
(***************************************************************************)
LEMMA EndKeeps ==
  ASSUME PInv, NEW s \in Scans, Runs(s), scan' = [scan EXCEPT ![s] = NoScan],
         UNCHANGED <<disk, rows, noticed, startup, changes>>,
         modified' \in BOOLEAN, mishaps' \in 0..MaxMishaps,
         syncStatus' \in {"idle", "failed"}, settled' \in BOOLEAN,
         settled' => scan[s].alone /\ RowsAgree
  PROVE  PInv'
<1>1. /\ scan' \in [Scans -> ScanSet] /\ running' = running \ {s}
      /\ s \in running /\ ~Runs(s)'
      /\ \A t \in Scans : t # s => scan'[t] = scan[t]
  BY EndFacts, NoScanTyped DEF Runs
<1>2. ScanTypeOK'
  BY <1>1 DEF PInv, ScanTypeOK, ScanSet, rows
<1>3. CountInv'
  BY <1>1, CountEnds DEF PInv
<1>4. \A t \in Scans : Runs(t)' => t # s /\ Runs(t) /\ scan'[t] = scan[t]
  BY <1>1 DEF Runs
<1>5. AloneInv'
  <2>1. ASSUME NEW t \in Scans, Runs(t)', scan'[t].alone PROVE FALSE
    BY <1>4, <2>1 DEF PInv, AloneInv
  <2>2. settled' => RowsAgree' /\ \A t \in Scans : ~Runs(t)'
    <3>1. RowsAgree' = RowsAgree
      BY DEF RowsAgree, RowAgrees, HasRow, NamedIn, rows
    <3>2. scan[s].alone => \A t \in Scans : ~Runs(t)'
      BY <1>4 DEF PInv, AloneInv
    <3> QED
      BY <3>1, <3>2
  <2> QED
    BY <2>1, <2>2 DEF AloneInv
<1> QED
  BY <1>2, <1>3, <1>5 DEF PInv

LEMMA FailsKeeps ==
  ASSUME PInv, NEW s \in Scans, ScanFails(s), mishaps' \in 0..MaxMishaps
  PROVE  PInv'
BY EndKeeps DEF ScanFails, PInv, ScanTypeOK

LEMMA FinishKeeps ==
  ASSUME PInv, NEW s \in Scans, FinishScan(s)
  PROVE  PInv'
<1>1. /\ scan[s].at = "tasks" /\ Runs(s) /\ scan[s].alone \in BOOLEAN
      /\ mishaps' \in 0..MaxMishaps
  BY ScanTypes DEF FinishScan, AllDone, Runs, ScanSet, PInv, ScanTypeOK
<1>2. scan[s].alone => RowsAgree
  BY <1>1 DEF PInv, AloneInv, Progress
<1> QED
  BY <1>1, <1>2, EndKeeps DEF FinishScan

LEMMA ChangeKeeps ==
  ASSUME PInv, NEW f \in Files, NEW c \in Contents, FileChanges(f, c)
  PROVE  PInv'
<1>1. /\ settled' = FALSE /\ UNCHANGED <<rows, syncStatus, startup, mishaps>>
      /\ disk' \in [Files -> Contents] /\ modified' \in BOOLEAN /\ noticed' \in BOOLEAN
      /\ changes' \in 0..MaxChanges
  <2>1. disk' \in [Files -> Contents]
    BY ScanTypes DEF FileChanges
  <2>2. changes' \in 0..MaxChanges
    BY ScanAssumption DEF FileChanges, PInv, ScanTypeOK
  <2> QED
    BY <2>1, <2>2 DEF FileChanges, PInv, ScanTypeOK
<1>2. \A s \in Scans : LET q == [scan[s] EXCEPT !.alone = FALSE] IN
        q \in ScanSet /\ q.at = scan[s].at /\ ~q.alone
  BY ScanTypes DEF ScanSet
<1>3. scan' = [s \in Scans |-> [scan[s] EXCEPT !.alone = FALSE]]
  BY DEF FileChanges
<1>4. /\ scan' \in [Scans -> ScanSet]
      /\ \A s \in Scans : scan'[s].at = scan[s].at /\ ~scan'[s].alone
  BY <1>2, <1>3
<1>5. ScanTypeOK'
  BY <1>1, <1>4 DEF PInv, ScanTypeOK, ScanSet, rows
<1>6. running' = running
  BY <1>4 DEF running, Runs
<1>7. CountInv'
  BY <1>1, <1>6, CountSame DEF PInv
<1>8. AloneInv'
  BY <1>1, <1>4 DEF AloneInv
<1> QED
  BY <1>5, <1>7, <1>8 DEF PInv

LEMMA CrashKeeps == ASSUME PInv, CrashServer PROVE PInv'
<1>1. /\ \A s \in Scans : scan'[s] = NoScan /\ ~Runs(s)'
      /\ scan' \in [Scans -> ScanSet] /\ settled' = FALSE
  BY NoScanTyped DEF CrashServer, Runs
<1>2. running' = {}
  BY <1>1 DEF running
<1>3. ScanTypeOK'
  <2>1. mishaps' \in 0..MaxMishaps
    BY MishapCount DEF CrashServer, PInv
  <2> QED
    BY <1>1, <2>1 DEF CrashServer, PInv, ScanTypeOK, ScanSet, rows
<1>4. CountInv'
  BY <1>2, FS_EmptySet DEF CountInv
<1>5. AloneInv'
  BY <1>1 DEF AloneInv
<1> QED
  BY <1>3, <1>4, <1>5 DEF PInv

(***************************************************************************)
(* The steps of a scan.                                                    *)
(***************************************************************************)
\* The types after a step that writes no row.
LEMMA ReadTypes ==
  ASSUME PInv, scan' \in [Scans -> ScanSet], ScanKeeps, UNCHANGED <<rows, mishaps>>,
         modified' \in BOOLEAN
  PROVE  ScanTypeOK'
BY DEF PInv, ScanTypeOK, ScanSet, ScanKeeps, rows

LEMMA SameFiles ==
  ASSUME NEW x \in [Files -> Contents], NEW y \in [Files -> Contents],
         \A f \in Files : x[f] = y[f]
  PROVE  x = y
OBVIOUS

LEMMA ReadFileKeeps ==
  ASSUME PInv, NEW s \in Scans, NEW f \in Files, ReadFile(s, f)
  PROVE  PInv'
<1>1. /\ scan[s].at = "read" /\ Runs(s) /\ ScanKeeps
      /\ UNCHANGED <<rows, modified, mishaps>> /\ "read" \in Steps
  BY DEF ReadFile, Runs, Steps
<1>2. /\ scan[s].todo \ {f} \in SUBSET Files
      /\ [scan[s].found EXCEPT ![f] = disk[f]] \in [Files -> Contents]
      /\ scan[s].found \in [Files -> Contents]
  BY ScanTypes DEF ScanSet
<1>3. /\ scan' \in [Scans -> ScanSet] /\ scan'[s].at = "read"
      /\ scan'[s].todo = scan[s].todo \ {f}
      /\ scan'[s].found = [scan[s].found EXCEPT ![f] = disk[f]]
      /\ scan'[s].alone = scan[s].alone
      /\ \A t \in Scans : t # s => scan'[t] = scan[t]
  BY <1>1, <1>2, GoesFacts DEF ReadFile
<1>4. ScanTypeOK'
  BY <1>1, <1>3, ReadTypes DEF PInv, ScanTypeOK
<1>5. scan[s].alone => Progress(scan[s])'
  <2>1. scan[s].alone => HasRead(scan[s])
    BY <1>1 DEF PInv, AloneInv, Progress
  <2> QED
    BY <1>1, <1>2, <1>3, <2>1 DEF HasRead, Progress, ScanKeeps
<1> QED
  BY <1>1, <1>3, <1>4, <1>5, StepFrame DEF PInv

LEMMA WriteMapKeeps ==
  ASSUME PInv, NEW s \in Scans, WriteMap(s)
  PROVE  PInv'
<1>1. /\ scan[s].at = "read" /\ scan[s].todo = {} /\ Runs(s) /\ ScanKeeps
      /\ UNCHANGED <<rows, mishaps>> /\ modified' = TRUE /\ "remove" \in Steps
  BY DEF WriteMap, AllDone, Runs, Steps
<1>2. scan[s].found \in [Files -> Contents] /\ disk \in [Files -> Contents]
  BY ScanTypes DEF ScanSet
<1>3. /\ scan' \in [Scans -> ScanSet] /\ scan'[s].at = "remove"
      /\ scan'[s].found = scan[s].found /\ scan'[s].alone = scan[s].alone
      /\ \A t \in Scans : t # s => scan'[t] = scan[t]
  BY <1>1, <1>2, GoesFacts DEF WriteMap
<1>4. ScanTypeOK'
  BY <1>1, <1>3, ReadTypes
<1>5. scan[s].alone => Progress(scan[s])'
  <2>1. scan[s].alone => HasRead(scan[s])
    BY <1>1 DEF PInv, AloneInv, Progress
  <2>2. scan[s].alone => scan[s].found = disk
    BY <1>1, <1>2, <2>1, SameFiles DEF HasRead
  <2> QED
    BY <1>1, <1>3, <2>2 DEF Progress, ScanKeeps
<1> QED
  BY <1>1, <1>3, <1>4, <1>5, StepFrame DEF PInv

LEMMA RemoveKeeps ==
  ASSUME PInv, NEW s \in Scans, RemoveDocuments(s)
  PROVE  PInv'
<1>1. /\ scan[s].at = "remove" /\ Runs(s) /\ ScanKeeps /\ "documents" \in Steps
      /\ UNCHANGED <<requirements, taskRows, rowId, applied, modified, mishaps>>
      /\ documents' = [f \in Files |->
                         IF scan[s].found[f] = Absent THEN Absent ELSE documents[f]]
  BY DEF RemoveDocuments, Runs, Steps
<1>2. scan[s].found \in [Files -> Contents] /\ Present(scan[s].found) \in SUBSET Files
      /\ documents' \in [Files -> Contents]
  BY <1>1, ScanTypes DEF ScanSet, Present, Contents
<1>3. /\ scan' \in [Scans -> ScanSet] /\ scan'[s].at = "documents"
      /\ scan'[s].todo = Present(scan[s].found)
      /\ scan'[s].found = scan[s].found /\ scan'[s].alone = scan[s].alone
      /\ \A t \in Scans : t # s => scan'[t] = scan[t]
  BY <1>1, <1>2, GoesFacts DEF RemoveDocuments
<1>4. ScanTypeOK'
  BY <1>1, <1>2, <1>3 DEF PInv, ScanTypeOK, ScanSet, ScanKeeps
<1>5. scan[s].alone => Progress(scan[s])'
  <2>1. scan[s].alone => scan[s].found = disk
    BY <1>1 DEF PInv, AloneInv, Progress
  <2>2. \A f \in Files \ Present(scan[s].found) :
          scan[s].found[f] = Absent /\ documents'[f] = Absent
    BY <1>1, <1>2 DEF Present
  <2> QED
    BY <1>1, <1>3, <2>1, <2>2 DEF Progress, HasDocuments, ScanKeeps
<1> QED
  BY <1>1, <1>3, <1>4, <1>5, StepFrame DEF PInv

LEMMA UpsertDocumentKeeps ==
  ASSUME PInv, NEW s \in Scans, NEW f \in Files, UpsertDocument(s, f)
  PROVE  PInv'
<1>1. /\ scan[s].at = "documents" /\ Runs(s) /\ ScanKeeps /\ "documents" \in Steps
      /\ UNCHANGED <<requirements, taskRows, applied, modified, mishaps>>
      /\ documents' = [documents EXCEPT ![f] = scan[s].found[f]]
      /\ Ticks(s, f)
  BY DEF UpsertDocument, Runs, Steps
<1>2. /\ scan[s].found \in [Files -> Contents] /\ scan[s].todo \ {f} \in SUBSET Files
      /\ documents \in [Files -> Contents]
  BY ScanTypes DEF ScanSet
<1>3. /\ scan' \in [Scans -> ScanSet] /\ scan'[s].at = "documents"
      /\ scan'[s].todo = scan[s].todo \ {f}
      /\ scan'[s].found = scan[s].found /\ scan'[s].alone = scan[s].alone
      /\ \A t \in Scans : t # s => scan'[t] = scan[t]
  <2>1. ScanGoes(s, "documents", scan[s].todo \ {f}, scan[s].found)
    BY <1>1 DEF Ticks
  <2> QED
    BY <1>1, <1>2, <2>1, GoesFacts
<1>4. ScanTypeOK'
  <2>1. rowId' \in [TaskFiles -> Nat]
    BY DEF UpsertDocument, PInv, ScanTypeOK
  <2>2. documents' \in [Files -> Contents]
    BY <1>1, <1>2
  <2> QED
    BY <1>1, <1>3, <2>1, <2>2 DEF PInv, ScanTypeOK, ScanSet, ScanKeeps
<1>5. scan[s].alone => Progress(scan[s])'
  <2>1. scan[s].alone => HasDocuments(scan[s])
    BY <1>1 DEF PInv, AloneInv, Progress
  <2> QED
    BY <1>1, <1>2, <1>3, <2>1 DEF Progress, HasDocuments, ScanKeeps
<1> QED
  BY <1>1, <1>3, <1>4, <1>5, StepFrame DEF PInv

LEMMA DocumentsDoneKeeps ==
  ASSUME PInv, NEW s \in Scans, DocumentsDone(s)
  PROVE  PInv'
<1> DEFINE next == RequirementFiles \intersect Present(scan[s].found)
<1>1. /\ scan[s].at = "documents" /\ scan[s].todo = {} /\ Runs(s) /\ ScanKeeps
      /\ UNCHANGED <<rows, modified, mishaps>> /\ "texts" \in Steps
      /\ ScanGoes(s, "texts", next, scan[s].found)
  BY DEF DocumentsDone, AllDone, Runs, Steps
<1>2. /\ scan[s].found \in [Files -> Contents] /\ documents \in [Files -> Contents]
      /\ disk \in [Files -> Contents] /\ next \in SUBSET Files
  BY ScanTypes DEF ScanSet, Files
<1>3. /\ scan' \in [Scans -> ScanSet] /\ scan'[s].at = "texts" /\ scan'[s].todo = next
      /\ scan'[s].found = scan[s].found /\ scan'[s].alone = scan[s].alone
      /\ \A t \in Scans : t # s => scan'[t] = scan[t]
  <2> HIDE DEF next
  <2> QED
    BY <1>1, <1>2, GoesFacts
<1>4. ScanTypeOK'
  BY <1>1, <1>3, ReadTypes DEF PInv, ScanTypeOK
<1>5. scan[s].alone => Progress(scan[s])'
  <2> SUFFICES ASSUME scan[s].alone PROVE Progress(scan[s])'
    OBVIOUS
  <2>1. scan[s].found = disk /\ \A f \in Files : documents[f] = disk[f]
    BY <1>1 DEF PInv, AloneInv, Progress, HasDocuments
  <2>2. documents = disk
    BY <1>2, <2>1, SameFiles
  <2>3. \A f \in RequirementFiles \ next : disk[f] = Absent
    BY <1>2, <2>1 DEF Present, Files
  <2> QED
    BY <1>1, <1>3, <2>1, <2>2, <2>3 DEF Progress, HasTexts, ScanKeeps, rows
<1> QED
  BY <1>1, <1>3, <1>4, <1>5, StepFrame DEF PInv

LEMMA ReadTextKeeps ==
  ASSUME PInv, NEW s \in Scans, NEW f \in RequirementFiles, ReadText(s, f)
  PROVE  PInv'
<1>1. /\ scan[s].at = "texts" /\ Runs(s) /\ ScanKeeps
      /\ UNCHANGED <<rows, modified, mishaps>>
      /\ scan' = [scan EXCEPT ![s].text[f] = disk[f], ![s].todo = @ \ {f}]
  BY DEF ReadText, Runs
<1>2. /\ scan \in [Scans -> ScanSet] /\ disk[f] \in Contents
      /\ scan[s].text \in [RequirementFiles -> Contents]
  BY ScanTypes DEF ScanSet, Files
<1>3. /\ scan' \in [Scans -> ScanSet] /\ scan'[s].at = "texts"
      /\ scan'[s].todo = scan[s].todo \ {f} /\ scan'[s].found = scan[s].found
      /\ scan'[s].text = [scan[s].text EXCEPT ![f] = disk[f]]
      /\ scan'[s].alone = scan[s].alone
      /\ \A t \in Scans : t # s => scan'[t] = scan[t]
  <2> DEFINE txt == [scan[s].text EXCEPT ![f] = disk[f]]
             q == [[scan[s] EXCEPT !.text = txt] EXCEPT !.todo = scan[s].todo \ {f}]
  <2>1. txt \in [RequirementFiles -> Contents]
    BY <1>2
  <2> HIDE DEF txt
  <2>2. /\ q \in ScanSet /\ q.at = "texts" /\ q.todo = scan[s].todo \ {f}
        /\ q.found = scan[s].found /\ q.text = txt /\ q.alone = scan[s].alone
    BY <1>1, <1>2, <2>1 DEF ScanSet
  <2>3. scan' = [scan EXCEPT ![s] = q]
    BY <1>1, <1>2 DEF txt, ScanSet
  <2> HIDE DEF q
  <2> QED
    BY <1>2, <2>2, <2>3 DEF txt
<1>4. ScanTypeOK'
  BY <1>1, <1>3, ReadTypes DEF PInv, ScanTypeOK
<1>5. scan[s].alone => Progress(scan[s])'
  <2>1. scan[s].alone => HasTexts(scan[s])
    BY <1>1 DEF PInv, AloneInv, Progress
  <2> QED
    BY <1>1, <1>2, <1>3, <2>1 DEF Progress, HasTexts, ScanKeeps, rows
<1> QED
  BY <1>1, <1>3, <1>4, <1>5, StepFrame DEF PInv

LEMMA TextsReadKeeps ==
  ASSUME PInv, NEW s \in Scans, TextsRead(s)
  PROVE  PInv'
<1> DEFINE next == RequirementFiles \intersect Present(scan[s].found)
<1>1. /\ scan[s].at = "texts" /\ scan[s].todo = {} /\ Runs(s) /\ ScanKeeps
      /\ UNCHANGED <<rows, modified, mishaps>> /\ "requirements" \in Steps
      /\ ScanGoes(s, "requirements", next, scan[s].found)
  BY DEF TextsRead, AllDone, Runs, Steps
<1>2. scan[s].found \in [Files -> Contents] /\ next \in SUBSET Files
  BY ScanTypes DEF ScanSet, Files
<1>3. /\ scan' \in [Scans -> ScanSet] /\ scan'[s].at = "requirements"
      /\ scan'[s].todo = next /\ scan'[s].found = scan[s].found
      /\ scan'[s].text = scan[s].text /\ scan'[s].alone = scan[s].alone
      /\ \A t \in Scans : t # s => scan'[t] = scan[t]
  BY <1>1, <1>2, GoesFacts
<1>4. ScanTypeOK'
  BY <1>1, <1>3, ReadTypes DEF PInv, ScanTypeOK
<1>5. scan[s].alone => Progress(scan[s])'
  <2> SUFFICES ASSUME scan[s].alone PROVE Progress(scan[s])'
    OBVIOUS
  <2>1. HasTexts(scan[s])
    BY <1>1 DEF PInv, AloneInv, Progress
  <2>2. \A f \in RequirementFiles \ next : disk[f] = Absent
    BY <1>2, <2>1 DEF Present, Files, HasTexts
  <2> QED
    BY <1>1, <1>3, <2>1, <2>2 DEF Progress, HasTexts, HasRequirements, ScanKeeps, rows,
       HasRow, NamedIn
<1> QED
  BY <1>1, <1>3, <1>4, <1>5, StepFrame DEF PInv

\* Two files that get a row name different requirements.
LEMMA RowsApart ==
  ASSUME NEW where, NEW f \in RequirementFiles, NEW g \in RequirementFiles, f # g,
         HasRow(where, f), HasRow(where, g)
  PROVE  NamedIn(where, f) # NamedIn(where, g)
<1>1. f \in Nat /\ g \in Nat
  BY ScanAssumption
<1>2. CASE f < g
  BY <1>2 DEF HasRow
<1>3. CASE g < f
  BY <1>3 DEF HasRow
<1> QED
  BY <1>1, <1>2, <1>3

LEMMA NamedTyped ==
  ASSUME NEW where \in [Files -> Contents], NEW f \in RequirementFiles, HasRow(where, f)
  PROVE  NamedIn(where, f) \in Ids /\ where[f] # Absent
BY ScanAssumption DEF HasRow, NamedIn, Contents, Files

LEMMA UpsertRequirementKeeps ==
  ASSUME PInv, NEW s \in Scans, NEW f \in RequirementFiles, UpsertRequirement(s, f)
  PROVE  PInv'
<1> DEFINE found == scan[s].found
           id == NamedIn(found, f)
           status == IF requirements[id] = NoRequirement \/ found[f] \in Stating
                       THEN found[f] ELSE requirements[id].status
           origin == IF requirements[id] = NoRequirement
                       THEN found[f] ELSE requirements[id].origin
           row == [fields |-> found[f], text |-> scan[s].text[f],
                   status |-> status, origin |-> origin]
<1>1. /\ scan[s].at = "requirements" /\ Runs(s) /\ ScanKeeps /\ "requirements" \in Steps
      /\ UNCHANGED <<documents, taskRows, rowId, applied, modified, mishaps>>
      /\ requirements' = IF ~HasRow(found, f) THEN requirements
                         ELSE [requirements EXCEPT ![id] = row]
      /\ Ticks(s, f)
  BY DEF UpsertRequirement, Runs, Steps
<1>2. /\ found \in [Files -> Contents] /\ scan[s].todo \ {f} \in SUBSET Files
      /\ scan[s].text \in [RequirementFiles -> Contents] /\ f \in Files
      /\ requirements \in [Ids -> Requirement]
  BY ScanTypes DEF ScanSet, Files, PInv, ScanTypeOK
<1>3. /\ scan' \in [Scans -> ScanSet] /\ scan'[s].at = "requirements"
      /\ scan'[s].todo = scan[s].todo \ {f}
      /\ scan'[s].found = found /\ scan'[s].text = scan[s].text
      /\ scan'[s].alone = scan[s].alone
      /\ \A t \in Scans : t # s => scan'[t] = scan[t]
  BY <1>1, <1>2, GoesFacts DEF Ticks
<1>4. ASSUME HasRow(found, f)
      PROVE  /\ id \in Ids /\ row \in Requirement
             /\ requirements' = [requirements EXCEPT ![id] = row]
             /\ row.fields = found[f] /\ row.text = scan[s].text[f]
             /\ found[f] \in Stating => row.status = found[f]
  <2>1. id \in Ids
    BY <1>2, <1>4, NamedTyped
  <2>2. status \in Contents /\ origin \in Contents
    <3>1. requirements[id] \in Requirement
      BY <1>2, <2>1
    <3> HIDE DEF id, found
    <3> QED
      BY <1>2, <3>1 DEF Requirement
  <2>3. found[f] \in Stating => status = found[f]
    OBVIOUS
  <2>4. row \in Requirement
    <3> HIDE DEF status, origin
    <3> QED
      BY <1>2, <2>2 DEF Requirement
  <2> QED
    BY <1>1, <1>4, <2>1, <2>3, <2>4
<1> HIDE DEF row
<1>5. requirements' \in [Ids -> Requirement]
  BY <1>1, <1>2, <1>4
<1>6. ScanTypeOK'
  BY <1>1, <1>3, <1>5 DEF PInv, ScanTypeOK, ScanSet, ScanKeeps
<1>7. scan[s].alone => Progress(scan[s])'
  <2> SUFFICES ASSUME scan[s].alone PROVE HasRequirements(scan[s])'
    BY <1>3 DEF Progress
  <2>1. HasRequirements(scan[s])
    BY <1>1 DEF PInv, AloneInv, Progress
  <2>2. found = disk /\ disk' = disk
    BY <1>1, <2>1 DEF HasRequirements, ScanKeeps
  <2>3. ASSUME NEW g \in RequirementFiles \ (scan[s].todo \ {f}), HasRow(disk, g)
        PROVE  RowAgrees(g)'
    <3>1. NamedIn(disk, g) \in Ids /\ disk[g] # Absent
      BY <1>2, <2>2, <2>3, NamedTyped
    <3>2. CASE g = f
      <4>1. requirements'[NamedIn(disk, g)] = row
        BY <1>2, <1>4, <2>2, <2>3, <3>2
      <4>2. scan[s].text[f] = disk[f]
        BY <2>1, <3>1, <3>2 DEF HasRequirements
      <4> QED
        BY <1>4, <2>2, <2>3, <3>2, <4>1, <4>2 DEF RowAgrees, NamedIn
    <3>3. CASE g # f
      <4>1. HasRow(found, f) => NamedIn(disk, g) # id
        BY <2>2, <2>3, <3>3, RowsApart
      <4>2. requirements'[NamedIn(disk, g)] = requirements[NamedIn(disk, g)]
        <5> HIDE DEF id
        <5> QED
          BY <1>1, <1>2, <1>4, <3>1, <4>1
      <4>3. RowAgrees(g)
        BY <2>1, <2>3, <3>3 DEF HasRequirements
      <4> QED
        BY <2>2, <4>2, <4>3 DEF RowAgrees, NamedIn
    <3> QED
      BY <3>2, <3>3
  <2>4. \A g \in RequirementFiles : HasRow(disk, g)' = HasRow(disk, g)
    BY <2>2 DEF HasRow, NamedIn
  <2> QED
    BY <1>1, <1>3, <2>1, <2>2, <2>3, <2>4 DEF HasRequirements, ScanKeeps
<1> QED
  BY <1>1, <1>3, <1>6, <1>7, StepFrame DEF PInv

LEMMA DeriveTasksKeeps ==
  ASSUME PInv, NEW s \in Scans, DeriveTasks(s)
  PROVE  PInv'
<1> DEFINE made == {<<f, documents[f], rowId[f]>> : f \in TaskFiles \intersect Present(documents)}
           q == [scan[s] EXCEPT !.at = "tasks", !.found = Unread, !.text = NoText,
                                !.keys = made]
<1>1. /\ scan[s].at = "requirements" /\ scan[s].todo = {} /\ Runs(s) /\ ScanKeeps
      /\ UNCHANGED <<rows, modified, mishaps>> /\ "tasks" \in Steps
      /\ scan' = [scan EXCEPT ![s] = q]
  BY DEF DeriveTasks, AllDone, Runs, Steps
<1>2. made \in SUBSET TaskKeys
  <2>1. documents \in [Files -> Contents] /\ rowId \in [TaskFiles -> Nat]
    BY DEF PInv, ScanTypeOK
  <2>2. ASSUME NEW f \in TaskFiles \intersect Present(documents)
        PROVE  <<f, documents[f], rowId[f]>> \in TaskKeys
    BY <2>1, <2>2 DEF TaskKeys, Present, Contents
  <2> QED
    BY <2>2
<1>3. Unread \in [Files -> Contents] /\ NoText \in [RequirementFiles -> Contents]
  BY DEF Unread, NoText, Contents
<1> HIDE DEF made
<1>4. q \in ScanSet /\ q.at = "tasks" /\ q.alone = scan[s].alone
  BY <1>1, <1>2, <1>3, ScanTypes DEF ScanSet
<1> HIDE DEF q
<1>5. /\ scan' \in [Scans -> ScanSet] /\ scan'[s].at = "tasks"
      /\ scan'[s].alone = scan[s].alone
      /\ \A t \in Scans : t # s => scan'[t] = scan[t]
  BY <1>1, <1>4, ScanTypes
<1>6. ScanTypeOK'
  BY <1>1, <1>5, ReadTypes DEF PInv, ScanTypeOK
<1>7. scan[s].alone => Progress(scan[s])'
  <2>1. scan[s].alone => HasRequirements(scan[s])
    BY <1>1 DEF PInv, AloneInv, Progress
  <2> QED
    BY <1>1, <1>5, <2>1 DEF Progress, HasRequirements, RowsAgree, RowAgrees, HasRow, NamedIn, ScanKeeps, rows
<1> QED
  BY <1>1, <1>5, <1>6, <1>7, StepFrame DEF PInv

\* Only the keys of the scan and the rows of Task change.
LEMMA UpsertTaskKeeps ==
  ASSUME PInv, NEW s \in Scans, UpsertTask(s)
  PROVE  PInv'
<1>1. PICK key \in scan[s].keys :
        /\ scan' = [scan EXCEPT ![s].keys = @ \ {key}]
        /\ IF key \in applied
             THEN UNCHANGED <<taskRows, applied, mishaps>>
             ELSE /\ taskRows' = [taskRows EXCEPT ![key[1]] = key[2]]
                  /\ \/ applied' = applied \union {key} /\ NoMishap
                     \/ UNCHANGED applied /\ Mishap
        /\ ScanKeeps /\ UNCHANGED <<documents, requirements, rowId, modified>>
  BY DEF UpsertTask
<1> DEFINE q == [scan[s] EXCEPT !.keys = @ \ {key}]
<1>2. scan \in [Scans -> ScanSet] /\ scan[s] \in ScanSet /\ scan' = [scan EXCEPT ![s] = q]
  BY <1>1, ScanTypes
<1>3. /\ q \in ScanSet /\ q.at = scan[s].at /\ q.todo = scan[s].todo
      /\ q.found = scan[s].found /\ q.text = scan[s].text /\ q.alone = scan[s].alone
  BY <1>2 DEF ScanSet
<1> HIDE DEF q
<1>4. /\ scan' \in [Scans -> ScanSet]
      /\ \A t \in Scans :
           /\ scan'[t].at = scan[t].at /\ scan'[t].todo = scan[t].todo
           /\ scan'[t].found = scan[t].found /\ scan'[t].text = scan[t].text
           /\ scan'[t].alone = scan[t].alone
  BY <1>2, <1>3
<1>5. key \in TaskKeys /\ key[1] \in TaskFiles /\ key[2] \in Contents
  BY <1>2 DEF ScanSet, TaskKeys, Contents
<1>6. ScanTypeOK'
  <2>1. taskRows' \in [TaskFiles -> Contents] /\ applied' \subseteq TaskKeys
    BY <1>1, <1>5 DEF PInv, ScanTypeOK
  <2>2. mishaps' \in 0..MaxMishaps
    BY <1>1, MishapCount DEF PInv, NoMishap
  <2> QED
    BY <1>1, <1>4, <2>1, <2>2 DEF PInv, ScanTypeOK, ScanSet, ScanKeeps
<1>7. \A t \in Scans : Runs(t)' = Runs(t)
  BY <1>4 DEF Runs
<1>8. CountInv'
  <2>1. running' = running
    BY <1>7 DEF running
  <2> QED
    BY <1>1, <2>1, CountSame DEF PInv, ScanKeeps
<1>9. \A t \in Scans : Progress(scan[t]) => Progress(scan[t])'
  BY <1>1, <1>4 DEF Progress, HasRead, HasDocuments, HasTexts, HasRequirements,
     RowsAgree, RowAgrees, HasRow, NamedIn, ScanKeeps
<1>10. AloneInv'
  BY <1>1, <1>4, <1>7, <1>9 DEF PInv, AloneInv, RowsAgree, RowAgrees, HasRow, NamedIn, ScanKeeps
<1> QED
  BY <1>6, <1>8, <1>10 DEF PInv

(***************************************************************************)
(* The theorems.                                                           *)
(***************************************************************************)
LEMMA FailureKeeps ==
  ASSUME PInv, NEW s \in Scans,
         StepFails(s) \/ \E f \in Files : ReadFails(s, f)
  PROVE  PInv'
<1>1. ScanFails(s) /\ (Mishap \/ NoMishap)
  BY DEF StepFails, ReadFails
<1> QED
  BY <1>1, MishapCount, FailsKeeps DEF PInv

LEMMA NextKeeps == PInv /\ [ScanNext]_scanVars => PInv'
<1> SUFFICES ASSUME PInv, [ScanNext]_scanVars PROVE PInv'
  OBVIOUS
<1>1. CASE UNCHANGED scanVars
  <2>1. ScanTypeOK'
    BY <1>1 DEF PInv, ScanTypeOK, scanVars, rows
  <2>2. running' = running
    BY <1>1 DEF running, Runs, scanVars
  <2>3. CountInv'
    BY <1>1, <2>2, CountSame DEF PInv, scanVars
  <2>4. AloneInv'
    BY <1>1 DEF PInv, AloneInv, scanVars, rows, Runs, Progress, HasRead, HasDocuments,
       HasTexts, HasRequirements, RowsAgree, RowAgrees, HasRow, NamedIn
  <2> QED
    BY <2>1, <2>3, <2>4 DEF PInv
<1>2. CASE RequestScan \/ NoticeFires \/ ClaimFails \/ StartupCheck
  BY <1>2, AsksKeep
<1>3. ASSUME NEW s \in Scans, ScanStep(s) PROVE PInv'
  <2>1. CASE \E f \in Files : ReadFile(s, f) \/ UpsertDocument(s, f)
    BY <2>1, ReadFileKeeps, UpsertDocumentKeeps
  <2>2. CASE \E f \in RequirementFiles : ReadText(s, f) \/ UpsertRequirement(s, f)
    BY <2>2, ReadTextKeeps, UpsertRequirementKeeps
  <2>3. CASE UpsertTask(s) \/ WriteMap(s) \/ RemoveDocuments(s)
    BY <2>3, UpsertTaskKeeps, WriteMapKeeps, RemoveKeeps
  <2>4. CASE DocumentsDone(s) \/ TextsRead(s) \/ DeriveTasks(s) \/ FinishScan(s)
    BY <2>4, DocumentsDoneKeeps, TextsReadKeeps, DeriveTasksKeeps, FinishKeeps
  <2>5. CASE StepFails(s) \/ \E f \in Files : ReadFails(s, f)
    BY <2>5, FailureKeeps
  <2> QED
    BY <1>3, <2>1, <2>2, <2>3, <2>4, <2>5 DEF ScanStep
<1>4. CASE \E f \in Files, c \in Contents : FileChanges(f, c)
  BY <1>4, ChangeKeeps
<1> QED
  BY <1>1, <1>2, <1>3, <1>4, CrashKeeps DEF ScanNext

LEMMA ScanAlways == ScanSpec => []PInv
<1>1. ScanInit => PInv
  BY ScanInitInv
<1> QED
  BY <1>1, NextKeeps, PTL DEF ScanSpec

\* Every scan holds what its step lets it hold, for any number of scans
\* (scanProject).
THEOREM ScansAreTyped == ScanSpec => []ScanTypeOK
<1>1. PInv => ScanTypeOK
  BY DEF PInv
<1> QED
  BY <1>1, ScanAlways, PTL

\* However scans are asked for, end, fail and are cut short by crashes, three of
\* them never run at once (startProjectScan, StartupProjectScanService).
THEOREM AtMostTwoScans == ScanSpec => []NeverThreeScans
<1>1. PInv => NeverThreeScans
  BY DEF PInv, CountInv, NeverThreeScans, running
<1> QED
  BY <1>1, ScanAlways, PTL

\* A scan that ran alone on files that rested has left the rows of Document as
\* the files are, and of each Requirement whose file is the first to name it what
\* an update writes; source, createdAt and an unstated status it leaves as they
\* were (syncRequirementsFromMarkdown).
THEOREM CleanScanIsRight == ScanSpec => []CleanScanAgrees
<1>1. PInv => CleanScanAgrees
  BY DEF PInv, AloneInv, CleanScanAgrees
<1> QED
  BY <1>1, ScanAlways, PTL
=============================================================================
