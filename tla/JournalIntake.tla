--------------------------- MODULE JournalIntake ---------------------------
(***************************************************************************)
(* The events that the agents' plugin reports, on their way from the file    *)
(* journal of a project to its rows in EventJournal.  The plugin appends a   *)
(* line and posts a hook, which may be lost.  A hook applies its own event   *)
(* to the slots and asks for a scan when the row of the last line of the     *)
(* file is missing (checkPluginJournalWatermark), at most every 30 seconds   *)
(* for the same line.  A scan goes over the file from its first line and     *)
(* writes a row for each (syncPluginEventJournal).  Scans overlap, fail and  *)
(* are lost in a crash between any two steps.                                *)
(*                                                                         *)
(* A line is Broken, or the id of its event: lines with the same key have    *)
(* the same id.  What a row holds is left out.                               *)
(***************************************************************************)
EXTENDS Naturals, Sequences

CONSTANTS
  EventIds, Broken, NoMark,
  Outcomes,    \* ids of outcomes, which are applied to the slots
  Shared,      \* ids that the journal of another project has, too
  Hooks,       \* requests of the plugin that are answered at once
  Readers,     \* scans that run at once
  MaxLines,    \* bound: lines of the file
  MaxFailures  \* bound: steps that fail, and crashes

ASSUME IntakeAssumption ==
  /\ Broken \notin EventIds /\ NoMark \notin EventIds
  /\ MaxLines \in Nat /\ MaxFailures \in Nat

VARIABLES
  journal,
  stored,    \* whose row an id has: nobody's, this or another project's
  applied,   \* outcomes that were applied to the slots
  hook,      \* requests that look for a row: want a scan, the last line's id
  cooldown,  \* ids that a scan was asked for in the last 30 seconds
  debounce,  \* the timer of queueProjectScan
  scanning,  \* the project's syncStatus is that
  reader,    \* each scan's step, the lines it has read, the line it is at
  restarted, \* the startup's own check is still to come
  failures

intakeVars == <<journal, stored, applied, hook, cooldown, debounce, scanning,
                reader, restarted, failures>>

Lines == 0..MaxLines
NoHook == [at |-> "none", asks |-> FALSE, mark |-> NoMark]
NoReader == [at |-> "none", upto |-> 0, next |-> 1]

\* Lines, rows, hooks and scans keep their types: a scan is at a line that the
\* file may have (syncPluginEventJournal).
IntakeTypeOK ==
  /\ journal \in Seq(EventIds \cup {Broken}) /\ Len(journal) =< MaxLines
  /\ stored \in [EventIds -> {"none", "own", "other"}]
  /\ applied \subseteq Outcomes
  /\ hook \in [Hooks -> [at : {"none", "row"}, asks : BOOLEAN,
                         mark : EventIds \cup {NoMark}]]
  /\ cooldown \subseteq EventIds
  /\ debounce \in BOOLEAN /\ scanning \in BOOLEAN /\ restarted \in BOOLEAN
  /\ reader \in [Readers -> [at : {"none", "before", "line", "outcome", "after"},
                             upto : Lines, next : 1..MaxLines + 1]]
  /\ failures \in 0..MaxFailures

IntakeInit ==
  /\ journal = <<>> /\ stored = [e \in EventIds |-> "none"] /\ applied = {}
  /\ hook = [h \in Hooks |-> NoHook] /\ cooldown = {} /\ debounce = FALSE
  /\ scanning = FALSE /\ reader = [s \in Readers |-> NoReader]
  /\ restarted = FALSE /\ failures = 0

Failure == failures < MaxFailures /\ failures' = failures + 1

-----------------------------------------------------------------------------
\* The plugin appends, and another project that has the same line is scanned:
\* the id of a row is unique among all projects.
AppendLine(l) ==
  /\ Len(journal) < MaxLines /\ journal' = Append(journal, l)
  /\ UNCHANGED <<stored, applied, hook, cooldown, debounce, scanning, reader,
                 restarted, failures>>

OtherRecords(e) ==
  /\ e \in Shared /\ stored[e] = "none"
  /\ stored' = [stored EXCEPT ![e] = "other"]
  /\ UNCHANGED <<journal, applied, hook, cooldown, debounce, scanning, reader,
                 restarted, failures>>

-----------------------------------------------------------------------------
(* A request to the route of the hooks.                                    *)
\* checkPluginJournalWatermark reads the file: one line that cannot be parsed
\* leaves it without a watermark.
Watermark ==
  IF journal # <<>> /\ \A i \in 1..Len(journal) : journal[i] # Broken
    THEN journal[Len(journal)] ELSE NoMark

\* The event is applied to the slots; an event about a document is indexed at
\* once, and asks for a scan when it cannot be (dispatchArtifactReindex).  Then
\* the file is read, or cannot be.
HookArrives(h, e, asks) ==
  /\ hook[h] = NoHook /\ (asks => e \notin Outcomes)
  /\ applied' = applied \cup ({e} \cap Outcomes)
  /\ \E mark \in {Watermark, NoMark} :
       /\ \/ mark = Watermark /\ UNCHANGED failures
          \/ mark = NoMark /\ Failure
       /\ hook' = [hook EXCEPT ![h] = [at |-> "row", asks |-> asks, mark |-> mark]]
  /\ UNCHANGED <<journal, stored, cooldown, debounce, scanning, reader,
                 restarted>>

\* The row of the last line is looked for.
HookDecides(h) ==
  LET mark == hook[h].mark
      asksNow == mark # NoMark /\ stored[mark] # "own" /\ mark \notin cooldown
  IN  /\ hook[h].at = "row" /\ hook' = [hook EXCEPT ![h] = NoHook]
      /\ debounce' = (debounce \/ hook[h].asks \/ asksNow)
      /\ cooldown' = IF asksNow THEN cooldown \cup {mark}
                     ELSE {e \in cooldown : e = mark => stored[e] # "own"}
      /\ UNCHANGED <<journal, stored, applied, scanning, reader, restarted,
                     failures>>

\* The row cannot be read: only the document can ask.
HookFails(h) ==
  /\ hook[h].at = "row" /\ Failure
  /\ hook' = [hook EXCEPT ![h] = NoHook]
  /\ debounce' = (debounce \/ hook[h].asks)
  /\ UNCHANGED <<journal, stored, applied, cooldown, scanning, reader,
                 restarted>>

\* Mutant of CooldownEnds: only the row of the line ends it.
CooldownEndsStored(e) ==
  /\ e \in cooldown /\ stored[e] = "own" /\ cooldown' = cooldown \ {e}
  /\ UNCHANGED <<journal, stored, applied, hook, debounce, scanning, reader,
                 restarted, failures>>

CooldownEnds(e) ==
  /\ e \in cooldown /\ cooldown' = cooldown \ {e}
  /\ UNCHANGED <<journal, stored, applied, hook, debounce, scanning, reader,
                 restarted, failures>>

-----------------------------------------------------------------------------
(* Scans.                                                                  *)
StartReader ==
  /\ \E s \in Readers : reader[s].at = "none"
  /\ LET new == CHOOSE s \in Readers : reader[s].at = "none"
     IN  reader' = [reader EXCEPT ![new].at = "before"]

\* startProjectScan; a project that is being scanned is left alone.
StartScan ==
  /\ IF scanning THEN UNCHANGED <<scanning, reader>>
     ELSE scanning' = TRUE /\ StartReader
  /\ UNCHANGED <<journal, stored, applied, hook, cooldown, restarted, failures>>

DebounceFires == debounce /\ debounce' = FALSE /\ StartScan
UserScans == StartScan /\ UNCHANGED debounce

\* The project was claimed and its job cannot be created.
StartScanFails ==
  /\ ~scanning /\ scanning' = TRUE /\ Failure
  /\ debounce' = FALSE \/ UNCHANGED debounce
  /\ UNCHANGED <<journal, stored, applied, hook, cooldown, reader, restarted>>

\* StartupProjectScanService: only a newer document makes it scan; the journal
\* is none.
StartupScans(newer) ==
  /\ restarted /\ restarted' = FALSE
  /\ IF newer THEN scanning' = TRUE /\ StartReader
     ELSE UNCHANGED <<scanning, reader>>
  /\ UNCHANGED <<journal, stored, applied, hook, cooldown, debounce, failures>>

\* Scan s goes on with line next of those it read, or with its last steps.
ReaderGoes(s, upto, next) ==
  reader' = [reader EXCEPT ![s] =
    IF next =< upto THEN [at |-> "line", upto |-> upto, next |-> next]
                    ELSE [at |-> "after", upto |-> 0, next |-> 1]]
ReaderKeeps == UNCHANGED <<journal, hook, cooldown, debounce, restarted>>

ReadJournal(s) ==
  /\ reader[s].at = "before" /\ ReaderGoes(s, Len(journal), 1)
  /\ ReaderKeeps /\ UNCHANGED <<stored, applied, scanning, failures>>

\* The line the scan is at, and the step after it.
Line(s) == journal[reader[s].next]
NextLine(s) == ReaderGoes(s, reader[s].upto, reader[s].next + 1)
LineStored(s) ==
  IF Line(s) \in Outcomes THEN reader' = [reader EXCEPT ![s].at = "outcome"]
                          ELSE NextLine(s)

\* What cannot be parsed is an issue of the job.
SkipLine(s) ==
  /\ reader[s].at = "line" /\ Line(s) = Broken /\ NextLine(s)
  /\ ReaderKeeps /\ UNCHANGED <<stored, applied, scanning, failures>>

\* The upsert leaves a row with the project that created it.
Upserted(e) == [stored EXCEPT ![e] = IF @ = "none" THEN "own" ELSE @]

RecordLine(s) ==
  /\ reader[s].at = "line" /\ Line(s) # Broken
  /\ stored' = Upserted(Line(s)) /\ LineStored(s)
  /\ ReaderKeeps /\ UNCHANGED <<applied, scanning, failures>>

ApplyLine(s) ==
  /\ reader[s].at = "outcome" /\ NextLine(s)
  /\ applied' = applied \cup {Line(s)}
  /\ ReaderKeeps /\ UNCHANGED <<stored, scanning, failures>>

\* What follows in the scan is left out, up to its last step.
ScanEnds(s) ==
  /\ reader[s].at = "after" /\ reader' = [reader EXCEPT ![s] = NoReader]
  /\ scanning' = FALSE
  /\ ReaderKeeps /\ UNCHANGED <<stored, applied, failures>>

\* Mutant of UpsertFails: the line is an issue of the job as well.
UpsertSkipped(s) ==
  /\ reader[s].at = "line" /\ Line(s) # Broken /\ Failure /\ NextLine(s)
  /\ stored' \in {stored, Upserted(Line(s))}
  /\ ReaderKeeps /\ UNCHANGED <<applied, scanning>>

\* withProjectionRetry: an attempt failed and another follows; it may have
\* written the row all the same.
UpsertFails(s) ==
  /\ reader[s].at = "line" /\ Line(s) # Broken /\ Failure
  /\ stored' \in {stored, Upserted(Line(s))}
  /\ ReaderKeeps /\ UNCHANGED <<applied, scanning, reader>>

\* Any other step fails, or the last attempt: the scan ends as failed.
ReaderFails(s) ==
  /\ reader[s].at # "none" /\ Failure
  /\ reader' = [reader EXCEPT ![s] = NoReader] /\ scanning' = FALSE
  /\ ReaderKeeps /\ UNCHANGED <<stored, applied>>

CrashIntake ==
  /\ Failure /\ restarted' = TRUE
  /\ hook' = [h \in Hooks |-> NoHook] /\ cooldown' = {} /\ debounce' = FALSE
  /\ reader' = [s \in Readers |-> NoReader]
  /\ UNCHANGED <<journal, stored, applied, scanning>>

ReaderStep(s) ==
  \/ ReadJournal(s) \/ SkipLine(s) \/ RecordLine(s) \/ ApplyLine(s)
  \/ ScanEnds(s)

IntakeNext ==
  \/ \E l \in EventIds \cup {Broken} : AppendLine(l)
  \/ \E e \in EventIds : OtherRecords(e) \/ CooldownEnds(e)
  \/ \E h \in Hooks :
       \/ HookDecides(h) \/ HookFails(h)
       \/ \E e \in EventIds, asks \in BOOLEAN : HookArrives(h, e, asks)
  \/ DebounceFires \/ UserScans \/ StartScanFails
  \/ \E newer \in BOOLEAN : StartupScans(newer)
  \/ \E s \in Readers : ReaderStep(s) \/ UpsertFails(s) \/ ReaderFails(s)
  \/ CrashIntake

\* What was begun goes on: requests, scans, timers.  Nobody owes a line, a hook
\* or a failure.
IntakeFairness ==
  /\ \A h \in Hooks : WF_intakeVars(HookDecides(h))
  /\ \A s \in Readers : WF_intakeVars(ReaderStep(s))
  /\ \A e \in EventIds : WF_intakeVars(CooldownEnds(e))
  /\ WF_intakeVars(DebounceFires)
  /\ WF_intakeVars(\E newer \in BOOLEAN : StartupScans(newer))

IntakeSpec == IntakeInit /\ [][IntakeNext]_intakeVars
FairIntakeSpec == IntakeSpec /\ IntakeFairness

-----------------------------------------------------------------------------
(* Properties.                                                             *)
\* The lines up to n have rows, and their outcomes were applied.
Ingested(n) == \A i \in 1..n : journal[i] # Broken =>
  /\ stored[journal[i]] # "none"
  /\ journal[i] \in Outcomes => journal[i] \in applied

\* A row of the project vouches for every line before the first one with its
\* id: whatever scans overlap, fail or are lost, none leaves a gap.  It is what
\* makes the row of the last line a watermark (syncPluginEventJournal,
\* checkPluginJournalWatermark).
RecordedPrefix == \A i \in 1..Len(journal) :
  journal[i] # Broken /\ stored[journal[i]] = "own" =>
    \E first \in 1..i : journal[first] = journal[i] /\ Ingested(first - 1)

HooksCome ==
  \E h \in Hooks, e \in EventIds, asks \in BOOLEAN : HookArrives(h, e, asks)

\* Once the file rests without a broken line, hooks that go on coming bring in
\* every line up to the first one with the id of the last, although timers that
\* find a scan under way, cooldowns and failed scans lose what was asked for; so
\* long as no crash or failed claim leaves the project scanning for ever
\* (shouldQueueJournalWatermarkScan, queueProjectScan, startProjectScan).
LinesGetRecorded ==
  (/\ <>[][FALSE]_journal /\ <>[](Watermark # NoMark)
   /\ []<>~scanning /\ []<><<HooksCome>>_intakeVars)
  => <>[](\E first \in 1..Len(journal) :
            /\ journal[first] = Watermark /\ Ingested(first - 1)
            /\ stored[Watermark] # "none")
=============================================================================
