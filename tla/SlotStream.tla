----------------------------- MODULE SlotStream -----------------------------
(***************************************************************************)
(* SlotTerminalStreamRecorder: one pane's output, read from tmux through a  *)
(* pipe-pane that writes a FIFO, numbered, kept in a ring and given to the  *)
(* viewers that subscribed.  Setting the pipe up takes five awaited steps   *)
(* (pipe state, stop, clear the owner, FIFO, start, set the owner), taking  *)
(* it down two; in between viewers come, pause, resume and go, the stream   *)
(* breaks, tmux fails, timers fire and the server is restarted.             *)
(*                                                                         *)
(* tmux is external: of a pane it holds the pipe (none, one that is not the *)
(* console's, or one that writes a FIFO) and the option that names the      *)
(* pipe's owner.  A pipe whose FIFO nobody reads ends at its next output.   *)
(***************************************************************************)
EXTENDS Naturals

CONSTANTS
  Viewers,    \* subscriptions; each is made, and released, once
  Sources,    \* FIFOs; a path is used again when it was removed
  NoSource,
  Pausing,    \* bound: the viewers that pause
  MaxChunks,  \* bound: chunks of one recorder
  MaxFaults   \* bound: failures, restarts of the pane and of the server

ASSUME StreamAssumption == NoSource \notin Sources /\ {MaxChunks, MaxFaults} \subseteq Nat
                           /\ {"none", "foreign"} \intersect Sources = {}

VARIABLES
  recorder,    \* state; "none" when the registry has no recorder in use
  idleTimer,   \* armed when the last viewer left
  retryTimer,  \* armed when the recorder is degraded
  ownsPipe,
  fifoSource,  \* the source whose stream is attached
  oldest,      \* the ring holds the chunks oldest..nextSeq-1
  nextSeq,
  sub,         \* each viewer's subscription; "lost": closed under it
  awaiting,    \* viewers whose subscribe() still awaits the start
  cursor,
  got,         \* the chunk each viewer must see next, 0 when it missed one
  told,        \* the mode each viewer was told last
  task,        \* coroutines between two awaits
  pipe, owner, \* tmux: the pane's pipe and whether its owner is set
  fifo,        \* FIFOs: none, one with a reader, one a pipe came to write
  faults

streamVars == <<recorder, idleTimer, retryTimer, ownsPipe, fifoSource, oldest,
                nextSeq, sub, awaiting, cursor, got, told, task, pipe, owner,
                fifo, faults>>
viewing == <<oldest, nextSeq, cursor, got>>
tmux == <<pipe, owner, fifo>>

\* startAttempt; the two events of one broken stream; close after the timer.
Tasks == {"start", "break", "echo", "idle"}
Opening == {"probe", "reclaim", "unown", "forget", "open", "pipe", "own"}
Closing == {"stop", "clear", "end"}
NoTask == [at |-> "none", src |-> NoSource, gone |-> FALSE]

StreamTypeOK ==
  /\ recorder \in {"none", "starting", "streaming", "degraded"}
  /\ {idleTimer, retryTimer, ownsPipe, owner} \subseteq BOOLEAN
  /\ fifoSource \in Sources \union {NoSource}
  /\ oldest \in 1..nextSeq /\ nextSeq \in 1..MaxChunks + 1
  /\ sub \in [Viewers -> {"new", "on", "paused", "lost", "gone"}]
  /\ awaiting \subseteq Viewers
  /\ cursor \in [Viewers -> 1..MaxChunks + 1]
  /\ got \in [Viewers -> 0..MaxChunks + 1]
  /\ told \in [Viewers -> {"none", "stream", "fallback"}]
  /\ task \in [Tasks -> [at : {"none"} \union Opening \union Closing,
                         src : Sources \union {NoSource}, gone : BOOLEAN]]
  /\ pipe \in Sources \union {"none", "foreign"}
  /\ fifo \in [Sources -> {"none", "open", "fed"}]
  /\ faults \in 0..MaxFaults

Closed(ss) == [s \in Sources |-> IF s \in ss THEN "none" ELSE fifo[s]]
Read(s) == s \in Sources /\ fifo[s] # "none"
Subscribed == {v \in Viewers : sub[v] \in {"on", "paused"}}
Running(t) == task[t].at # "none"
Set(t, at) == task' = [task EXCEPT ![t].at = at]
Done(t) == task' = [task EXCEPT ![t] = NoTask]
Fault == faults < MaxFaults /\ faults' = faults + 1
NoFault == UNCHANGED faults

StreamInit ==
  /\ recorder = "none" /\ idleTimer = FALSE /\ retryTimer = FALSE
  /\ ownsPipe = FALSE /\ fifoSource = NoSource
  /\ oldest = 1 /\ nextSeq = 1
  /\ sub = [v \in Viewers |-> "new"] /\ awaiting = {}
  /\ cursor = [v \in Viewers |-> 1] /\ got = [v \in Viewers |-> 1]
  /\ told = [v \in Viewers |-> "none"]
  /\ task = [t \in Tasks |-> NoTask]
  /\ pipe \in {"none", "foreign"} /\ owner = FALSE
  /\ fifo = [s \in Sources |-> "none"]
  /\ faults = 0

(***************************************************************************)
(* Viewers.                                                                *)
(***************************************************************************)
\* The synchronous part of startAttempt, up to its first call of tmux.
BeginStart ==
  /\ task' = [task EXCEPT !["start"] = [NoTask EXCEPT !.at = "probe"]]
  /\ fifo' = Closed({fifoSource}) /\ fifoSource' = NoSource
  /\ retryTimer' = FALSE /\ recorder' = "starting"

\* Mutant of ModeTold: the recorder's state is told as it is.
StateTold == recorder

ModeTold == CASE recorder = "streaming" -> "stream"
              [] recorder = "degraded" -> "fallback"
              [] OTHER -> "none"

\* A closed recorder has been replaced by a new one, whose ring is empty.
Subscribe(v) ==
  /\ sub[v] = "new"
  /\ sub' = [sub EXCEPT ![v] = "on"] /\ idleTimer' = FALSE
  /\ cursor' = [cursor EXCEPT ![v] = nextSeq]
  /\ got' = [got EXCEPT ![v] = nextSeq]
  /\ told' = [told EXCEPT ![v] = ModeTold]
  /\ awaiting' = IF recorder = "streaming" THEN awaiting ELSE awaiting \union {v}
  /\ IF recorder = "streaming" \/ Running("start")
       THEN UNCHANGED <<task, fifo, fifoSource, retryTimer, recorder>>
       ELSE BeginStart
  /\ ownsPipe' = (recorder # "none" /\ ownsPipe)
  /\ UNCHANGED <<oldest, nextSeq, pipe, owner, faults>>

Pause(v) ==
  /\ sub[v] = "on" /\ v \in Pausing \ awaiting
  /\ sub' = [sub EXCEPT ![v] = "paused"]
  /\ UNCHANGED <<recorder, idleTimer, retryTimer, ownsPipe, fifoSource, oldest,
                 nextSeq, awaiting, cursor, got, told, task, tmux, faults>>

\* Mutant of Gap: what the ring has dropped is not looked at.
GapOnlyDegraded(v) == recorder = "degraded"

\* What replayFrom gives a viewer: word of a gap, or what the ring has from its
\* cursor on.
Gap(v) == recorder = "degraded" \/ cursor[v] < oldest
AfterReplay(v) ==
  IF Gap(v) \/ (got[v] = cursor[v] /\ oldest <= cursor[v]) THEN nextSeq ELSE 0

Resume(v) ==
  /\ sub[v] = "paused"
  /\ sub' = [sub EXCEPT ![v] = "on"]
  /\ cursor' = [cursor EXCEPT ![v] = nextSeq]
  /\ got' = [got EXCEPT ![v] = AfterReplay(v)]
  /\ UNCHANGED <<recorder, idleTimer, retryTimer, ownsPipe, fifoSource, oldest,
                 nextSeq, awaiting, told, task, tmux, faults>>

\* Mutant of Release: the idle timer is armed only while the recorder streams.
ReleaseStreaming(v) ==
  /\ sub[v] \notin {"new", "gone"} /\ v \notin awaiting
  /\ sub' = [sub EXCEPT ![v] = "gone"] /\ told' = [told EXCEPT ![v] = "none"]
  /\ cursor' = [cursor EXCEPT ![v] = 1] /\ got' = [got EXCEPT ![v] = 1]
  /\ idleTimer' = (idleTimer \/ (recorder = "streaming" /\ Subscribed \ {v} = {}))
  /\ UNCHANGED <<recorder, retryTimer, ownsPipe, fifoSource, oldest, nextSeq,
                 awaiting, task, tmux, faults>>

Release(v) ==
  /\ sub[v] \notin {"new", "gone"} /\ v \notin awaiting
  /\ sub' = [sub EXCEPT ![v] = "gone"] /\ told' = [told EXCEPT ![v] = "none"]
  /\ cursor' = [cursor EXCEPT ![v] = 1] /\ got' = [got EXCEPT ![v] = 1]
  /\ idleTimer' = (idleTimer \/ (recorder # "none" /\ Subscribed \ {v} = {}))
  /\ UNCHANGED <<recorder, retryTimer, ownsPipe, fifoSource, oldest, nextSeq,
                 awaiting, task, tmux, faults>>

(***************************************************************************)
(* Starting: startAttempt, one awaited call per step.                      *)
(***************************************************************************)
\* Mutant of EnterDegraded: viewers that are paused are not told.
DegradedTellsOn ==
  /\ recorder' = "degraded"
  /\ told' = [v \in Viewers |-> IF sub[v] = "on" THEN "fallback" ELSE told[v]]
  /\ retryTimer' = (retryTimer \/ Subscribed # {})

\* Mutant of EnterDegraded: the retry is armed only after a stream broke.
DegradedAfterStream ==
  /\ recorder' = "degraded"
  /\ told' = [v \in Viewers |-> IF v \in Subscribed THEN "fallback" ELSE told[v]]
  /\ retryTimer' = (retryTimer \/ (recorder = "streaming" /\ Subscribed # {}))

\* Every subscriber is told, the retry is armed if there is one.
EnterDegraded ==
  /\ recorder' = "degraded"
  /\ told' = [v \in Viewers |-> IF v \in Subscribed THEN "fallback" ELSE told[v]]
  /\ retryTimer' = (retryTimer \/ Subscribed # {})

\* closePipeResources: what t has to undo, source s first taken away.
CloseFrom(t, gone) ==
  /\ task' = [task EXCEPT ![t] = [at |-> IF ownsPipe THEN "stop" ELSE "end",
                                  src |-> fifoSource, gone |-> gone]]
  /\ fifoSource' = NoSource

\* The catch of startAttempt.
StartFails ==
  /\ task["start"].at \in Opening \ {"forget"}
  /\ Fault /\ CloseFrom("start", FALSE)
  /\ UNCHANGED <<recorder, idleTimer, retryTimer, ownsPipe, viewing, sub,
                 awaiting, told, tmux>>

StartKeeps == UNCHANGED <<recorder, idleTimer, retryTimer, viewing, sub,
                          awaiting, told>>

\* getPanePipe: a pipe without an owner is not the console's to stop.
Probe ==
  /\ task["start"].at = "probe" /\ NoFault
  /\ IF pipe # "none" /\ ~owner
       THEN /\ EnterDegraded /\ Done("start") /\ awaiting' = {}
            /\ UNCHANGED <<idleTimer, viewing, sub>>
       ELSE /\ Set("start", CASE pipe # "none" -> "reclaim"
                              [] owner -> "forget"
                              [] OTHER -> "open")
            /\ StartKeeps
  /\ UNCHANGED <<ownsPipe, fifoSource, tmux>>

Reclaim ==
  /\ task["start"].at = "reclaim" /\ Set("start", "unown") /\ NoFault
  /\ pipe' = "none"
  /\ StartKeeps /\ UNCHANGED <<ownsPipe, fifoSource, owner, fifo>>

Unown ==
  /\ task["start"].at = "unown" /\ Set("start", "open") /\ NoFault
  /\ owner' = FALSE
  /\ StartKeeps /\ UNCHANGED <<ownsPipe, fifoSource, pipe, fifo>>

\* A stale owner option; that it cannot be cleared is ignored.
Forget ==
  /\ task["start"].at = "forget" /\ Set("start", "open")
  /\ (owner' = FALSE /\ NoFault) \/ (UNCHANGED owner /\ Fault)
  /\ StartKeeps /\ UNCHANGED <<ownsPipe, fifoSource, pipe, fifo>>

OpenFifo ==
  /\ task["start"].at = "open" /\ Set("start", "pipe") /\ NoFault
  /\ LET free == {s \in Sources \ {pipe} : fifo[s] = "none"}
     IN free # {} /\ fifoSource' = CHOOSE s \in free : TRUE
  /\ fifo' = [fifo EXCEPT ![fifoSource'] = "open"]
  /\ StartKeeps /\ UNCHANGED <<ownsPipe, pipe, owner>>

\* pipe-pane -o: a pipe that is there is closed, and none is opened.
StartPipe ==
  /\ task["start"].at = "pipe" /\ Set("start", "own") /\ NoFault
  /\ pipe' = IF pipe = "none" THEN fifoSource ELSE "none"
  /\ fifo' = IF pipe = "none" THEN [fifo EXCEPT ![fifoSource] = "fed"] ELSE fifo
  /\ ownsPipe' = TRUE
  /\ StartKeeps /\ UNCHANGED <<fifoSource, owner>>

SetOwner ==
  /\ task["start"].at = "own" /\ Done("start") /\ NoFault
  /\ owner' = TRUE /\ recorder' = "streaming" /\ awaiting' = {}
  /\ told' = [v \in Viewers |-> IF v \in Subscribed THEN "stream" ELSE told[v]]
  /\ UNCHANGED <<idleTimer, retryTimer, ownsPipe, fifoSource, viewing, sub,
                 pipe, fifo>>

\* Mutant of RetryFires: viewers that are paused do not count.
RetryUnpaused ==
  /\ retryTimer
  /\ IF recorder = "degraded" /\ (\E v \in Viewers : sub[v] = "on") /\ ~Running("start")
       THEN BeginStart
       ELSE retryTimer' = FALSE /\ UNCHANGED <<task, fifo, fifoSource, recorder>>
  /\ UNCHANGED <<idleTimer, ownsPipe, viewing, sub, awaiting, told, pipe, owner,
                 faults>>

RetryFires ==
  /\ retryTimer
  /\ IF recorder = "degraded" /\ Subscribed # {} /\ ~Running("start")
       THEN BeginStart
       ELSE retryTimer' = FALSE /\ UNCHANGED <<task, fifo, fifoSource, recorder>>
  /\ UNCHANGED <<idleTimer, ownsPipe, viewing, sub, awaiting, told, pipe, owner,
                 faults>>

(***************************************************************************)
(* The stream and its end.                                                 *)
(***************************************************************************)
Deliver(v) == sub[v] = "on" /\ cursor[v] <= nextSeq

\* emitData; the ring keeps the newest chunk and as many more as fit.
EmitData ==
  /\ recorder = "streaming" /\ nextSeq <= MaxChunks
  /\ Read(fifoSource) /\ pipe = fifoSource
  /\ nextSeq' = nextSeq + 1 /\ oldest' \in oldest..nextSeq
  /\ got' = [v \in Viewers |->
                IF Deliver(v) THEN IF got[v] = nextSeq THEN nextSeq + 1 ELSE 0
                ELSE got[v]]
  /\ cursor' = [v \in Viewers |->
                   IF Deliver(v) THEN nextSeq + 1 ELSE cursor[v]]
  /\ UNCHANGED <<recorder, idleTimer, retryTimer, ownsPipe, fifoSource, sub,
                 awaiting, told, task, tmux, faults>>

StreamBreaks ==
  /\ recorder = "streaming" /\ Read(fifoSource)
  /\ ~Running("break") /\ ~Running("echo")
  /\ CloseFrom("break", FALSE)
  /\ UNCHANGED <<recorder, idleTimer, retryTimer, ownsPipe, viewing, sub,
                 awaiting, told, tmux>>

\* "end": the writer is gone.
StreamEnds == StreamBreaks /\ NoFault /\ fifo[fifoSource] = "fed"
              /\ pipe # fifoSource
StreamFails == StreamBreaks /\ Fault

\* "close" follows while the first handler still awaits tmux.
StreamCloses ==
  /\ recorder = "streaming" /\ task["break"].at \in {"stop", "clear"}
  /\ ~task["break"].gone /\ ~Running("echo")
  /\ CloseFrom("echo", FALSE)
  /\ UNCHANGED <<recorder, idleTimer, retryTimer, ownsPipe, viewing, sub,
                 awaiting, told, tmux, faults>>

ClosingKeeps == UNCHANGED <<idleTimer, fifoSource, viewing, sub>>

CloseStop(t) ==
  /\ task[t].at = "stop" /\ Set(t, "clear")
  /\ (pipe' = "none" /\ NoFault) \/ (UNCHANGED pipe /\ Fault)
  /\ ClosingKeeps
  /\ UNCHANGED <<recorder, retryTimer, ownsPipe, awaiting, told, owner, fifo>>

CloseClear(t) ==
  /\ task[t].at = "clear" /\ Set(t, "end")
  /\ (owner' = FALSE /\ NoFault) \/ (UNCHANGED owner /\ Fault)
  /\ ownsPipe' = (ownsPipe /\ task[t].gone)
  /\ ClosingKeeps
  /\ UNCHANGED <<recorder, retryTimer, awaiting, told, pipe, fifo>>

\* The source is destroyed and the recorder, unless closed, is degraded.
CloseEnds(t) ==
  /\ task[t].at = "end" /\ Done(t)
  /\ fifo' = Closed({task[t].src})
  /\ IF task[t].gone THEN UNCHANGED <<recorder, told, retryTimer>>
                     ELSE EnterDegraded
  /\ awaiting' = IF t = "start" THEN {} ELSE awaiting
  /\ ClosingKeeps /\ UNCHANGED <<ownsPipe, pipe, owner, faults>>

\* Assumed: a start is over within the five minutes of the timer.
IdleFires ==
  /\ idleTimer /\ ~Running("start") /\ ~Running("idle")
  /\ idleTimer' = FALSE /\ retryTimer' = FALSE /\ recorder' = "none"
  /\ sub' = [v \in Viewers |-> IF v \in Subscribed THEN "lost" ELSE sub[v]]
  /\ task' = [t \in Tasks |->
       IF t = "idle" THEN [at |-> IF ownsPipe THEN "stop" ELSE "end",
                           src |-> fifoSource, gone |-> TRUE]
       ELSE [task[t] EXCEPT !.gone = task[t].at # "none"]]
  /\ fifoSource' = NoSource /\ ownsPipe' = FALSE
  /\ oldest' = 1 /\ nextSeq' = 1
  /\ UNCHANGED <<cursor, got, awaiting, told, tmux, faults>>

(***************************************************************************)
(* tmux, the pane's user and the server.                                   *)
(***************************************************************************)
\* A pipe into a FIFO without a reader ends; the user opens and closes one.
PipeChanges ==
  /\ \/ pipe \in Sources /\ ~Read(pipe) /\ pipe' = "none" /\ NoFault
     \/ pipe = "foreign" /\ pipe' = "none" /\ NoFault
     \/ pipe = "none" /\ pipe' = "foreign" /\ Fault
  /\ UNCHANGED <<recorder, idleTimer, retryTimer, ownsPipe, fifoSource, viewing,
                 sub, awaiting, told, task, owner, fifo>>

PaneRestarts ==
  /\ Fault /\ pipe' = "none" /\ owner' = FALSE
  /\ UNCHANGED <<recorder, idleTimer, retryTimer, ownsPipe, fifoSource, viewing,
                 sub, awaiting, told, task, fifo>>

ServerRestarts ==
  /\ Fault
  /\ recorder' = "none" /\ idleTimer' = FALSE /\ retryTimer' = FALSE
  /\ ownsPipe' = FALSE /\ fifoSource' = NoSource
  /\ fifo' = [s \in Sources |-> "none"]
  /\ oldest' = 1 /\ nextSeq' = 1
  /\ sub' = [v \in Viewers |-> IF sub[v] = "new" THEN "new" ELSE "gone"]
  /\ awaiting' = {}
  /\ cursor' = [v \in Viewers |-> 1] /\ got' = [v \in Viewers |-> 1]
  /\ told' = [v \in Viewers |-> "none"] /\ task' = [t \in Tasks |-> NoTask]
  /\ UNCHANGED <<pipe, owner>>

StartStep == \/ Probe \/ Reclaim \/ Unown \/ Forget \/ OpenFifo \/ StartPipe
             \/ SetOwner \/ StartFails
CloseStep(t) == CloseStop(t) \/ CloseClear(t) \/ CloseEnds(t)

StreamNext ==
  \/ \E v \in Viewers : Subscribe(v) \/ Pause(v) \/ Resume(v) \/ Release(v)
  \/ StartStep \/ RetryFires
  \/ EmitData \/ StreamEnds \/ StreamFails \/ StreamCloses
  \/ \E t \in Tasks : CloseStep(t)
  \/ IdleFires
  \/ PipeChanges \/ PaneRestarts \/ ServerRestarts

\* Coroutines go on, timers fire, the end of a stream is delivered.
StreamFairness ==
  /\ WF_streamVars(StartStep) /\ \A t \in Tasks : WF_streamVars(CloseStep(t))
  /\ WF_streamVars(RetryFires) /\ WF_streamVars(IdleFires)
  /\ WF_streamVars(StreamEnds)

StreamSpec == StreamInit /\ [][StreamNext]_streamVars
FairStreamSpec == StreamSpec /\ StreamFairness

(***************************************************************************)
(* Properties.                                                             *)
(***************************************************************************)
Feed == INSTANCE PaneFeed WITH
  emitted <- IF recorder = "none" THEN 0 ELSE nextSeq - 1,
  due <- got,
  mode <- [v \in Viewers |-> CASE sub[v] \in {"new", "gone"} -> "out"
                               [] sub[v] = "on" -> "on"
                               [] OTHER -> "held"]

\* The stream gives every viewer what PaneFeed promises: each chunk once and
\* in order, or word of a gap, through pauses, replays from the ring, breaks
\* and restarts; and no recorder is closed under a viewer (emitData, resume,
\* the idle timer and its cancellation).
ImplementsPaneFeed == Feed!Spec

\* A viewer of a degraded recorder was last told so, one of a streaming
\* recorder was last told that it streams: the two coroutines of one broken
\* stream and a start beside them leave nobody with the wrong mode (emitMode,
\* currentModeEvent).
ToldMode == \A v \in Subscribed :
  /\ recorder = "degraded" => told[v] = "fallback"
  /\ recorder = "streaming" => told[v] = "stream"

\* A degraded recorder that somebody watches will be started again: its retry
\* is armed or a start is under way (enterDegraded, scheduleRetry,
\* ensureStarted when the first viewer comes back).
RetryPending ==
  recorder = "degraded" /\ Subscribed # {} => retryTimer \/ Running("start")

\* Somebody else's pipe, or one whose owner was not recorded.
Blocked == pipe # "none" /\ ~owner /\ ~Read(pipe)

\* As long as somebody watches and no pipe of somebody else is in the way, the
\* recorder comes to stream and stays with it, whatever failed before.
Recovers == (<>[](Subscribed # {} /\ ~Blocked)) => <>[](recorder = "streaming")

\* When the last viewer has left, the recorder goes, with its FIFO and its
\* reader: neither a start nor a break that was under way leaves one behind.
LastViewerLeavesNothing ==
  (<>[](Subscribed = {})) => <>[](recorder = "none" /\ \A s \in Sources : ~Read(s))
=============================================================================
