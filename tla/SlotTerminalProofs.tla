------------------------- MODULE SlotTerminalProofs -------------------------
(***************************************************************************)
(* The two ends of a pane's stream, for any number of viewers, sources,     *)
(* chunks, failures and hints.                                              *)
(*                                                                         *)
(* The recorder (SlotStream) gives every viewer what PaneFeed promises,     *)
(* tells it the mode, and does not forget to retry.  The inductive          *)
(* invariant joins three parts.  TaskInv: a start excludes a streaming      *)
(* recorder, has its FIFO when it pipes, and outlives no recorder; what     *)
(* still runs of a closed recorder knows that it is gone.  ViewInv: a       *)
(* viewer that is on has its cursor at the head of the ring, one that is    *)
(* subscribed has seen all before its cursor, one that is not is as new,    *)
(* and the idle timer runs only when nobody is subscribed.  The third part  *)
(* is what the two properties say.                                          *)
(*                                                                         *)
(* A connection (SlotViewer) that is closed holds nothing; one that has     *)
(* never fallen back misses nothing, always has a first picture under way   *)
(* and a check to come.  Its invariant is the second half of this module.   *)
(***************************************************************************)
EXTENDS SlotStream, SlotViewer, SequenceTheorems, TLAPS

TaskInv ==
  /\ ~task["start"].gone
  /\ Running("start") => recorder \in {"starting", "degraded"}
  /\ task["start"].at \in {"pipe", "own"} => fifoSource \in Sources
  /\ recorder = "none" => \A t \in Tasks : Running(t) => task[t].gone

ViewInv ==
  /\ \A v \in Viewers :
       /\ sub[v] # "lost"
       /\ sub[v] \in {"new", "gone"} => got[v] = 1
       /\ sub[v] = "on" => cursor[v] = nextSeq
       /\ sub[v] \in {"on", "paused"} => got[v] = cursor[v]
  /\ idleTimer => Subscribed = {}
  /\ recorder = "none" => nextSeq = 1 /\ Subscribed = {}

SInv == StreamTypeOK /\ TaskInv /\ ViewInv /\ ToldMode /\ RetryPending

TaskSet == [at : {"none"} \union Opening \union Closing,
            src : Sources \union {NoSource}, gone : BOOLEAN]

LEMMA StreamInitInv == StreamInit => SInv
<1> SUFFICES ASSUME StreamInit PROVE SInv
  OBVIOUS
<1> USE StreamAssumption DEF StreamInit
<1>1. StreamTypeOK
  <2>1. NoTask \in TaskSet
    BY DEF NoTask, TaskSet
  <2>2. task \in [Tasks -> TaskSet]
    BY <2>1
  <2>3. 1 \in 1..1 /\ 1 \in 1..MaxChunks + 1 /\ 0 \in 0..MaxFaults
    OBVIOUS
  <2>4. {idleTimer, retryTimer, ownsPipe, owner} \subseteq BOOLEAN
        /\ fifoSource \in Sources \union {NoSource}
    OBVIOUS
  <2> QED
    BY <2>2, <2>3, <2>4 DEF StreamTypeOK, TaskSet
<1>2. \A t \in Tasks : ~Running(t) /\ ~task[t].gone /\ task[t].at = "none"
  BY DEF NoTask, Running
<1>3. TaskInv
  BY <1>2 DEF TaskInv, Tasks
<1>4. Subscribed = {}
  BY DEF Subscribed
<1>5. ViewInv /\ ToldMode /\ RetryPending
  BY <1>4 DEF ViewInv, ToldMode, RetryPending
<1> QED
  BY <1>1, <1>3, <1>5 DEF SInv

(***************************************************************************)
(* What each way to change a coroutine leaves.                             *)
(***************************************************************************)
LEMMA FaultCount ==
  ASSUME StreamTypeOK, Fault \/ NoFault
  PROVE  faults' \in 0..MaxFaults
BY StreamAssumption DEF StreamTypeOK, Fault, NoFault

LEMMA SetTask ==
  ASSUME task \in [Tasks -> TaskSet], NEW t \in Tasks,
         NEW at \in Opening \union Closing, Set(t, at)
  PROVE  /\ task' \in [Tasks -> TaskSet]
         /\ task'[t].at = at /\ task'[t].gone = task[t].gone
         /\ \A u \in Tasks : u # t => task'[u] = task[u]
BY DEF TaskSet, Set

LEMMA DoneTask ==
  ASSUME task \in [Tasks -> TaskSet], NEW t \in Tasks, Done(t)
  PROVE  /\ task' \in [Tasks -> TaskSet]
         /\ task'[t].at = "none" /\ ~task'[t].gone
         /\ \A u \in Tasks : u # t => task'[u] = task[u]
BY DEF TaskSet, Done, NoTask

LEMMA CloseFromTask ==
  ASSUME task \in [Tasks -> TaskSet], NEW t \in Tasks, NEW gone \in BOOLEAN,
         fifoSource \in Sources \union {NoSource}, CloseFrom(t, gone)
  PROVE  /\ task' \in [Tasks -> TaskSet] /\ fifoSource' = NoSource
         /\ task'[t].at \in Closing /\ task'[t].gone = gone
         /\ \A u \in Tasks : u # t => task'[u] = task[u]
BY DEF TaskSet, CloseFrom, Closing

LEMMA BeginStartTask ==
  ASSUME task \in [Tasks -> TaskSet], fifo \in [Sources -> {"none", "open", "fed"}],
         BeginStart
  PROVE  /\ task' \in [Tasks -> TaskSet] /\ fifoSource' = NoSource
         /\ fifo' \in [Sources -> {"none", "open", "fed"}]
         /\ retryTimer' = FALSE /\ recorder' = "starting"
         /\ task'["start"].at = "probe" /\ ~task'["start"].gone
         /\ \A u \in Tasks : u # "start" => task'[u] = task[u]
<1>1. NoTask \in TaskSet /\ ~NoTask.gone
  BY DEF NoTask, TaskSet
<1> DEFINE r == [NoTask EXCEPT !.at = "probe"]
<1>2. r \in TaskSet /\ r.at = "probe" /\ ~r.gone
  BY <1>1 DEF TaskSet, Opening
<1> HIDE DEF r
<1>3. task' = [task EXCEPT !["start"] = r]
  BY DEF BeginStart, r
<1> QED
  BY <1>2, <1>3 DEF BeginStart, Tasks, Closed

\* The frame of most steps: viewers, ring and timer of the viewers are left
\* alone, and a closed recorder stays closed.
LEMMA ViewFrame ==
  ASSUME ViewInv, UNCHANGED <<idleTimer, viewing, sub>>,
         recorder' = "none" => recorder = "none"
  PROVE  ViewInv' /\ Subscribed' = Subscribed
BY DEF ViewInv, viewing, Subscribed

LEMMA ToldFrame ==
  ASSUME ToldMode, RetryPending, Subscribed' = Subscribed,
         UNCHANGED <<told, recorder>>,
         recorder = "degraded" /\ Subscribed # {} =>
           (retryTimer \/ Running("start") => retryTimer' \/ Running("start")')
  PROVE  ToldMode' /\ RetryPending'
BY DEF ToldMode, RetryPending

LEMMA DegradedTold ==
  ASSUME SInv, EnterDegraded, UNCHANGED <<idleTimer, viewing, sub>>
  PROVE  /\ ViewInv' /\ ToldMode' /\ RetryPending'
         /\ told' \in [Viewers -> {"none", "stream", "fallback"}]
         /\ recorder' = "degraded" /\ retryTimer' \in BOOLEAN
<1> USE DEF SInv, StreamTypeOK, EnterDegraded
<1>1. ViewInv' /\ Subscribed' = Subscribed
  BY ViewFrame
<1> QED
  BY <1>1 DEF ToldMode, RetryPending, Subscribed

\* The steps of a start that only change tmux, the FIFOs and the start itself.
LEMMA StartFrame ==
  ASSUME SInv, StartKeeps, UNCHANGED ownsPipe,
         task' \in [Tasks -> TaskSet], task'["start"].at # "none",
         ~task'["start"].gone, task["start"].at # "none",
         task'["start"].at \in {"pipe", "own"} => fifoSource' \in Sources,
         \A u \in Tasks : u # "start" => task'[u] = task[u],
         fifoSource' \in Sources \union {NoSource},
         pipe' \in Sources \union {"none", "foreign"}, owner' \in BOOLEAN,
         fifo' \in [Sources -> {"none", "open", "fed"}], faults' \in 0..MaxFaults
  PROVE  SInv'
<1> USE DEF SInv, StartKeeps
<1>1. StreamTypeOK'
  BY DEF StreamTypeOK, TaskSet, viewing
<1>2. TaskInv'
  BY DEF TaskInv, Running
<1>3. ViewInv' /\ Subscribed' = Subscribed
  BY ViewFrame
<1>4. ToldMode' /\ RetryPending'
  BY <1>3, ToldFrame DEF Running
<1> QED
  BY <1>1, <1>2, <1>3, <1>4

(***************************************************************************)
(* The steps of a start.                                                   *)
(***************************************************************************)
LEMMA ProbeKeeps == ASSUME SInv, Probe PROVE SInv'
<1> USE StreamAssumption DEF SInv
<1>1. /\ task \in [Tasks -> TaskSet] /\ "start" \in Tasks
      /\ task["start"].at = "probe" /\ faults' \in 0..MaxFaults
      /\ UNCHANGED <<ownsPipe, fifoSource, pipe, owner, fifo>>
  BY DEF StreamTypeOK, TaskSet, Tasks, Probe, NoFault, tmux
<1>2. CASE pipe # "none" /\ ~owner
  <2>1. EnterDegraded /\ Done("start") /\ awaiting' = {} /\ UNCHANGED <<idleTimer, viewing, sub>>
    BY <1>2 DEF Probe
  <2>2. /\ task' \in [Tasks -> TaskSet] /\ task'["start"].at = "none" /\ ~task'["start"].gone
    BY <1>1, <2>1, DoneTask
  <2>3. /\ ViewInv' /\ ToldMode' /\ RetryPending'
        /\ told' \in [Viewers -> {"none", "stream", "fallback"}]
        /\ recorder' = "degraded" /\ retryTimer' \in BOOLEAN
    BY <2>1, DegradedTold
  <2>4. StreamTypeOK'
    BY <1>1, <2>1, <2>2, <2>3 DEF StreamTypeOK, TaskSet, viewing
  <2>5. TaskInv'
    BY <2>2, <2>3 DEF TaskInv, Running
  <2> QED
    BY <2>3, <2>4, <2>5
<1>3. CASE ~(pipe # "none" /\ ~owner)
  <2>1. PICK at \in {"reclaim", "forget", "open"} : Set("start", at) /\ StartKeeps
    BY <1>3 DEF Probe
  <2>2. /\ task' \in [Tasks -> TaskSet]
        /\ task'["start"].at = at /\ task'["start"].gone = task["start"].gone
        /\ \A u \in Tasks : u # "start" => task'[u] = task[u]
    BY <1>1, <2>1, SetTask DEF Opening
  <2> QED
    BY <1>1, <2>1, <2>2, StartFrame DEF StreamTypeOK, TaskInv
<1> QED
  BY <1>2, <1>3

LEMMA ReclaimsKeep ==
  ASSUME SInv, Reclaim \/ Unown \/ Forget
  PROVE  SInv'
<1> USE StreamAssumption DEF SInv
<1>1. task \in [Tasks -> TaskSet] /\ "start" \in Tasks
  BY DEF StreamTypeOK, TaskSet, Tasks
<1>2. /\ task["start"].at # "none" /\ StartKeeps /\ UNCHANGED <<ownsPipe, fifoSource, fifo>>
      /\ pipe' \in {pipe, "none"} /\ owner' \in {owner, FALSE} /\ faults' \in 0..MaxFaults
  <2>1. CASE Reclaim
    BY <2>1, FaultCount DEF Reclaim
  <2>2. CASE Unown
    BY <2>2, FaultCount DEF Unown
  <2>3. CASE Forget
    BY <2>3, FaultCount DEF Forget
  <2> QED
    BY <2>1, <2>2, <2>3
<1>3. PICK at \in {"unown", "open"} : Set("start", at)
  BY DEF Reclaim, Unown, Forget
<1>4. /\ task' \in [Tasks -> TaskSet]
      /\ task'["start"].at = at /\ task'["start"].gone = task["start"].gone
      /\ \A u \in Tasks : u # "start" => task'[u] = task[u]
  BY <1>1, <1>3, SetTask DEF Opening
<1> QED
  BY <1>1, <1>2, <1>4, StartFrame DEF StreamTypeOK, TaskInv

LEMMA OpenFifoKeeps == ASSUME SInv, OpenFifo PROVE SInv'
<1> USE StreamAssumption DEF SInv
<1>1. task \in [Tasks -> TaskSet] /\ "start" \in Tasks
  BY DEF StreamTypeOK, TaskSet, Tasks
<1>2. /\ task["start"].at # "none" /\ StartKeeps /\ UNCHANGED <<ownsPipe, pipe, owner>>
      /\ Set("start", "pipe") /\ faults' \in 0..MaxFaults
  BY DEF OpenFifo, NoFault, StreamTypeOK
<1>3. fifoSource' \in Sources
  <2> DEFINE free == {s \in Sources \ {pipe} : fifo[s] = "none"}
  <2>1. free # {} /\ fifoSource' = CHOOSE s \in free : TRUE
    BY DEF OpenFifo
  <2>2. fifoSource' \in free
    BY <2>1
  <2> QED
    BY <2>2
<1>4. fifo' \in [Sources -> {"none", "open", "fed"}]
  BY <1>3 DEF OpenFifo, StreamTypeOK
<1>5. /\ task' \in [Tasks -> TaskSet]
      /\ task'["start"].at = "pipe" /\ task'["start"].gone = task["start"].gone
      /\ \A u \in Tasks : u # "start" => task'[u] = task[u]
  BY <1>1, <1>2, SetTask DEF Opening
<1> QED
  BY <1>1, <1>2, <1>3, <1>4, <1>5, StartFrame DEF StreamTypeOK, TaskInv

LEMMA StartPipeKeeps == ASSUME SInv, StartPipe PROVE SInv'
<1> USE StreamAssumption DEF SInv
<1>1. /\ task \in [Tasks -> TaskSet] /\ "start" \in Tasks
      /\ task["start"].at = "pipe" /\ ~task["start"].gone /\ fifoSource \in Sources
  BY DEF StreamTypeOK, TaskSet, Tasks, StartPipe, TaskInv
<1>2. /\ StartKeeps /\ UNCHANGED <<fifoSource, owner, faults>> /\ ownsPipe' = TRUE
      /\ Set("start", "own") /\ pipe' \in Sources \union {"none"}
      /\ fifo' \in [Sources -> {"none", "open", "fed"}]
  BY <1>1 DEF StartPipe, NoFault, StreamTypeOK
<1>3. /\ task' \in [Tasks -> TaskSet]
      /\ task'["start"].at = "own" /\ ~task'["start"].gone
      /\ \A u \in Tasks : u # "start" => task'[u] = task[u]
  BY <1>1, <1>2, SetTask DEF Opening
<1>4. StreamTypeOK'
  BY <1>2, <1>3 DEF StreamTypeOK, TaskSet, viewing, StartKeeps
<1>5. TaskInv'
  BY <1>1, <1>2, <1>3 DEF TaskInv, Running, StartKeeps
<1>6. ViewInv' /\ Subscribed' = Subscribed
  BY <1>2, ViewFrame DEF StartKeeps
<1>7. ToldMode' /\ RetryPending'
  BY <1>2, <1>3, <1>6, ToldFrame DEF Running, StartKeeps
<1> QED
  BY <1>4, <1>5, <1>6, <1>7

LEMMA SetOwnerKeeps == ASSUME SInv, SetOwner PROVE SInv'
<1> USE StreamAssumption DEF SInv
<1>1. /\ task \in [Tasks -> TaskSet] /\ "start" \in Tasks
      /\ recorder' = "streaming" /\ awaiting' = {} /\ owner' = TRUE
      /\ UNCHANGED <<idleTimer, retryTimer, ownsPipe, fifoSource, viewing, sub,
                     pipe, fifo, faults>>
  BY DEF StreamTypeOK, TaskSet, Tasks, SetOwner, NoFault
<1>2. told' = [v \in Viewers |-> IF v \in Subscribed THEN "stream" ELSE told[v]]
  BY DEF SetOwner
<1>3. /\ task' \in [Tasks -> TaskSet] /\ task'["start"].at = "none"
      /\ ~task'["start"].gone
  BY <1>1, DoneTask DEF SetOwner
<1>4. StreamTypeOK'
  BY <1>1, <1>2, <1>3 DEF StreamTypeOK, TaskSet, viewing
<1>5. TaskInv'
  BY <1>1, <1>3 DEF TaskInv, Running
<1>6. ViewInv' /\ Subscribed' = Subscribed
  BY <1>1, ViewFrame
<1>7. ToldMode' /\ RetryPending'
  BY <1>1, <1>2, <1>6 DEF ToldMode, RetryPending, Subscribed
<1> QED
  BY <1>4, <1>5, <1>6, <1>7

LEMMA StartFailsKeeps == ASSUME SInv, StartFails PROVE SInv'
<1> USE StreamAssumption DEF SInv
<1>1. /\ task \in [Tasks -> TaskSet] /\ "start" \in Tasks
      /\ task["start"].at # "none" /\ faults' \in 0..MaxFaults
      /\ fifoSource \in Sources \union {NoSource}
      /\ UNCHANGED <<recorder, idleTimer, retryTimer, ownsPipe, viewing, sub,
                     awaiting, told, pipe, owner, fifo>>
  BY DEF StreamTypeOK, TaskSet, Tasks, StartFails, Fault, Opening, tmux
<1>2. /\ task' \in [Tasks -> TaskSet] /\ fifoSource' = NoSource
      /\ task'["start"].at \in Closing /\ ~task'["start"].gone
      /\ \A u \in Tasks : u # "start" => task'[u] = task[u]
  BY <1>1, CloseFromTask DEF StartFails
<1>3. StreamTypeOK'
  BY <1>1, <1>2 DEF StreamTypeOK, TaskSet, viewing
<1>4. TaskInv'
  BY <1>1, <1>2 DEF TaskInv, Running, Closing
<1>5. ViewInv' /\ Subscribed' = Subscribed
  BY <1>1, ViewFrame
<1>6. ToldMode' /\ RetryPending'
  BY <1>1, <1>2, <1>5, ToldFrame DEF Running, Closing
<1> QED
  BY <1>3, <1>4, <1>5, <1>6

(***************************************************************************)
(* The stream, its end and the timers.                                     *)
(***************************************************************************)
LEMMA RetryFiresKeeps == ASSUME SInv, RetryFires PROVE SInv'
<1> USE StreamAssumption DEF SInv
<1>1. /\ task \in [Tasks -> TaskSet] /\ "start" \in Tasks
      /\ fifo \in [Sources -> {"none", "open", "fed"}]
      /\ UNCHANGED <<idleTimer, ownsPipe, viewing, sub, awaiting, told, pipe, owner, faults>>
  BY DEF StreamTypeOK, TaskSet, Tasks, RetryFires
<1>2. CASE BeginStart
  <2>1. /\ task' \in [Tasks -> TaskSet] /\ fifoSource' = NoSource
        /\ fifo' \in [Sources -> {"none", "open", "fed"}]
        /\ retryTimer' = FALSE /\ recorder' = "starting"
        /\ task'["start"].at = "probe" /\ ~task'["start"].gone
    BY <1>1, <1>2, BeginStartTask
  <2>2. StreamTypeOK'
    BY <1>1, <2>1 DEF StreamTypeOK, TaskSet, viewing
  <2>3. TaskInv'
    BY <2>1 DEF TaskInv, Running
  <2>4. ViewInv'
    BY <1>1, <2>1, ViewFrame
  <2>5. ToldMode' /\ RetryPending'
    BY <2>1 DEF ToldMode, RetryPending
  <2> QED
    BY <2>2, <2>3, <2>4, <2>5
<1>3. CASE /\ ~(recorder = "degraded" /\ Subscribed # {} /\ ~Running("start"))
           /\ retryTimer' = FALSE /\ UNCHANGED <<task, fifo, fifoSource, recorder>>
  <2>1. StreamTypeOK'
    BY <1>1, <1>3 DEF StreamTypeOK, viewing
  <2>2. TaskInv'
    BY <1>3 DEF TaskInv, Running
  <2>3. ViewInv' /\ Subscribed' = Subscribed
    BY <1>1, <1>3, ViewFrame
  <2>4. ToldMode' /\ RetryPending'
    BY <1>1, <1>3, <2>3, ToldFrame DEF Running
  <2> QED
    BY <2>1, <2>2, <2>3, <2>4
<1> QED
  BY <1>2, <1>3 DEF RetryFires

LEMMA EmitKeeps == ASSUME SInv, EmitData PROVE SInv'
<1> USE StreamAssumption DEF SInv
<1>1. /\ UNCHANGED <<recorder, idleTimer, retryTimer, ownsPipe, fifoSource, sub,
                     awaiting, told, task, pipe, owner, fifo, faults>>
      /\ recorder = "streaming" /\ nextSeq \in 1..MaxChunks
      /\ nextSeq' = nextSeq + 1 /\ oldest' \in oldest..nextSeq
  BY DEF EmitData, tmux, StreamTypeOK
<1>2. \A v \in Viewers : sub[v] = "on" => cursor[v] = nextSeq /\ got[v] = nextSeq
  BY DEF ViewInv
<1>3. /\ \A v \in Viewers : got'[v] = IF sub[v] = "on" THEN nextSeq + 1 ELSE got[v]
      /\ \A v \in Viewers : cursor'[v] = IF sub[v] = "on" THEN nextSeq + 1 ELSE cursor[v]
  BY <1>1, <1>2 DEF EmitData, Deliver
<1>4. StreamTypeOK'
  <2>1. /\ got' \in [Viewers -> 0..MaxChunks + 1] /\ cursor' \in [Viewers -> 1..MaxChunks + 1]
    BY <1>1, <1>3 DEF EmitData, StreamTypeOK
  <2>2. oldest' \in 1..nextSeq' /\ nextSeq' \in 1..MaxChunks + 1
    BY <1>1 DEF StreamTypeOK
  <2> QED
    BY <1>1, <2>1, <2>2 DEF StreamTypeOK
<1>5. TaskInv' /\ Subscribed' = Subscribed
  BY <1>1 DEF TaskInv, Running, Subscribed
<1>6. ViewInv'
  BY <1>1, <1>3, <1>5 DEF ViewInv
<1>7. ToldMode' /\ RetryPending'
  BY <1>1, <1>5, ToldFrame DEF Running
<1> QED
  BY <1>4, <1>5, <1>6, <1>7

\* A handler of the stream's end begins to take the pipe down.
LEMMA StreamEndKeeps ==
  ASSUME SInv, StreamEnds \/ StreamFails \/ StreamCloses
  PROVE  SInv'
<1> USE StreamAssumption DEF SInv
<1>1. PICK t \in {"break", "echo"} :
        /\ CloseFrom(t, FALSE) /\ recorder = "streaming" /\ faults' \in 0..MaxFaults
        /\ UNCHANGED <<recorder, idleTimer, retryTimer, ownsPipe, viewing, sub,
                       awaiting, told, pipe, owner, fifo>>
  <2>1. CASE StreamEnds
    BY <2>1, FaultCount DEF StreamEnds, StreamBreaks, tmux
  <2>2. CASE StreamFails
    BY <2>2, FaultCount DEF StreamFails, StreamBreaks, tmux
  <2>3. CASE StreamCloses
    BY <2>3 DEF StreamCloses, StreamTypeOK, tmux
  <2> QED
    BY <2>1, <2>2, <2>3
<1>2. /\ task \in [Tasks -> TaskSet] /\ t \in Tasks /\ t # "start" /\ "start" \in Tasks
      /\ fifoSource \in Sources \union {NoSource}
  BY DEF StreamTypeOK, TaskSet, Tasks
<1>3. /\ task' \in [Tasks -> TaskSet] /\ fifoSource' = NoSource
      /\ \A u \in Tasks : u # t => task'[u] = task[u]
  BY <1>1, <1>2, CloseFromTask
<1>4. task'["start"] = task["start"] /\ ~Running("start")
  BY <1>1, <1>2, <1>3 DEF TaskInv
<1>5. StreamTypeOK'
  BY <1>1, <1>3 DEF StreamTypeOK, TaskSet, viewing
<1>6. TaskInv'
  BY <1>1, <1>4 DEF TaskInv, Running
<1>7. ViewInv' /\ Subscribed' = Subscribed
  BY <1>1, ViewFrame
<1>8. ToldMode' /\ RetryPending'
  BY <1>1, <1>7, ToldFrame
<1> QED
  BY <1>5, <1>6, <1>7, <1>8

LEMMA CloseStopKeeps ==
  ASSUME SInv, NEW t \in Tasks, CloseStop(t) \/ CloseClear(t)
  PROVE  SInv'
<1> USE StreamAssumption DEF SInv
<1>1. /\ task \in [Tasks -> TaskSet] /\ "start" \in Tasks
      /\ task[t].at \in {"stop", "clear"} /\ ClosingKeeps
      /\ UNCHANGED <<recorder, retryTimer, awaiting, told, fifo>>
  BY DEF StreamTypeOK, TaskSet, Tasks, CloseStop, CloseClear
<1>2. PICK at \in {"clear", "end"} : Set(t, at)
  BY DEF CloseStop, CloseClear
<1>3. /\ task' \in [Tasks -> TaskSet]
      /\ task'[t].at = at /\ task'[t].gone = task[t].gone
      /\ \A u \in Tasks : u # t => task'[u] = task[u]
  BY <1>1, <1>2, SetTask DEF Closing
<1>4. /\ faults' \in 0..MaxFaults /\ pipe' \in {pipe, "none"} /\ owner' \in {owner, FALSE}
      /\ ownsPipe' \in BOOLEAN
  <2>1. CASE CloseStop(t)
    BY <2>1, FaultCount DEF CloseStop, StreamTypeOK
  <2>2. CASE CloseClear(t)
    <3>1. ownsPipe' = (ownsPipe /\ task[t].gone) /\ UNCHANGED pipe
      BY <2>2 DEF CloseClear
    <3>2. faults' \in 0..MaxFaults /\ owner' \in {owner, FALSE}
      BY <2>2, FaultCount DEF CloseClear
    <3> QED
      BY <3>1, <3>2
  <2> QED
    BY <2>1, <2>2
<1>5. StreamTypeOK'
  BY <1>1, <1>3, <1>4 DEF StreamTypeOK, TaskSet, viewing, ClosingKeeps
<1>6. TaskInv'
  BY <1>1, <1>2, <1>3 DEF TaskInv, Running, ClosingKeeps
<1>7. ViewInv' /\ Subscribed' = Subscribed
  BY <1>1, ViewFrame DEF ClosingKeeps
<1>8. ToldMode' /\ RetryPending'
  BY <1>1, <1>3, <1>7, ToldFrame DEF Running
<1> QED
  BY <1>5, <1>6, <1>7, <1>8

LEMMA CloseEndsKeeps ==
  ASSUME SInv, NEW t \in Tasks, CloseEnds(t)
  PROVE  SInv'
<1> USE StreamAssumption DEF SInv
<1>1. /\ task \in [Tasks -> TaskSet] /\ "start" \in Tasks
      /\ task[t].at = "end" /\ ClosingKeeps /\ Done(t)
      /\ UNCHANGED <<ownsPipe, pipe, owner, faults>>
      /\ fifo' \in [Sources -> {"none", "open", "fed"}] /\ awaiting' \subseteq Viewers
  BY DEF StreamTypeOK, TaskSet, Tasks, CloseEnds, Closed
<1>2. /\ task' \in [Tasks -> TaskSet] /\ task'[t].at = "none" /\ ~task'[t].gone
      /\ \A u \in Tasks : u # t => task'[u] = task[u]
  BY <1>1, DoneTask
<1>3. CASE ~task[t].gone
  <2>1. EnterDegraded /\ UNCHANGED <<idleTimer, viewing, sub>>
    BY <1>1, <1>3 DEF CloseEnds, ClosingKeeps
  <2>2. /\ ViewInv' /\ ToldMode' /\ RetryPending'
        /\ told' \in [Viewers -> {"none", "stream", "fallback"}]
        /\ recorder' = "degraded" /\ retryTimer' \in BOOLEAN
    BY <2>1, DegradedTold
  <2>3. StreamTypeOK'
    BY <1>1, <1>2, <2>2 DEF StreamTypeOK, TaskSet, viewing, ClosingKeeps
  <2>4. TaskInv'
    BY <1>1, <1>2, <2>2 DEF TaskInv, Running, ClosingKeeps
  <2> QED
    BY <2>2, <2>3, <2>4
<1>4. CASE task[t].gone
  <2>1. UNCHANGED <<recorder, told, retryTimer>> /\ t # "start"
    BY <1>4 DEF CloseEnds, TaskInv
  <2>2. StreamTypeOK'
    BY <1>1, <1>2, <2>1 DEF StreamTypeOK, TaskSet, viewing, ClosingKeeps
  <2>3. task'["start"] = task["start"]
    BY <1>1, <1>2, <2>1
  <2>4. TaskInv'
    BY <1>1, <1>2, <2>1, <2>3 DEF TaskInv, Running, ClosingKeeps
  <2>5. ViewInv' /\ Subscribed' = Subscribed
    BY <1>1, <2>1, ViewFrame DEF ClosingKeeps
  <2>6. ToldMode' /\ RetryPending'
    BY <1>1, <2>1, <2>3, <2>5, ToldFrame DEF Running
  <2> QED
    BY <2>2, <2>4, <2>5, <2>6
<1> QED
  BY <1>3, <1>4

LEMMA IdleFiresKeeps == ASSUME SInv, IdleFires PROVE SInv'
<1> USE StreamAssumption DEF SInv
<1>1. /\ task \in [Tasks -> TaskSet] /\ "start" \in Tasks
      /\ task["start"].at = "none" /\ Subscribed = {}
      /\ idleTimer' = FALSE /\ retryTimer' = FALSE /\ recorder' = "none"
      /\ fifoSource' = NoSource /\ ownsPipe' = FALSE /\ oldest' = 1 /\ nextSeq' = 1
      /\ UNCHANGED <<cursor, got, awaiting, told, pipe, owner, fifo, faults>>
  BY DEF StreamTypeOK, TaskSet, Tasks, IdleFires, Running, ViewInv, tmux
<1>2. sub' = sub /\ Subscribed' = {}
  BY <1>1 DEF IdleFires, Subscribed, StreamTypeOK
<1>3. ASSUME NEW t \in Tasks
      PROVE  /\ task'[t] \in TaskSet
             /\ task'[t].at # "none" => task'[t].gone
             /\ t = "start" => task'[t].at = "none" /\ ~task'[t].gone
  <2>1. CASE t = "idle"
    <3>1. task'[t] = [at |-> IF ownsPipe THEN "stop" ELSE "end",
                      src |-> fifoSource, gone |-> TRUE]
      BY <2>1 DEF IdleFires
    <3> QED
      BY <2>1, <3>1 DEF TaskSet, Closing, StreamTypeOK
  <2>2. CASE t # "idle"
    <3>1. task'[t] = [task[t] EXCEPT !.gone = (task[t].at # "none")] /\ task[t] \in TaskSet
      BY <1>1, <2>2 DEF IdleFires
    <3> QED
      BY <1>1, <3>1 DEF TaskSet
  <2> QED
    BY <2>1, <2>2
<1>4. task' \in [Tasks -> TaskSet]
  <2>1. task' = [t \in Tasks |->
          IF t = "idle" THEN [at |-> IF ownsPipe THEN "stop" ELSE "end",
                              src |-> fifoSource, gone |-> TRUE]
          ELSE [task[t] EXCEPT !.gone = task[t].at # "none"]]
    BY DEF IdleFires
  <2> QED
    BY <1>3, <2>1
<1>5. StreamTypeOK'
  <2>1. oldest' \in 1..nextSeq' /\ nextSeq' \in 1..MaxChunks + 1
    BY <1>1
  <2>2. {idleTimer', retryTimer', ownsPipe', owner'} \subseteq BOOLEAN
    BY <1>1 DEF StreamTypeOK
  <2> QED
    BY <1>1, <1>2, <1>4, <2>1, <2>2 DEF StreamTypeOK, TaskSet
<1>6. TaskInv'
  BY <1>1, <1>3 DEF TaskInv, Running
<1>7. ViewInv'
  BY <1>1, <1>2 DEF ViewInv, Subscribed
<1>8. ToldMode' /\ RetryPending'
  BY <1>1 DEF ToldMode, RetryPending
<1> QED
  BY <1>5, <1>6, <1>7, <1>8

(***************************************************************************)
(* Viewers.                                                                *)
(***************************************************************************)
LEMMA SubscribeKeeps ==
  ASSUME SInv, NEW v \in Viewers, Subscribe(v)
  PROVE  SInv' /\ recorder' # "none"
<1> USE StreamAssumption DEF SInv
<1>1. /\ task \in [Tasks -> TaskSet] /\ "start" \in Tasks
      /\ fifo \in [Sources -> {"none", "open", "fed"}]
      /\ idleTimer' = FALSE /\ ownsPipe' \in BOOLEAN /\ awaiting' \subseteq Viewers
      /\ UNCHANGED <<oldest, nextSeq, pipe, owner, faults>>
      /\ sub' = [sub EXCEPT ![v] = "on"]
      /\ cursor' = [cursor EXCEPT ![v] = nextSeq] /\ got' = [got EXCEPT ![v] = nextSeq]
      /\ told' = [told EXCEPT ![v] = ModeTold]
  BY DEF StreamTypeOK, TaskSet, Tasks, Subscribe
<1>2. /\ ModeTold \in {"none", "stream", "fallback"}
      /\ recorder = "streaming" => ModeTold = "stream"
      /\ recorder = "degraded" => ModeTold = "fallback"
  BY DEF ModeTold
<1>3. Subscribed' = Subscribed \union {v}
  BY <1>1 DEF Subscribed, StreamTypeOK
<1>4. /\ nextSeq \in 1..MaxChunks + 1 /\ nextSeq \in 0..MaxChunks + 1
      /\ sub' \in [Viewers -> {"new", "on", "paused", "lost", "gone"}]
      /\ cursor' \in [Viewers -> 1..MaxChunks + 1] /\ got' \in [Viewers -> 0..MaxChunks + 1]
      /\ told' \in [Viewers -> {"none", "stream", "fallback"}]
  <2>1. nextSeq \in 1..MaxChunks + 1 /\ nextSeq \in 0..MaxChunks + 1
    BY DEF StreamTypeOK
  <2> QED
    BY <1>1, <1>2, <2>1 DEF StreamTypeOK
<1>5. ASSUME recorder' # "none" PROVE ViewInv'
  <2>1. \A u \in Viewers :
          /\ sub'[u] = IF u = v THEN "on" ELSE sub[u]
          /\ cursor'[u] = IF u = v THEN nextSeq ELSE cursor[u]
          /\ got'[u] = IF u = v THEN nextSeq ELSE got[u]
    BY <1>1 DEF StreamTypeOK
  <2> QED
    BY <1>1, <1>5, <2>1 DEF ViewInv
<1>6. CASE BeginStart
  <2>1. /\ task' \in [Tasks -> TaskSet] /\ fifoSource' = NoSource
        /\ fifo' \in [Sources -> {"none", "open", "fed"}]
        /\ retryTimer' = FALSE /\ recorder' = "starting"
        /\ task'["start"].at = "probe" /\ ~task'["start"].gone
    BY <1>1, <1>6, BeginStartTask
  <2>2. StreamTypeOK'
    BY <1>1, <1>4, <2>1 DEF StreamTypeOK, TaskSet
  <2>3. TaskInv'
    BY <2>1 DEF TaskInv, Running
  <2>4. ToldMode' /\ RetryPending'
    BY <2>1 DEF ToldMode, RetryPending
  <2> QED
    BY <1>5, <2>1, <2>2, <2>3, <2>4
<1>7. CASE /\ recorder = "streaming" \/ Running("start")
           /\ UNCHANGED <<task, fifo, fifoSource, retryTimer, recorder>>
  <2>1. recorder # "none"
    BY <1>1, <1>7 DEF TaskInv
  <2>2. StreamTypeOK'
    BY <1>1, <1>4, <1>7 DEF StreamTypeOK
  <2>3. TaskInv'
    BY <1>7 DEF TaskInv, Running
  <2>4. ToldMode'
    BY <1>1, <1>2, <1>3, <1>7 DEF ToldMode, StreamTypeOK, Subscribed
  <2>5. RetryPending'
    BY <1>7 DEF RetryPending, Running
  <2> QED
    BY <1>5, <1>7, <2>1, <2>2, <2>3, <2>4, <2>5
<1> QED
  BY <1>6, <1>7 DEF Subscribe

\* What a pause, a resume and a release leave alone.
LEMMA ViewerFrame ==
  ASSUME SInv,
         UNCHANGED <<recorder, retryTimer, ownsPipe, fifoSource, oldest, nextSeq,
                     awaiting, task, tmux, faults>>,
         Subscribed' \subseteq Subscribed,
         \A v \in Subscribed' : told'[v] = told[v],
         idleTimer' \in BOOLEAN,
         sub' \in [Viewers -> {"new", "on", "paused", "lost", "gone"}],
         cursor' \in [Viewers -> 1..MaxChunks + 1], got' \in [Viewers -> 0..MaxChunks + 1],
         told' \in [Viewers -> {"none", "stream", "fallback"}]
  PROVE  StreamTypeOK' /\ TaskInv' /\ ToldMode' /\ RetryPending'
<1> USE DEF SInv
<1>1. StreamTypeOK'
  BY DEF StreamTypeOK, tmux
<1>2. TaskInv'
  BY DEF TaskInv, Running
<1>3. ToldMode' /\ RetryPending'
  BY DEF ToldMode, RetryPending, Running
<1> QED
  BY <1>1, <1>2, <1>3

LEMMA PauseKeeps ==
  ASSUME SInv, NEW v \in Viewers, Pause(v)
  PROVE  SInv'
<1> USE StreamAssumption DEF SInv
<1>1. /\ sub[v] = "on" /\ sub' = [sub EXCEPT ![v] = "paused"]
      /\ UNCHANGED <<recorder, idleTimer, retryTimer, ownsPipe, fifoSource, oldest,
                     nextSeq, awaiting, cursor, got, told, task, tmux, faults>>
  BY DEF Pause
<1>2. Subscribed' = Subscribed
  BY <1>1 DEF Subscribed, StreamTypeOK
<1>3. ViewInv'
  BY <1>1, <1>2 DEF ViewInv, StreamTypeOK
<1>4. /\ sub' \in [Viewers -> {"new", "on", "paused", "lost", "gone"}]
      /\ idleTimer' \in BOOLEAN
  BY <1>1 DEF StreamTypeOK
<1> QED
  BY <1>1, <1>2, <1>3, <1>4, ViewerFrame DEF StreamTypeOK

LEMMA ReplayGivesAll ==
  ASSUME SInv, NEW v \in Viewers, sub[v] = "paused"
  PROVE  AfterReplay(v) = nextSeq
BY StreamAssumption DEF SInv, ViewInv, StreamTypeOK, AfterReplay, Gap

LEMMA ResumeKeeps ==
  ASSUME SInv, NEW v \in Viewers, Resume(v)
  PROVE  SInv'
<1> USE StreamAssumption DEF SInv
<1>1. /\ sub[v] = "paused" /\ sub' = [sub EXCEPT ![v] = "on"]
      /\ cursor' = [cursor EXCEPT ![v] = nextSeq] /\ got' = [got EXCEPT ![v] = nextSeq]
      /\ UNCHANGED <<recorder, idleTimer, retryTimer, ownsPipe, fifoSource, oldest,
                     nextSeq, awaiting, told, task, tmux, faults>>
  BY ReplayGivesAll DEF Resume
<1>2. Subscribed' = Subscribed
  BY <1>1 DEF Subscribed, StreamTypeOK
<1>3. ViewInv'
  BY <1>1, <1>2 DEF ViewInv, StreamTypeOK
<1>4. /\ sub' \in [Viewers -> {"new", "on", "paused", "lost", "gone"}]
      /\ idleTimer' \in BOOLEAN
      /\ cursor' \in [Viewers -> 1..MaxChunks + 1] /\ got' \in [Viewers -> 0..MaxChunks + 1]
  <2>1. nextSeq \in 1..MaxChunks + 1 /\ nextSeq \in 0..MaxChunks + 1
    BY DEF StreamTypeOK
  <2> QED
    BY <1>1, <2>1 DEF StreamTypeOK
<1> QED
  BY <1>1, <1>2, <1>3, <1>4, ViewerFrame DEF StreamTypeOK

LEMMA ReleaseKeeps ==
  ASSUME SInv, NEW v \in Viewers, Release(v)
  PROVE  SInv'
<1> USE StreamAssumption DEF SInv
<1>1. /\ sub' = [sub EXCEPT ![v] = "gone"] /\ told' = [told EXCEPT ![v] = "none"]
      /\ cursor' = [cursor EXCEPT ![v] = 1] /\ got' = [got EXCEPT ![v] = 1]
      /\ idleTimer' = (idleTimer \/ (recorder # "none" /\ Subscribed \ {v} = {}))
      /\ UNCHANGED <<recorder, retryTimer, ownsPipe, fifoSource, oldest, nextSeq,
                     awaiting, task, tmux, faults>>
  BY DEF Release
<1>2. Subscribed' = Subscribed \ {v}
  BY <1>1 DEF Subscribed, StreamTypeOK
<1>3. ViewInv'
  BY <1>1, <1>2 DEF ViewInv, StreamTypeOK
<1>4. /\ sub' \in [Viewers -> {"new", "on", "paused", "lost", "gone"}]
      /\ idleTimer' \in BOOLEAN
      /\ cursor' \in [Viewers -> 1..MaxChunks + 1] /\ got' \in [Viewers -> 0..MaxChunks + 1]
      /\ told' \in [Viewers -> {"none", "stream", "fallback"}]
  <2>1. 1 \in 1..MaxChunks + 1 /\ 1 \in 0..MaxChunks + 1
    OBVIOUS
  <2> QED
    BY <1>1, <2>1 DEF StreamTypeOK
<1>5. \A u \in Subscribed' : told'[u] = told[u]
  BY <1>1, <1>2 DEF StreamTypeOK, Subscribed
<1> QED
  BY <1>1, <1>2, <1>3, <1>4, <1>5, ViewerFrame

(***************************************************************************)
(* tmux and the server.                                                    *)
(***************************************************************************)
LEMMA TmuxKeeps == ASSUME SInv, PipeChanges \/ PaneRestarts PROVE SInv'
<1> USE StreamAssumption DEF SInv
<1>1. /\ UNCHANGED <<recorder, idleTimer, retryTimer, ownsPipe, fifoSource, viewing,
                     sub, awaiting, told, task, fifo>>
      /\ pipe' \in {"none", "foreign"} /\ owner' \in {owner, FALSE}
      /\ faults' \in 0..MaxFaults
  <2>1. CASE PipeChanges
    BY <2>1, FaultCount DEF PipeChanges
  <2>2. CASE PaneRestarts
    BY <2>2, FaultCount DEF PaneRestarts
  <2> QED
    BY <2>1, <2>2
<1>2. StreamTypeOK'
  BY <1>1 DEF StreamTypeOK, viewing
<1>3. TaskInv'
  BY <1>1 DEF TaskInv, Running
<1>4. ViewInv' /\ Subscribed' = Subscribed
  BY <1>1, ViewFrame
<1>5. ToldMode' /\ RetryPending'
  BY <1>1, <1>4, ToldFrame DEF Running
<1> QED
  BY <1>2, <1>3, <1>4, <1>5

LEMMA ServerRestartsKeeps == ASSUME SInv, ServerRestarts PROVE SInv'
<1> USE StreamAssumption DEF SInv, ServerRestarts
<1>1. faults' \in 0..MaxFaults
  BY FaultCount
<1>2. /\ \A t \in Tasks : task'[t].at = "none" /\ ~task'[t].gone
      /\ task' \in [Tasks -> TaskSet]
  BY DEF NoTask, TaskSet
<1>3. Subscribed' = {}
  BY DEF Subscribed
<1>4. StreamTypeOK'
  <2>1. 1 \in 1..1 /\ 1 \in 1..MaxChunks + 1 /\ 1 \in 0..MaxChunks + 1
    OBVIOUS
  <2>2. /\ {idleTimer', retryTimer', ownsPipe', owner'} \subseteq BOOLEAN
        /\ pipe' \in Sources \union {"none", "foreign"}
        /\ fifo' \in [Sources -> {"none", "open", "fed"}]
    BY DEF StreamTypeOK
  <2>3. /\ sub' \in [Viewers -> {"new", "on", "paused", "lost", "gone"}]
        /\ told' \in [Viewers -> {"none", "stream", "fallback"}]
        /\ cursor' \in [Viewers -> 1..MaxChunks + 1] /\ got' \in [Viewers -> 0..MaxChunks + 1]
    BY <2>1
  <2> QED
    BY <1>1, <1>2, <2>1, <2>2, <2>3 DEF StreamTypeOK, TaskSet
<1>5. TaskInv'
  BY <1>2 DEF TaskInv, Running, Tasks
<1>6. ViewInv'
  BY <1>3 DEF ViewInv
<1>7. ToldMode' /\ RetryPending'
  BY DEF ToldMode, RetryPending
<1> QED
  BY <1>4, <1>5, <1>6, <1>7

LEMMA StreamNextKeeps == ASSUME SInv, [StreamNext]_streamVars PROVE SInv'
<1>1. CASE UNCHANGED streamVars
  BY <1>1 DEF streamVars, SInv, StreamTypeOK, TaskInv, ViewInv, ToldMode, RetryPending,
     Subscribed, Running
<1>2. CASE \E v \in Viewers : Subscribe(v) \/ Pause(v) \/ Resume(v) \/ Release(v)
  BY <1>2, SubscribeKeeps, PauseKeeps, ResumeKeeps, ReleaseKeeps
<1>3. CASE StartStep
  BY <1>3, ProbeKeeps, ReclaimsKeep, OpenFifoKeeps, StartPipeKeeps, SetOwnerKeeps,
     StartFailsKeeps DEF StartStep
<1>4. CASE RetryFires \/ EmitData \/ StreamEnds \/ StreamFails \/ StreamCloses \/ IdleFires
  BY <1>4, RetryFiresKeeps, EmitKeeps, StreamEndKeeps, IdleFiresKeeps
<1>5. CASE \E t \in Tasks : CloseStep(t)
  BY <1>5, CloseStopKeeps, CloseEndsKeeps DEF CloseStep
<1>6. CASE PipeChanges \/ PaneRestarts \/ ServerRestarts
  BY <1>6, TmuxKeeps, ServerRestartsKeeps
<1> QED
  BY <1>1, <1>2, <1>3, <1>4, <1>5, <1>6 DEF StreamNext

LEMMA StreamAlways == StreamSpec => []SInv
<1> QED
  BY StreamInitInv, StreamNextKeeps, PTL DEF StreamSpec

\* The variables keep their types, for any number of viewers, FIFOs, chunks and
\* faults.
THEOREM StreamTypes == StreamSpec => []StreamTypeOK
<1>1. SInv => StreamTypeOK
  BY DEF SInv
<1> QED
  BY <1>1, StreamAlways, PTL

\* No viewer of a degraded or a streaming recorder is left with another mode
\* than the recorder's, whatever runs at once (emitMode, currentModeEvent).
THEOREM ViewersKnowTheMode == StreamSpec => []ToldMode
<1>1. SInv => ToldMode
  BY DEF SInv
<1> QED
  BY <1>1, StreamAlways, PTL

\* A degraded recorder with viewers has a retry armed or a start under way
\* (enterDegraded, scheduleRetry).
THEOREM RetryIsPending == StreamSpec => []RetryPending
<1>1. SInv => RetryPending
  BY DEF SInv
<1> QED
  BY <1>1, StreamAlways, PTL

(***************************************************************************)
(* The recorder implements PaneFeed.                                       *)
(***************************************************************************)
Emitted == IF recorder = "none" THEN 0 ELSE nextSeq - 1
ModeIn(ss) == [v \in Viewers |-> CASE ss[v] \in {"new", "gone"} -> "out"
                                  [] ss[v] = "on" -> "on"
                                  [] OTHER -> "held"]

LEMMA FeedVars ==
  /\ Feed!vars = <<Emitted, got, ModeIn(sub)>>
  /\ Feed!vars' = <<Emitted', got', ModeIn(sub')>>
BY DEF Feed!vars, Emitted, ModeIn

\* A viewer's step changes its own mode.
LEMMA ModeStep ==
  ASSUME StreamTypeOK, NEW v \in Viewers,
         NEW s \in {"on", "paused", "gone"}, sub' = [sub EXCEPT ![v] = s]
  PROVE  ModeIn(sub') = [ModeIn(sub) EXCEPT ![v] =
           IF s = "on" THEN "on" ELSE IF s = "gone" THEN "out" ELSE "held"]
<1>1. \A u \in Viewers : sub'[u] = IF u = v THEN s ELSE sub[u]
  BY DEF StreamTypeOK
<1> QED
  BY <1>1 DEF ModeIn

LEMMA FeedStutters ==
  ASSUME UNCHANGED <<sub, got, nextSeq>>, recorder' = "none" <=> recorder = "none"
  PROVE  UNCHANGED Feed!vars
BY FeedVars DEF Emitted, ModeIn

LEMMA RingNumber == ASSUME SInv PROVE nextSeq \in Nat /\ nextSeq # 0
BY StreamAssumption DEF SInv, StreamTypeOK

LEMMA SubscribeJoins ==
  ASSUME SInv, NEW v \in Viewers, Subscribe(v)
  PROVE  Feed!Next
<1>1. /\ sub[v] = "new" /\ sub' = [sub EXCEPT ![v] = "on"]
      /\ got' = [got EXCEPT ![v] = nextSeq] /\ nextSeq' = nextSeq /\ recorder' # "none"
      /\ nextSeq \in Nat
  BY SubscribeKeeps, RingNumber DEF Subscribe
<1>2. Emitted' = Emitted /\ Emitted + 1 = nextSeq
  BY <1>1 DEF Emitted, SInv, ViewInv
<1>3. ModeIn(sub)[v] = "out" /\ ModeIn(sub') = [ModeIn(sub) EXCEPT ![v] = "on"]
  BY <1>1, ModeStep DEF SInv, ModeIn
<1>4. Feed!Join(v)
  BY <1>1, <1>2, <1>3 DEF Feed!Join, Emitted, ModeIn
<1> QED
  BY <1>4 DEF Feed!Next

LEMMA PauseHolds ==
  ASSUME SInv, NEW v \in Viewers, Pause(v)
  PROVE  Feed!Next
<1>1. /\ sub[v] = "on" /\ sub' = [sub EXCEPT ![v] = "paused"]
      /\ UNCHANGED <<recorder, nextSeq, got>>
  BY DEF Pause
<1>2. ModeIn(sub)[v] = "on" /\ ModeIn(sub') = [ModeIn(sub) EXCEPT ![v] = "held"]
  BY <1>1, ModeStep DEF SInv, ModeIn
<1>3. Feed!Hold(v)
  BY <1>1, <1>2 DEF Feed!Hold, ModeIn
<1> QED
  BY <1>3 DEF Feed!Next

LEMMA ResumeResumes ==
  ASSUME SInv, NEW v \in Viewers, Resume(v)
  PROVE  Feed!Next
<1>1. /\ sub[v] = "paused" /\ sub' = [sub EXCEPT ![v] = "on"]
      /\ got' = [got EXCEPT ![v] = nextSeq] /\ UNCHANGED <<recorder, nextSeq>>
      /\ nextSeq \in Nat
  BY ReplayGivesAll, RingNumber DEF Resume
<1>2. recorder # "none"
  BY <1>1 DEF SInv, ViewInv, Subscribed
<1>3. Emitted' = Emitted /\ Emitted + 1 = nextSeq
  BY <1>1, <1>2 DEF Emitted
<1>4. ModeIn(sub)[v] = "held" /\ ModeIn(sub') = [ModeIn(sub) EXCEPT ![v] = "on"]
  BY <1>1, ModeStep DEF SInv, ModeIn
<1>5. Feed!Resume(v)
  BY <1>1, <1>3, <1>4 DEF Feed!Resume, Emitted, ModeIn
<1> QED
  BY <1>5 DEF Feed!Next

LEMMA ReleaseLeaves ==
  ASSUME SInv, NEW v \in Viewers, Release(v)
  PROVE  Feed!Next
<1>1. /\ sub[v] \notin {"new", "gone"} /\ sub' = [sub EXCEPT ![v] = "gone"]
      /\ got' = [got EXCEPT ![v] = 1] /\ UNCHANGED <<recorder, nextSeq>>
  BY DEF Release
<1>2. ModeIn(sub)[v] # "out" /\ ModeIn(sub') = [ModeIn(sub) EXCEPT ![v] = "out"]
  BY <1>1, ModeStep DEF SInv, ModeIn
<1>3. Feed!Leave(v)
  BY <1>1, <1>2 DEF Feed!Leave, ModeIn
<1> QED
  BY <1>3 DEF Feed!Next

LEMMA EmitEmits == ASSUME SInv, EmitData PROVE Feed!Next
<1>1. /\ recorder = "streaming" /\ UNCHANGED <<recorder, sub>>
      /\ nextSeq \in Nat /\ nextSeq' = nextSeq + 1
  BY DEF EmitData, SInv, StreamTypeOK
<1>2. \A v \in Viewers : sub[v] = "on" => cursor[v] = nextSeq /\ got[v] = nextSeq
  BY DEF SInv, ViewInv
<1>3. Emitted + 1 = nextSeq /\ Emitted' = nextSeq /\ Emitted + 2 = nextSeq + 1
  BY <1>1 DEF Emitted
<1>4. \A v \in Viewers : ModeIn(sub)[v] = "on" <=> sub[v] = "on"
  BY DEF ModeIn
<1>5. got' = [v \in Viewers |-> IF sub[v] = "on" THEN nextSeq + 1 ELSE got[v]]
  BY <1>1, <1>2 DEF EmitData, Deliver
<1>6. got' = [v \in Viewers |-> IF ModeIn(sub)[v] = "on" THEN Emitted + 2 ELSE got[v]]
  BY <1>3, <1>4, <1>5
<1>7. \A v \in Viewers : ModeIn(sub)[v] = "on" => got[v] = Emitted + 1
  BY <1>2, <1>3, <1>4
<1>8. ModeIn(sub') = ModeIn(sub) /\ Emitted' = Emitted + 1
  BY <1>1, <1>3
<1>9. Feed!Emit
  BY <1>6, <1>7, <1>8 DEF Feed!Emit, Emitted, ModeIn
<1> QED
  BY <1>9 DEF Feed!Next

LEMMA EndRenews == ASSUME SInv, IdleFires \/ ServerRestarts PROVE Feed!Next
<1>1. recorder' = "none" /\ got' = [v \in Viewers |-> 1]
      /\ \A v \in Viewers : sub'[v] \in {"new", "gone"}
  <2>1. CASE IdleFires
    <3>1. \A v \in Viewers : sub[v] \in {"new", "gone"}
      BY <2>1 DEF IdleFires, SInv, ViewInv, Subscribed, StreamTypeOK
    <3>2. recorder' = "none" /\ got' = got /\ \A v \in Viewers : sub'[v] = sub[v]
      BY <2>1, <3>1 DEF IdleFires, Subscribed
    <3> QED
      BY <3>1, <3>2 DEF SInv, ViewInv, StreamTypeOK
  <2>2. CASE ServerRestarts
    BY <2>2 DEF ServerRestarts
  <2> QED
    BY <2>1, <2>2
<1>2. Emitted' = 0 /\ ModeIn(sub') = Feed!Out
  BY <1>1 DEF Emitted, ModeIn, Feed!Out
<1>3. Feed!Renew
  BY <1>1, <1>2 DEF Feed!Renew, Emitted, ModeIn
<1> QED
  BY <1>3 DEF Feed!Next

LEMMA OthersStutter ==
  ASSUME SInv,
         \/ StartStep \/ RetryFires \/ StreamEnds \/ StreamFails \/ StreamCloses
         \/ \E t \in Tasks : CloseStep(t)
         \/ PipeChanges \/ PaneRestarts
  PROVE  UNCHANGED Feed!vars
<1>1. CASE StartStep
  <2>1. recorder # "none"
    BY <1>1 DEF StartStep, Probe, Reclaim, Unown, Forget, OpenFifo, StartPipe, SetOwner,
       StartFails, Opening, SInv, TaskInv, Running
  <2>2. UNCHANGED <<sub, got, nextSeq>> /\ recorder' # "none"
    BY <1>1, <2>1 DEF StartStep, Probe, Reclaim, Unown, Forget, OpenFifo, StartPipe,
       SetOwner, StartFails, StartKeeps, EnterDegraded, viewing
  <2> QED
    BY <2>1, <2>2, FeedStutters
<1>2. CASE RetryFires
  <2>1. UNCHANGED <<sub, got, nextSeq>>
        /\ \/ UNCHANGED recorder
           \/ recorder = "degraded" /\ recorder' = "starting"
    BY <1>2 DEF RetryFires, BeginStart, viewing
  <2> QED
    BY <2>1, FeedStutters
<1>3. CASE StreamEnds \/ StreamFails \/ StreamCloses
  <2>1. UNCHANGED <<sub, got, nextSeq, recorder>>
    BY <1>3 DEF StreamEnds, StreamFails, StreamCloses, StreamBreaks, viewing
  <2> QED
    BY <2>1, FeedStutters
<1>4. ASSUME NEW t \in Tasks, CloseStep(t) PROVE UNCHANGED Feed!vars
  <2>1. UNCHANGED <<sub, got, nextSeq>>
        /\ \/ UNCHANGED recorder
           \/ task[t].at = "end" /\ ~task[t].gone /\ recorder' = "degraded"
    BY <1>4 DEF CloseStep, CloseStop, CloseClear, CloseEnds, ClosingKeeps, EnterDegraded,
       viewing
  <2>2. task[t].at = "end" /\ ~task[t].gone => recorder # "none"
    BY DEF SInv, TaskInv, Running
  <2> QED
    BY <2>1, <2>2, FeedStutters
<1>5. CASE PipeChanges \/ PaneRestarts
  <2>1. UNCHANGED <<sub, got, nextSeq, recorder>>
    BY <1>5 DEF PipeChanges, PaneRestarts, viewing
  <2> QED
    BY <2>1, FeedStutters
<1> QED
  BY <1>1, <1>2, <1>3, <1>4, <1>5

\* Every step of the recorder is a step of PaneFeed or changes nothing of it: no
\* viewer misses a chunk or sees one twice without being told of a gap.
THEOREM StreamImplementsFeed == StreamSpec => ImplementsPaneFeed
<1>1. StreamInit => Feed!Init
  BY DEF StreamInit, Feed!Init, Feed!Out
<1>2. SInv /\ [StreamNext]_streamVars => [Feed!Next]_(Feed!vars)
  <2> SUFFICES ASSUME SInv, [StreamNext]_streamVars
               PROVE  Feed!Next \/ UNCHANGED Feed!vars
    OBVIOUS
  <2>1. CASE UNCHANGED streamVars
    BY <2>1, FeedStutters DEF streamVars
  <2>2. CASE StreamNext
    BY <2>2, SubscribeJoins, PauseHolds, ResumeResumes, ReleaseLeaves, EmitEmits,
       EndRenews, OthersStutter DEF StreamNext
  <2> QED
    BY <2>1, <2>2
<1> QED
  BY <1>1, <1>2, StreamAlways, PTL DEF StreamSpec, ImplementsPaneFeed, Feed!Spec

(***************************************************************************)
(* The invariant.  Its first half is about who is at work: what each stage   *)
(* of the opening holds, that a first picture is always on its way, that the *)
(* pump runs just when the connection has fallen back.                       *)
(***************************************************************************)
StageInv ==
  /\ stage # "live" => /\ streamQueue = <<>> /\ ring = <<>> /\ pump = NoPump
                       /\ ~pictured /\ ~fallbackStarted
  /\ stage \in {"none", "resolving", "ended"} => handle = "none" /\ buffered = <<>>
  /\ stage = "subscribing" => handle = "on"
  /\ stage = "live" => feed # "starting"
  /\ stage = "live" => IF isClosed THEN handle = "released" ELSE Listening
  /\ stage = "none" => ~isClosed
  /\ stage = "ended" => isClosed

ClosedInv == isClosed => pump = NoPump /\ reconcile # "timer"

WaitInv ==
  /\ handle # "paused" => ring = <<>>
  /\ pictured => buffered = <<>>
  /\ feed = "starting" => buffered = <<>>
  /\ reconcile # "none" => pictured

FallInv == ~fellBack => /\ mode = "stream" /\ ~fallbackStarted
                        /\ Listening => feed # "fallback"

PumpInv == ~isClosed => (fallbackStarted <=> pump.at # "none")

DrawnInv == pictured /\ ~isClosed => screen.drawn

\* Before the first picture the chain holds the task that makes it, or nothing.
TheSeam == <<[kind |-> "seam", n |-> 0]>>
SeamInv ==
  /\ ~pictured => \/ streamQueue = <<>> /\ ~seamStarted /\ seen = Unseen
                  \/ streamQueue = TheSeam /\ seamStarted /\ seen.at \in {"drop", "picture"}
  /\ pictured => \A i \in 1..Len(streamQueue) : streamQueue[i].kind # "seam"
  /\ streamQueue = <<>> => seen = Unseen

(***************************************************************************)
(* Its second half is about a connection that is open and never fell back.   *)
(* Unless it passed over a gap before its first picture, the chunks it has   *)
(* kept are the last ones that were delivered, in order.                     *)
(***************************************************************************)
Streams == ~isClosed /\ ~fellBack
Alive == Streams /\ ~skipped

KeptBack == Len(buffered) + Len(ring)
InOrder ==
  /\ KeptBack =< delivered
  /\ \A i \in 1..Len(buffered) : buffered[i] = delivered - KeptBack + i
  /\ \A i \in 1..Len(ring) : ring[i] = delivered - Len(ring) + i

\* What the client shows once the picture at hand has gone out.
Showing == IF seen.at = "picture" THEN seen.n ELSE screen.n

\* When the first i tasks of q are done, a chunk with the number k leaves no
\* hole: the client shows k - 1 already, or one of the tasks shows it, as a
\* chunk or by a picture that is still to be taken.
Reaches(q, at, s, i, k) ==
  \/ k =< s + 1
  \/ \E j \in 1..i : \/ q[j].kind = "chunk" /\ k =< q[j].n + 1
                     \/ q[j].kind \in {"seam", "gap"} /\ (j = 1 => at # "picture")
Seamless(q, at, s, d) ==
  /\ \A i \in 1..Len(q) :
       q[i].kind = "chunk" => q[i].n =< d /\ Reaches(q, at, s, i - 1, q[i].n)
  /\ at = "picture" /\ q # <<>> /\ q[1].kind = "chunk" => q[1].n =< s

QueueInv ==
  /\ screen.n =< Showing /\ Showing =< output
  /\ Seamless(streamQueue, seen.at, Showing, delivered)
  /\ stage = "live" => Reaches(streamQueue, seen.at, Showing, Len(streamQueue),
                               delivered - KeptBack + 1)

\* A check of what the client shows is always to come.
CheckInv ==
  stage = "live" /\ pictured =>
    \/ reconcile = "timer"
    \/ reconcile = "queued" /\ \E i \in 1..Len(streamQueue) : streamQueue[i].kind = "reconcile"

\* An open connection that shows nothing yet has its first picture under way:
\* the task at the head of the chain makes it, or the pump does.
PictureUnderWay ==
  stage = "live" /\ ~isClosed /\ ~screen.drawn => First("seam") \/ pump.at # "none"

ControlInv == /\ ViewerTypeOK /\ StageInv /\ ClosedInv /\ WaitInv /\ FallInv /\ PumpInv
              /\ DrawnInv /\ SeamInv /\ PictureUnderWay
ShowInv == InOrder /\ QueueInv
VInv == /\ ControlInv /\ NoHoleWhileStreaming
        /\ Streams => CheckInv
        /\ Alive => ShowInv

SeenSet == [at : {"start", "drop", "sized", "picture"}, n : Outputs]
PumpSet == [at : {"none", "rest", "timer", "flying"}, n : Outputs]
ScreenSet == [drawn : BOOLEAN, n : Outputs, hole : BOOLEAN]

LEMMA ChunksTyped ==
  ASSUME NEW ns \in Seq(Outputs)
  PROVE  /\ Chunks(ns) \in Seq(Entries) /\ Len(Chunks(ns)) = Len(ns)
         /\ \A i \in 1..Len(ns) : Chunks(ns)[i].kind = "chunk" /\ Chunks(ns)[i].n = ns[i]
<1>1. \A i \in 1..Len(ns) : [kind |-> "chunk", n |-> ns[i]] \in Entries
  BY ElementOfSeq DEF Entries
<1>2. Len(ns) \in Nat /\ Chunks(ns) \in [1..Len(ns) -> Entries]
  BY <1>1, LenProperties DEF Chunks
<1>3. Chunks(ns) \in Seq(Entries) /\ Len(Chunks(ns)) = Len(ns)
  BY <1>2, IsASeq, LenProperties
<1>4. ASSUME NEW i \in 1..Len(ns)
      PROVE  Chunks(ns)[i].kind = "chunk" /\ Chunks(ns)[i].n = ns[i]
  <2>1. Chunks(ns)[i] = [kind |-> "chunk", n |-> ns[i]]
    BY DEF Chunks
  <2> QED
    BY <2>1
<1> QED
  BY <1>3, <1>4

LEMMA OutputsTyped == 0 \in Outputs /\ Outputs \subseteq Nat
BY ViewerAssumption DEF Outputs

LEMMA OnChunksTyped ==
  ASSUME ViewerTypeOK, NEW ns \in Seq(Outputs), OnChunks(ns)
  PROVE  buffered' \in Seq(Outputs) /\ streamQueue' \in Seq(Entries)
<1>1. Chunks(ns) \in Seq(Entries) /\ streamQueue \in Seq(Entries)
      /\ buffered \in Seq(Outputs)
  BY ChunksTyped DEF ViewerTypeOK
<1>2. /\ streamQueue \o Chunks(ns) \in Seq(Entries)
      /\ buffered \o ns \in Seq(Outputs)
  BY <1>1, ConcatProperties
<1> QED
  BY <1>1, <1>2 DEF OnChunks

LEMMA OnGapTyped ==
  ASSUME ViewerTypeOK, OnGap
  PROVE  buffered' \in Seq(Outputs) /\ streamQueue' \in Seq(Entries)
<1>1. [kind |-> "gap", n |-> 0] \in Entries
  BY OutputsTyped DEF Entries
<1>2. Append(streamQueue, [kind |-> "gap", n |-> 0]) \in Seq(Entries)
  BY <1>1, AppendProperties DEF ViewerTypeOK
<1> QED
  BY <1>2 DEF OnGap, ViewerTypeOK

LEMMA OverTyped ==
  ASSUME ViewerTypeOK, streamQueue # <<>>,
         \/ Over
         \/ \E at \in {"drop", "sized", "picture"} : Sees(at)
  PROVE  streamQueue' \in Seq(Entries) /\ seen' \in SeenSet
<1>1. Tail(streamQueue) \in Seq(Entries) /\ streamQueue \in Seq(Entries)
  BY HeadTailProperties DEF ViewerTypeOK
<1>2. Unseen \in SeenSet
  BY OutputsTyped DEF Unseen, SeenSet
<1>3. \A at \in {"drop", "sized", "picture"} : [at |-> at, n |-> output] \in SeenSet
  BY DEF ViewerTypeOK, SeenSet
<1> QED
  BY <1>1, <1>2, <1>3 DEF Over, Sees

LEMMA ShownTyped ==
  ASSUME ViewerTypeOK
  PROVE  /\ \A n \in Outputs : Picture(n) \in ScreenSet /\ Appended(n) \in ScreenSet
         /\ \A s \in ScreenSet : Shows(s) => screen' \in ScreenSet
BY DEF ViewerTypeOK, Picture, Appended, Shows, ScreenSet

LEMMA PumpOnTyped == ViewerTypeOK => PumpOn \in PumpSet
BY OutputsTyped DEF ViewerTypeOK, PumpOn, PumpSet

LEMMA SeamTyped ==
  ASSUME ViewerTypeOK, SeamStarts \/ NoSeam
  PROVE  /\ seamStarted' \in BOOLEAN /\ streamQueue' \in Seq(Entries)
         /\ seen' \in SeenSet
<1>1. /\ [kind |-> "seam", n |-> 0] \in Entries /\ Unseen \in SeenSet
      /\ [at |-> "drop", n |-> 0] \in SeenSet
  BY OutputsTyped DEF Entries, SeenSet, Unseen
<1>2. <<[kind |-> "seam", n |-> 0]>> \in Seq(Entries)
  BY <1>1
<1> QED
  BY <1>1, <1>2 DEF SeamStarts, NoSeam, ViewerTypeOK, SeenSet

\* The types, one variable at a time.
ControlTypes ==
  /\ stage \in {"none", "resolving", "subscribing", "live", "ended"}
  /\ isClosed \in BOOLEAN /\ visible \in BOOLEAN /\ pictured \in BOOLEAN
  /\ seamStarted \in BOOLEAN /\ fallbackStarted \in BOOLEAN
  /\ resized \in {"no", "hidden", "yes"} /\ fellBack \in BOOLEAN
  /\ skipped \in BOOLEAN /\ alike \in BOOLEAN
  /\ passedHint \in {"none", "hidden", "visible"}
  /\ feed \in {"starting", "stream", "fallback"}
  /\ handle \in {"none", "on", "paused", "released"}
  /\ mode \in {"stream", "fallback"}
  /\ reconcile \in {"none", "timer", "queued"}
CountTypes ==
  output \in Outputs /\ delivered \in 0..output /\ upsets \in 0..MaxUpsets
QueueTypes ==
  /\ ring \in Seq(Outputs) /\ buffered \in Seq(Outputs)
  /\ streamQueue \in Seq(Entries) /\ seen \in SeenSet
PictureTypes == pump \in PumpSet /\ screen \in ScreenSet

LEMMA TypesSplit ==
  ViewerTypeOK <=> ControlTypes /\ CountTypes /\ QueueTypes /\ PictureTypes
BY DEF ViewerTypeOK, ControlTypes, CountTypes, QueueTypes, PictureTypes, SeenSet,
       PumpSet, ScreenSet

LEMMA ControlTypesKept == ControlTypes /\ ViewerNext => ControlTypes'
<1> SUFFICES ASSUME ControlTypes, ViewerNext PROVE ControlTypes'
  OBVIOUS
<1> USE DEF ControlTypes, client, world, shown, StayInMode, SizeRead, Recorded
<1>1. CASE Connect \/ Resolve \/ ResolveFails
  BY <1>1 DEF Connect, Resolve, ResolveFails, Resting
<1>2. CASE SubscribeReturns
  <2>1. /\ fellBack' \in BOOLEAN /\ fallbackStarted' \in BOOLEAN
        /\ mode' \in {"stream", "fallback"} /\ seamStarted' \in BOOLEAN
    BY <1>2 DEF SubscribeReturns, FallBack, SeamStarts, NoSeam
  <2> QED
    BY <1>2, <2>1 DEF SubscribeReturns
<1>9. CASE ClientCloses
  BY <1>9 DEF ClientCloses, Close, Stopped
<1>3. CASE \E v \in BOOLEAN : Hint(v)
  BY <1>3 DEF Hint, Resumes
<1>4. CASE PaneOutput \/ PaneResized \/ SizeExpires \/ FeedDelivers
  BY <1>4 DEF PaneOutput, PaneResized, SizeExpires, FeedDelivers
<1>5. CASE FeedFails \/ FeedStarts
  BY <1>5 DEF FeedFails, FeedStarts, FallBack, SeamStarts, NoSeam, Stopped
<1>6. CASE TaskStep
  <2> USE <1>6 DEF TaskKeeps
  <2>1. CASE SeamEnds \/ ReconcileStarts \/ ResetEnds
    BY <2>1 DEF SeamEnds, ReconcileStarts, ResetEnds, Checked, Scheduled
  <2>2. CASE ChunkStarts \/ ChunkEnds \/ ResetStarts \/ ResetCaptures
    BY <2>2 DEF ChunkStarts, ChunkEnds, ResetStarts, ResetCaptures
  <2>3. CASE TaskFails
    <3> USE <2>3 DEF TaskFails
    <3>1. reconcile' \in {"none", "timer", "queued"}
      BY DEF Stopped
    <3>2. seamStarted' \in BOOLEAN
      OBVIOUS
    <3>3. mode' = "fallback" /\ fellBack' = TRUE /\ fallbackStarted' \in BOOLEAN
      BY DEF FallBack
    <3> QED
      BY <3>1, <3>2, <3>3
  <2> QED
    BY <2>1, <2>2, <2>3 DEF TaskStep
<1>7. CASE ReconcileFires
  BY <1>7 DEF ReconcileFires, TaskKeeps
<1>8. CASE PumpStep
  BY <1>8 DEF PumpStep, PumpFires, PumpEnds, PumpFails, PumpKeeps, Close, Stopped
<1> QED
  BY <1>1, <1>2, <1>3, <1>4, <1>5, <1>6, <1>7, <1>8, <1>9 DEF ViewerNext

LEMMA CountTypesKept == CountTypes /\ ViewerNext => CountTypes'
<1> SUFFICES ASSUME CountTypes, ViewerNext PROVE CountTypes'
  OBVIOUS
<1> USE ViewerAssumption DEF CountTypes, Outputs, client, world, Upset, Calm
<1>1. CASE Connect \/ Resolve \/ ResolveFails
  BY <1>1 DEF Connect, Resolve, ResolveFails, Resting
<1>2. CASE SubscribeReturns \/ ClientCloses
  BY <1>2 DEF SubscribeReturns, ClientCloses
<1>3. CASE \E v \in BOOLEAN : Hint(v)
  BY <1>3 DEF Hint
<1>4. CASE PaneOutput \/ PaneResized \/ SizeExpires
  BY <1>4 DEF PaneOutput, PaneResized, SizeExpires
<1>8. CASE FeedDelivers
  BY <1>8 DEF FeedDelivers
<1>5. CASE FeedFails \/ FeedStarts
  BY <1>5 DEF FeedFails, FeedStarts
<1>6. CASE TaskStep
  <2>1. UNCHANGED <<output, delivered>>
    BY <1>6 DEF TaskStep, SeamEnds, ChunkStarts, ChunkEnds, ResetStarts,
       ReconcileStarts, ResetCaptures, ResetEnds, TaskFails, TaskKeeps
  <2>2. Upset \/ Calm
    BY <1>6 DEF TaskStep, SeamEnds, ChunkStarts, ChunkEnds, ResetStarts,
       ReconcileStarts, ResetCaptures, ResetEnds, TaskFails
  <2> QED
    BY <2>1, <2>2
<1>7. CASE ReconcileFires \/ PumpStep
  BY <1>7 DEF ReconcileFires, TaskKeeps, PumpStep, PumpFires, PumpEnds, PumpFails, PumpKeeps
<1> QED
  BY <1>1, <1>2, <1>3, <1>4, <1>5, <1>6, <1>7, <1>8 DEF ViewerNext

LEMMA QueueTypesKept == ViewerTypeOK /\ ViewerNext => QueueTypes'
<1> SUFFICES ASSUME ViewerTypeOK, ViewerNext PROVE QueueTypes'
  OBVIOUS
<1>0. QueueTypes /\ CountTypes /\ <<>> \in Seq(Outputs)
  BY TypesSplit, EmptySeq
<1>1. CASE UNCHANGED <<ring, buffered, streamQueue, seen>>
  BY <1>0, <1>1 DEF QueueTypes
<1>2. CASE Connect \/ Resolve \/ ResolveFails \/ PaneOutput \/ PaneResized \/ SizeExpires
           \/ PumpFires \/ PumpEnds
  BY <1>1, <1>2 DEF Connect, Resolve, ResolveFails, PaneOutput, PaneResized, SizeExpires,
     PumpFires, PumpEnds, PumpKeeps, Resting
<1>3. CASE SubscribeReturns \/ FeedStarts
  <2>1. SeamStarts \/ NoSeam
    BY <1>3 DEF SubscribeReturns, FeedStarts
  <2> QED
    BY <1>0, <1>3, <2>1, SeamTyped DEF SubscribeReturns, FeedStarts, QueueTypes
<1>4. CASE ClientCloses \/ PumpFails
  BY <1>0, <1>4 DEF ClientCloses, PumpFails, Close, PumpKeeps, QueueTypes
<1>5. ASSUME NEW v \in BOOLEAN, Hint(v) PROVE QueueTypes'
  <2>1. OnChunks(ring) \/ OnGap \/ UNCHANGED <<streamQueue, buffered>>
    BY <1>5 DEF Hint, Resumes
  <2>2. (ring' = ring \/ ring' = <<>>) /\ seen' = seen
    BY <1>5 DEF Hint, Resumes
  <2> QED
    BY <1>0, <2>1, <2>2, OnChunksTyped, OnGapTyped DEF QueueTypes
<1>6. CASE FeedDelivers
  <2>1. <<delivered'>> \in Seq(Outputs) /\ delivered' \in Outputs
    BY <1>0, <1>6, ViewerAssumption DEF FeedDelivers, CountTypes, Outputs
  <2>2. Append(ring, delivered') \in Seq(Outputs)
    BY <1>0, <2>1, AppendProperties DEF QueueTypes
  <2>3. OnChunks(<<delivered'>>) \/ UNCHANGED <<streamQueue, buffered>>
    BY <1>6 DEF FeedDelivers
  <2>4. (ring' = ring \/ ring' = Append(ring, delivered')) /\ seen' = seen
    BY <1>6 DEF FeedDelivers
  <2> QED
    BY <1>0, <2>1, <2>2, <2>3, <2>4, OnChunksTyped DEF QueueTypes
<1>7. CASE FeedFails
  <2>1. [kind |-> "error", n |-> 0] \in Entries
    BY OutputsTyped DEF Entries
  <2>2. Append(streamQueue, [kind |-> "error", n |-> 0]) \in Seq(Entries)
    BY <1>0, <2>1, AppendProperties DEF QueueTypes
  <2>3. streamQueue' \in {streamQueue, Append(streamQueue, [kind |-> "error", n |-> 0])}
    BY <1>7 DEF FeedFails
  <2>4. UNCHANGED <<ring, seen>> /\ buffered' \in {buffered, <<>>}
    BY <1>7 DEF FeedFails
  <2> QED
    BY <1>0, <2>2, <2>3, <2>4 DEF QueueTypes
<1>8. CASE TaskStep \/ ReconcileFires
  <2>1. ring' = ring
    BY <1>8 DEF TaskStep, SeamEnds, ChunkStarts, ChunkEnds, ResetStarts,
       ReconcileStarts, ResetCaptures, ResetEnds, TaskFails, ReconcileFires, TaskKeeps
  <2>2. CASE SeamEnds
    <3>1. Tail(streamQueue) \in Seq(Entries) /\ Chunks(buffered) \in Seq(Entries)
      BY <1>0, <2>2, ChunksTyped, HeadTailProperties DEF SeamEnds, First, QueueTypes
    <3>2. Tail(streamQueue) \o Chunks(buffered) \in Seq(Entries) /\ Unseen \in SeenSet
      BY <3>1, ConcatProperties, OutputsTyped DEF Unseen, SeenSet
    <3> QED
      BY <1>0, <2>1, <2>2, <3>2 DEF SeamEnds, QueueTypes
  <2>3. CASE ReconcileFires
    <3>1. [kind |-> "reconcile", n |-> 0] \in Entries
      BY OutputsTyped DEF Entries
    <3>2. Append(streamQueue, [kind |-> "reconcile", n |-> 0]) \in Seq(Entries)
      BY <1>0, <3>1, AppendProperties DEF QueueTypes
    <3> QED
      BY <1>0, <2>1, <2>3, <3>2 DEF ReconcileFires, QueueTypes
  <2>4. CASE TaskStep /\ ~SeamEnds
    <3>1. buffered' = buffered /\ streamQueue # <<>>
      BY <2>4 DEF TaskStep, ChunkStarts, ChunkEnds, ResetStarts,
         ReconcileStarts, ResetCaptures, ResetEnds, TaskFails, First
    <3>2. Over \/ Sees("drop") \/ Sees("sized") \/ Sees("picture")
      BY <2>4 DEF TaskStep, ChunkStarts, ChunkEnds, ResetStarts,
         ReconcileStarts, ResetCaptures, ResetEnds, TaskFails
    <3> QED
      BY <1>0, <2>1, <3>1, <3>2, OverTyped DEF QueueTypes
  <2> QED
    BY <1>8, <2>2, <2>3, <2>4
<1> QED
  BY <1>2, <1>3, <1>4, <1>5, <1>6, <1>7, <1>8 DEF ViewerNext, PumpStep

LEMMA PictureTypesKept == ViewerTypeOK /\ ViewerNext => PictureTypes'
<1> SUFFICES ASSUME ViewerTypeOK, ViewerNext PROVE PictureTypes'
  OBVIOUS
<1>0. /\ PictureTypes /\ QueueTypes /\ CountTypes /\ PumpOn \in PumpSet
      /\ NoPump \in PumpSet /\ [at |-> "flying", n |-> output] \in PumpSet
      /\ \A at \in {"timer", "rest"} : [at |-> at, n |-> 0] \in PumpSet
  BY TypesSplit, PumpOnTyped, OutputsTyped DEF NoPump, PumpSet, CountTypes
<1>1. CASE UNCHANGED <<pump, screen>>
  BY <1>0, <1>1 DEF PictureTypes
<1>2. CASE Connect \/ Resolve \/ ResolveFails \/ PaneOutput \/ PaneResized \/ SizeExpires
           \/ FeedDelivers \/ ChunkStarts \/ ResetStarts \/ ReconcileStarts \/ ResetCaptures
           \/ ReconcileFires
  BY <1>1, <1>2 DEF Connect, Resolve, ResolveFails, PaneOutput, PaneResized, SizeExpires, Resting,
     FeedDelivers, ChunkStarts, ResetStarts, ReconcileStarts, ResetCaptures, ReconcileFires,
     StayInMode, shown
<1>3. CASE SubscribeReturns \/ FeedFails \/ FeedStarts \/ ClientCloses \/ TaskFails
           \/ PumpFires \/ PumpFails
  <2>1. screen' = screen
    BY <1>3 DEF SubscribeReturns, FeedFails, FeedStarts, ClientCloses, TaskFails,
       PumpFires, PumpFails, shown
  <2>2. pump' \in {pump, PumpOn, NoPump, [at |-> "flying", n |-> output]}
    BY <1>3 DEF SubscribeReturns, FeedFails, FeedStarts, ClientCloses, TaskFails,
       PumpFires, PumpFails, Close, FallBack, StayInMode
  <2> QED
    BY <1>0, <2>1, <2>2 DEF PictureTypes
<1>4. ASSUME NEW v \in BOOLEAN, Hint(v) PROVE PictureTypes'
  <2>1. screen' = screen /\ pump' \in {pump, [at |-> "rest", n |-> 0],
                                       [at |-> "flying", n |-> output]}
    BY <1>4 DEF Hint, shown
  <2> QED
    BY <1>0, <2>1 DEF PictureTypes
<1>6. CASE SeamEnds \/ ChunkEnds \/ ResetEnds
  <2>1. pump' = pump
    BY <1>6 DEF SeamEnds, ChunkEnds, ResetEnds, StayInMode
  <2>2. seen.n \in Outputs
    BY <1>0 DEF QueueTypes, SeenSet
  <2>4. streamQueue # <<>>
    BY <1>6 DEF SeamEnds, ChunkEnds, ResetEnds, First
  <2>7. Head(streamQueue) \in Entries
    BY <1>0, <2>4, HeadTailProperties DEF QueueTypes
  <2>3. Head(streamQueue).n \in Outputs
    BY <2>7 DEF Entries
  <2>5. Shows(Picture(seen.n)) \/ Shows(Appended(Head(streamQueue).n))
    BY <1>6 DEF SeamEnds, ChunkEnds, ResetEnds
  <2>6. screen' \in ScreenSet
    BY <2>2, <2>3, <2>4, <2>5, ShownTyped
  <2> QED
    BY <1>0, <2>1, <2>6 DEF PictureTypes
<1>7. CASE PumpEnds
  <2>1. pump.n \in Outputs /\ Picture(pump.n) \in ScreenSet
    BY <1>0, ShownTyped DEF PictureTypes, PumpSet
  <2>2. screen' \in {screen, Picture(pump.n)}
    BY <1>7 DEF PumpEnds
  <2>3. screen' \in ScreenSet
    BY <1>0, <2>1, <2>2 DEF PictureTypes
  <2>4. pump' \in {[at |-> "timer", n |-> 0], [at |-> "rest", n |-> 0]}
    BY <1>7 DEF PumpEnds
  <2> QED
    BY <1>0, <2>3, <2>4 DEF PictureTypes
<1> QED
  BY <1>2, <1>3, <1>4, <1>6, <1>7 DEF ViewerNext, TaskStep, PumpStep

LEMMA TypesKept == ViewerTypeOK /\ ViewerNext => ViewerTypeOK'
<1> SUFFICES ASSUME ViewerTypeOK, ViewerNext PROVE ViewerTypeOK'
  OBVIOUS
<1>1. ControlTypes' /\ CountTypes' /\ QueueTypes' /\ PictureTypes'
  BY TypesSplit, ControlTypesKept, CountTypesKept, QueueTypesKept, PictureTypesKept
<1> QED
  BY <1>1 DEF ViewerTypeOK, ControlTypes, CountTypes, QueueTypes, PictureTypes, SeenSet,
     PumpSet, ScreenSet

(***************************************************************************)
(* The control half, one action or group of actions at a time.             *)
(***************************************************************************)
ControlRest == StageInv /\ ClosedInv /\ WaitInv /\ FallInv /\ PumpInv
SeamRest == DrawnInv /\ SeamInv /\ PictureUnderWay

LEMMA PumpOnRuns == PumpOn.at # "none" /\ NoPump.at = "none"
BY DEF PumpOn, NoPump

LEMMA OnChunksQuiet ==
  ASSUME NEW ns, OnChunks(ns), ~pictured
  PROVE  UNCHANGED streamQueue
BY DEF OnChunks

LEMMA OnlyTheSeam ==
  ASSUME SeamInv, NEW kind, First(kind), kind # "seam"
  PROVE  pictured
<1>1. Head(TheSeam).kind = "seam"
  BY DEF TheSeam
<1> QED
  BY <1>1 DEF SeamInv, First

LEMMA ControlRestKept ==
  ControlTypes /\ ControlRest /\ SeamInv /\ ViewerNext => ControlRest'
<1> SUFFICES ASSUME ControlTypes, ControlRest, SeamInv, ViewerNext PROVE ControlRest'
  OBVIOUS
<1> USE PumpOnRuns DEF ControlTypes, ControlRest, StageInv, ClosedInv, WaitInv, FallInv, PumpInv,
     client, world, Listening
<1>1. CASE Connect \/ Resolve \/ ResolveFails
  <2>1. CASE Connect
    BY <2>1 DEF Connect
  <2>2. CASE Resolve
    BY <2>2 DEF Resolve, Resting
  <2>3. CASE ResolveFails
    BY <2>3 DEF ResolveFails, Resting
  <2> QED
    BY <1>1, <2>1, <2>2, <2>3
<1>2. CASE SubscribeReturns
  BY <1>2 DEF SubscribeReturns, FallBack, SeamStarts, NoSeam, StayInMode
<1>3. CASE ClientCloses \/ PumpFails
  BY <1>3 DEF ClientCloses, Close, Stopped, PumpFails, PumpKeeps
<1>4. ASSUME NEW v \in BOOLEAN, Hint(v) PROVE ControlRest'
  <2>1. UNCHANGED <<stage, isClosed, feed, mode, pictured, seamStarted, fallbackStarted,
                    reconcile, fellBack>>
    BY <1>4 DEF Hint
  <2>2. pump' = pump \/ (pump.at # "none" /\ pump'.at # "none")
    BY <1>4 DEF Hint
  <2> QED
    BY <1>4, <2>1, <2>2 DEF Hint, Resumes, OnChunks, OnGap
<1>5. CASE PaneOutput \/ PaneResized \/ SizeExpires
  BY <1>5 DEF PaneOutput, PaneResized, SizeExpires, StayInMode
<1>6. CASE FeedDelivers
  BY <1>6 DEF FeedDelivers, OnChunks, StayInMode
<1>7. CASE FeedFails
  BY <1>7 DEF FeedFails, FallBack, StayInMode, Stopped
<1>8. CASE FeedStarts
  BY <1>8 DEF FeedStarts, SeamStarts, NoSeam, StayInMode
<1>9. CASE TaskStep
  <2> USE <1>9 DEF TaskKeeps
  <2>1. CASE SeamEnds
    BY <2>1 DEF SeamEnds, Scheduled, First, StayInMode
  <2>2. CASE ChunkStarts \/ ChunkEnds \/ ResetStarts \/ ResetCaptures
    BY <2>2 DEF ChunkStarts, ChunkEnds, ResetStarts, ResetCaptures, StayInMode, First, Over, Sees
  <2>3. CASE ReconcileStarts \/ ResetEnds
    <3>1. First("reconcile") => pictured
      BY OnlyTheSeam
    <3>2. reconcile' # reconcile => First("reconcile")
      BY <2>3 DEF ReconcileStarts, ResetEnds
    <3>3. reconcile' = "timer" => reconcile = "timer" \/ ~isClosed
      BY <2>3 DEF ReconcileStarts, ResetEnds, Checked
    <3> QED
      BY <2>3, <3>1, <3>2, <3>3 DEF ReconcileStarts, ResetEnds, StayInMode, First, Over, Sees
  <2>4. CASE TaskFails
    BY <2>4 DEF TaskFails, FallBack, Over, Stopped
  <2> QED
    BY <2>1, <2>2, <2>3, <2>4 DEF TaskStep
<1>10. CASE ReconcileFires
  BY <1>10 DEF ReconcileFires, TaskKeeps, StayInMode
<1>11. CASE PumpFires \/ PumpEnds
  BY <1>11 DEF PumpFires, PumpEnds, PumpKeeps
<1> QED
  BY <1>1, <1>2, <1>3, <1>4, <1>5, <1>6, <1>7, <1>8, <1>9, <1>10, <1>11
     DEF ViewerNext, PumpStep

\* How the chain moves: tasks that are not the seam are put at its end, and the
\* first one leaves it.
NoSeamIn(q) == \A i \in 1..Len(q) : q[i].kind # "seam"

LEMMA NoSeamGrows ==
  ASSUME NEW q \in Seq(Entries), NoSeamIn(q)
  PROVE  /\ \A e \in Entries : e.kind # "seam" =>
              NoSeamIn(Append(q, e)) /\ Append(q, e) # <<>>
         /\ \A ns \in Seq(Outputs) : NoSeamIn(q \o Chunks(ns))
         /\ q # <<>> => NoSeamIn(Tail(q))
<1>1. ASSUME NEW e \in Entries, e.kind # "seam"
      PROVE  NoSeamIn(Append(q, e)) /\ Append(q, e) # <<>>
  BY <1>1, AppendProperties, LenProperties DEF NoSeamIn
<1>2. ASSUME NEW ns \in Seq(Outputs) PROVE NoSeamIn(q \o Chunks(ns))
  <2>1. /\ Len(q) \in Nat /\ Len(ns) \in Nat /\ Len(Chunks(ns)) = Len(ns)
        /\ Chunks(ns) \in Seq(Entries)
    BY ChunksTyped, LenProperties
  <2>2. \A i \in 1..Len(ns) : Chunks(ns)[i].kind # "seam"
    BY ChunksTyped
  <2>3. /\ Len(q \o Chunks(ns)) = Len(q) + Len(ns)
        /\ \A i \in 1..(Len(q) + Len(ns)) :
             (q \o Chunks(ns))[i] = IF i =< Len(q) THEN q[i] ELSE Chunks(ns)[i - Len(q)]
    <3> DEFINE c == Chunks(ns)
    <3>1. /\ Len(q \o c) = Len(q) + Len(c)
          /\ \A i \in 1..(Len(q) + Len(c)) :
               (q \o c)[i] = IF i =< Len(q) THEN q[i] ELSE c[i - Len(q)]
      <4> HIDE DEF c
      <4>1. c \in Seq(Entries)
        BY <2>1 DEF c
      <4> QED
        BY <4>1, ConcatProperties
    <3> QED
      BY <2>1, <3>1
  <2> QED
    BY <2>1, <2>2, <2>3 DEF NoSeamIn
<1>3. q # <<>> => NoSeamIn(Tail(q))
  BY HeadTailProperties, LenProperties DEF NoSeamIn
<1> QED
  BY <1>1, <1>2, <1>3

LEMMA TheSeamAlone ==
  /\ TheSeam \in Seq(Entries) /\ TheSeam # <<>> /\ Len(TheSeam) = 1
  /\ Head(TheSeam).kind = "seam" /\ Tail(TheSeam) = <<>> /\ TheSeam[1].kind = "seam"
BY OutputsTyped DEF TheSeam, Entries

LEMMA SeamInvSays ==
  ASSUME QueueTypes, SeamInv
  PROVE  /\ First("seam") <=> ~pictured /\ streamQueue = TheSeam
         /\ pictured <=> NoSeamIn(streamQueue) /\ (streamQueue # <<>> \/ pictured)
         /\ ~pictured => (streamQueue = <<>> /\ seen = Unseen) \/ First("seam")
<1>1. streamQueue # <<>> => Head(streamQueue) = streamQueue[1] /\ 1 \in 1..Len(streamQueue)
  BY LenProperties, EmptySeq DEF QueueTypes
<1>2. pictured => NoSeamIn(streamQueue)
  BY DEF SeamInv, NoSeamIn
<1> QED
  BY <1>1, <1>2, TheSeamAlone DEF SeamInv, First, NoSeamIn

LEMMA SeamInvKept ==
  ViewerTypeOK /\ ControlRest /\ SeamInv /\ ViewerNext => SeamInv'
<1> SUFFICES ASSUME ViewerTypeOK, ControlRest, SeamInv, ViewerNext PROVE SeamInv'
  OBVIOUS
<1>0. ControlTypes /\ QueueTypes /\ CountTypes
  BY TypesSplit
<1>1. CASE UNCHANGED <<pictured, streamQueue, seamStarted, seen>>
  BY <1>1 DEF SeamInv
<1>2. CASE Connect \/ Resolve \/ ResolveFails \/ ClientCloses \/ PaneOutput \/ PaneResized
           \/ SizeExpires \/ PumpStep
  BY <1>1, <1>2 DEF Connect, Resolve, ResolveFails, Resting, ClientCloses, PaneOutput,
     PaneResized, SizeExpires, PumpStep, PumpFires, PumpEnds, PumpFails, PumpKeeps
<1>3. CASE SubscribeReturns \/ FeedStarts
  <2>1. NoSeam \/ (SeamStarts /\ ~pictured /\ ~seamStarted)
    BY <1>3 DEF SeamInv, TheSeam, SubscribeReturns, FeedStarts, ControlRest, StageInv
  <2>2. pictured' = pictured
    BY <1>3 DEF SubscribeReturns, FeedStarts
  <2>3. CASE NoSeam
    BY <1>1, <2>2, <2>3 DEF NoSeam
  <2>4. CASE SeamStarts /\ ~pictured /\ ~seamStarted
    BY <2>2, <2>4, TheSeamAlone DEF SeamStarts, SeamInv, TheSeam
  <2> QED
    BY <2>1, <2>3, <2>4
\* Steps that put something on the chain, or leave it alone.
<1>4. ASSUME UNCHANGED <<pictured, seamStarted, seen>>,
             \/ UNCHANGED streamQueue
             \/ pictured /\ \E e \in Entries : /\ streamQueue' = Append(streamQueue, e)
                                               /\ e.kind # "seam"
             \/ pictured /\ \E ns \in Seq(Outputs) : /\ streamQueue' = streamQueue \o Chunks(ns)
                                                     /\ streamQueue' = <<>> => streamQueue = <<>>
      PROVE  SeamInv'
  <2>1. CASE UNCHANGED streamQueue
    BY <1>1, <1>4, <2>1
  <2>2. CASE pictured /\ ~UNCHANGED streamQueue
    <3>1. NoSeamIn(streamQueue) /\ streamQueue \in Seq(Entries)
      BY <1>0, <2>2, SeamInvSays DEF QueueTypes
    <3>2. NoSeamIn(streamQueue') /\ (streamQueue' = <<>> => streamQueue = <<>>)
      BY <1>4, <2>2, <3>1, NoSeamGrows
    <3> QED
      BY <1>4, <2>2, <3>2 DEF SeamInv, NoSeamIn
  <2> QED
    BY <1>4, <2>1, <2>2
<1>5. ASSUME NEW ns \in Seq(Outputs), OnChunks(ns)
      PROVE  \/ UNCHANGED streamQueue
             \/ pictured /\ \E ms \in Seq(Outputs) : /\ streamQueue' = streamQueue \o Chunks(ms)
                                                     /\ streamQueue' = <<>> => streamQueue = <<>>
  <2>1. Chunks(ns) \in Seq(Entries) /\ streamQueue \in Seq(Entries)
    BY <1>0, ChunksTyped DEF QueueTypes
  <2>2. streamQueue \o Chunks(ns) = <<>> => streamQueue = <<>>
    BY <2>1, ConcatProperties, EmptySeq, LenProperties
  <2> QED
    BY <1>5, <2>2 DEF OnChunks
<1>6. ASSUME NEW kind \in {"gap", "error", "reconcile"}
      PROVE  \E e \in Entries : /\ Append(streamQueue, [kind |-> kind, n |-> 0]) = Append(streamQueue, e)
                                /\ e.kind # "seam"
  <2>1. [kind |-> kind, n |-> 0] \in Entries
    BY OutputsTyped DEF Entries
  <2> QED
    BY <2>1
<1>7. ASSUME NEW v \in BOOLEAN, Hint(v) PROVE SeamInv'
  <2>1. UNCHANGED <<pictured, seamStarted, seen>> /\ ring \in Seq(Outputs)
    BY <1>0, <1>7 DEF Hint, QueueTypes
  <2>2. OnChunks(ring) \/ OnGap \/ UNCHANGED streamQueue
    BY <1>7 DEF Hint, Resumes
  <2> QED
    BY <1>4, <1>5, <1>6, <2>1, <2>2 DEF OnGap
<1>8. CASE FeedDelivers
  <2>1. UNCHANGED <<pictured, seamStarted, seen>>
    BY <1>8 DEF FeedDelivers
  <2>2. <<delivered'>> \in Seq(Outputs)
    BY <1>0, <1>8, ViewerAssumption DEF FeedDelivers, CountTypes, Outputs
  <2>3. OnChunks(<<delivered'>>) \/ UNCHANGED streamQueue
    BY <1>8 DEF FeedDelivers
  <2> QED
    BY <1>4, <1>5, <2>1, <2>2, <2>3
<1>9. CASE FeedFails
  <2>1. UNCHANGED <<pictured, seamStarted, seen>>
    BY <1>9 DEF FeedFails
  <2>2. \/ UNCHANGED streamQueue
        \/ pictured /\ streamQueue' = Append(streamQueue, [kind |-> "error", n |-> 0])
    BY <1>9 DEF FeedFails
  <2> QED
    BY <1>4, <1>6, <2>1, <2>2
<1>10. CASE ReconcileFires
  <2>1. UNCHANGED <<pictured, seamStarted, seen>> /\ pictured
    BY <1>10 DEF ReconcileFires, ControlRest, WaitInv
  <2>2. \/ UNCHANGED streamQueue
        \/ streamQueue' = Append(streamQueue, [kind |-> "reconcile", n |-> 0])
    BY <1>10 DEF ReconcileFires
  <2> QED
    BY <1>4, <1>6, <2>1, <2>2
<1>11. CASE SeamEnds
  <2>1. streamQueue = TheSeam
    BY <1>0, <1>11, SeamInvSays DEF SeamEnds
  <2>2. /\ pictured' = TRUE /\ seen' = Unseen
        /\ streamQueue' = <<>> \o Chunks(buffered)
    BY <1>11, <2>1, TheSeamAlone DEF SeamEnds
  <2>3. NoSeamIn(<<>>) /\ <<>> \in Seq(Entries) /\ buffered \in Seq(Outputs)
    BY <1>0, EmptySeq DEF NoSeamIn, QueueTypes
  <2>4. NoSeamIn(streamQueue')
    BY <2>2, <2>3, NoSeamGrows
  <2> QED
    BY <2>2, <2>4 DEF SeamInv, NoSeamIn
<1>12. CASE TaskStep /\ ~SeamEnds
  <2>1. streamQueue # <<>> /\ pictured' = pictured
    BY <1>12 DEF TaskStep, ChunkStarts, ChunkEnds, ResetStarts,
       ReconcileStarts, ResetCaptures, ResetEnds, TaskFails, First
  <2>2. CASE pictured
    <3>1. NoSeamIn(streamQueue) /\ streamQueue \in Seq(Entries) /\ ~First("seam")
      BY <1>0, <2>2, SeamInvSays DEF QueueTypes
    <3>2. \/ streamQueue' = Tail(streamQueue) /\ seen' = Unseen
          \/ streamQueue' = streamQueue
      BY <1>12 DEF TaskStep, ChunkStarts, ChunkEnds, ResetStarts,
         ReconcileStarts, ResetCaptures, ResetEnds, TaskFails, Over, Sees
    <3>3. NoSeamIn(streamQueue')
      BY <2>1, <3>1, <3>2, NoSeamGrows
    <3> QED
      BY <2>1, <2>2, <3>2, <3>3 DEF SeamInv, NoSeamIn
  <2>3. CASE ~pictured
    <3>1. streamQueue = TheSeam /\ seamStarted /\ seen.at \in {"drop", "picture"} /\ First("seam")
      BY <1>0, <2>1, <2>3, SeamInvSays DEF SeamInv
    <3>2. ResetCaptures \/ TaskFails
      BY <1>12, <3>1, TheSeamAlone DEF TaskStep, ChunkStarts, ChunkEnds, ResetStarts,
         ReconcileStarts, ResetEnds, First
    <3>3. CASE ResetCaptures
      BY <2>1, <2>3, <3>1, <3>3, TheSeamAlone DEF ResetCaptures, Sees, SeamInv
    <3>4. CASE TaskFails
      <4>1. streamQueue' = <<>> /\ seen' = Unseen /\ seamStarted' = FALSE
        BY <3>1, <3>4, TheSeamAlone DEF TaskFails, Over
      <4> QED
        BY <2>1, <2>3, <4>1 DEF SeamInv
    <3> QED
      BY <3>2, <3>3, <3>4
  <2> QED
    BY <2>2, <2>3
<1> QED
  BY <1>2, <1>3, <1>7, <1>8, <1>9, <1>10, <1>11, <1>12 DEF ViewerNext

LEMMA DrawnKept ==
  ASSUME ViewerTypeOK, ControlRest, DrawnInv, SeamInv, PictureUnderWay, ViewerNext
  PROVE  DrawnInv' /\ PictureUnderWay'
<1> USE DEF shown
<1>0. ControlTypes /\ QueueTypes /\ PictureTypes
  BY TypesSplit
<1>s. /\ First("seam") <=> ~pictured /\ streamQueue = TheSeam
      /\ ~pictured => streamQueue = <<>> \/ First("seam")
  BY <1>0, SeamInvSays
<1>1. ASSUME UNCHANGED <<pictured, screen>>, isClosed' = isClosed \/ isClosed'
      PROVE  DrawnInv'
  BY <1>0, <1>1 DEF DrawnInv, ControlTypes
<1>2. ASSUME screen'.drawn \/ ~screen.drawn, pictured' = pictured \/ isClosed' \/ screen'.drawn,
             isClosed' = isClosed \/ isClosed', stage' = "live" => stage = "live",
             \/ isClosed' \/ screen'.drawn
             \/ pump' = pump /\ (First("seam") => First("seam")')
             \/ pump'.at # "none"
             \/ First("seam")'
      PROVE  DrawnInv' /\ PictureUnderWay'
  BY <1>0, <1>2 DEF DrawnInv, PictureUnderWay, ControlTypes, PictureTypes, ScreenSet
<1>3. CASE Connect \/ Resolve \/ ResolveFails
  BY <1>1, <1>3 DEF Connect, Resolve, ResolveFails, Resting, PictureUnderWay
<1>4. CASE SubscribeReturns
  <2>1. DrawnInv'
    BY <1>1, <1>4 DEF SubscribeReturns
  <2>2. CASE FallBack /\ ~isClosed
    BY <1>0, <1>4, <2>1, <2>2, PumpOnRuns DEF FallBack, ControlRest, StageInv, PictureUnderWay, SubscribeReturns
  <2>3. CASE isClosed
    BY <1>4, <2>1, <2>3 DEF SubscribeReturns, PictureUnderWay
  <2>4. CASE SeamStarts
    BY <1>4, <2>1, <2>4, TheSeamAlone DEF SeamStarts, TheSeam, First, PictureUnderWay
  <2> QED
    BY <1>4, <2>1, <2>2, <2>3, <2>4 DEF SubscribeReturns, SeamInv, ControlRest, StageInv, TheSeam
<1>5. CASE ClientCloses \/ PumpFails
  BY <1>1, <1>5 DEF ClientCloses, PumpFails, Close, PumpKeeps, PictureUnderWay
<1>6. ASSUME NEW v \in BOOLEAN, Hint(v) PROVE DrawnInv' /\ PictureUnderWay'
  <2>1. UNCHANGED <<pictured, screen, stage, isClosed>>
    BY <1>6 DEF Hint
  <2>2. pump' = pump \/ pump'.at # "none"
    BY <1>6 DEF Hint
  <2>3. First("seam") => First("seam")'
    BY <1>6, <1>s DEF Hint, Resumes, OnChunks, OnGap, First
  <2> QED
    BY <1>2, <2>1, <2>2, <2>3
<1>7. CASE PaneOutput \/ PaneResized \/ SizeExpires
  BY <1>7 DEF PaneOutput, PaneResized, SizeExpires, StayInMode, DrawnInv, PictureUnderWay, First
<1>8. CASE FeedDelivers
  <2>1. First("seam") => First("seam")'
    BY <1>8, <1>s DEF FeedDelivers, OnChunks, First
  <2> QED
    BY <1>2, <1>8, <2>1 DEF FeedDelivers, StayInMode
<1>9. CASE FeedFails
  <2>1. pump' = pump \/ pump'.at # "none"
    BY <1>9, PumpOnRuns DEF FeedFails, FallBack, StayInMode
  <2>2. First("seam") => First("seam")'
    BY <1>9, <1>s DEF FeedFails, First
  <2> QED
    BY <1>2, <1>9, <2>1, <2>2 DEF FeedFails
<1>10. CASE FeedStarts
  <2>1. UNCHANGED <<pictured, screen, stage, isClosed>>
    BY <1>10 DEF FeedStarts
  <2>2. CASE NoSeam /\ UNCHANGED pump
    BY <1>2, <2>1, <2>2 DEF NoSeam, First
  <2>3. CASE SeamStarts
    <3>1. First("seam")'
      BY <2>3, TheSeamAlone DEF SeamStarts, TheSeam, First
    <3> QED
      BY <1>2, <2>1, <3>1
  <2>4. CASE NoSeam /\ ~UNCHANGED pump
    <3>1. Listening /\ ~(fallbackStarted /\ ~pictured /\ ~seamStarted)
      BY <1>10, <2>4, TheSeamAlone DEF FeedStarts, StayInMode, SeamStarts, NoSeam, SeamInv
    <3>2. CASE isClosed
      BY <2>1, <3>2 DEF DrawnInv, PictureUnderWay
    <3>3. CASE pictured /\ ~isClosed
      BY <1>2, <2>1, <3>3 DEF DrawnInv
    <3>4. CASE ~pictured /\ seamStarted
      <4>1. First("seam")
        BY <1>s, <3>4 DEF SeamInv
      <4> QED
        BY <1>2, <2>1, <2>4, <4>1 DEF NoSeam, First
    <3>5. CASE ~fallbackStarted /\ ~isClosed
      <4>1. pump.at = "none"
        BY <3>5 DEF ControlRest, PumpInv
      <4> QED
        BY <2>1, <2>4, <4>1 DEF NoSeam, First, DrawnInv, PictureUnderWay
    <3> QED
      BY <1>0, <3>1, <3>2, <3>3, <3>4, <3>5 DEF ControlTypes
  <2> QED
    BY <1>10, <2>2, <2>3, <2>4 DEF FeedStarts
<1>11. CASE SeamEnds \/ ResetEnds
  <2>1. isClosed' = isClosed /\ (isClosed \/ screen'.drawn)
    <3>1. isClosed' = isClosed /\ Shows(Picture(seen.n))
      BY <1>11 DEF SeamEnds, ResetEnds, TaskKeeps
    <3>2. Picture(seen.n).drawn
      BY DEF Picture
    <3> QED
      BY <1>0, <3>1, <3>2 DEF Shows, ControlTypes
  <2> QED
    BY <1>0, <2>1 DEF DrawnInv, PictureUnderWay, ControlTypes
<1>12. CASE ChunkEnds
  <2>1. UNCHANGED <<isClosed, pictured, stage, pump>> /\ pictured
    BY <1>12, OnlyTheSeam DEF ChunkEnds, TaskKeeps, StayInMode
  <2>2. screen'.drawn = screen.drawn
    BY <1>0, <1>12 DEF ChunkEnds, Shows, Appended, PictureTypes, ScreenSet
  <2> QED
    BY <1>0, <2>1, <2>2 DEF DrawnInv, PictureUnderWay, ControlTypes
<1>13. CASE ChunkStarts \/ ResetStarts \/ ReconcileStarts \/ ResetCaptures
  <2>1. UNCHANGED <<isClosed, pictured, stage, pump, screen>>
    BY <1>13 DEF ChunkStarts, ResetStarts, ReconcileStarts, ResetCaptures, TaskKeeps, StayInMode
  <2>2. First("seam") => streamQueue' = streamQueue
    BY <1>13 DEF ChunkStarts, ResetStarts, ReconcileStarts, ResetCaptures, Sees, First
  <2> QED
    BY <1>2, <2>1, <2>2 DEF First
<1>14. CASE TaskFails
  <2>1. UNCHANGED <<isClosed, pictured, stage, screen>>
    BY <1>14 DEF TaskFails, TaskKeeps
  <2>2. isClosed \/ pump'.at # "none"
    BY <1>0, <1>14, PumpOnRuns DEF TaskFails, FallBack, ControlRest, PumpInv
  <2> QED
    BY <1>2, <2>1, <2>2
<1>15. CASE ReconcileFires
  <2>1. UNCHANGED <<isClosed, pictured, stage, screen, pump>> /\ pictured
    BY <1>15 DEF ReconcileFires, TaskKeeps, StayInMode, ControlRest, WaitInv
  <2> QED
    BY <1>0, <2>1 DEF DrawnInv, PictureUnderWay, ControlTypes
<1>16. CASE PumpFires \/ PumpEnds
  <2>1. UNCHANGED <<isClosed, pictured, stage, streamQueue>> /\ pump'.at # "none"
    BY <1>16 DEF PumpFires, PumpEnds, PumpKeeps
  <2>2. screen'.drawn \/ screen' = screen
    BY <1>0, <1>16 DEF PumpFires, PumpEnds, Picture
  <2> QED
    BY <1>2, <2>1, <2>2 DEF DrawnInv
<1> QED
  BY <1>3, <1>4, <1>5, <1>6, <1>7, <1>8, <1>9, <1>10, <1>11, <1>12, <1>13, <1>14, <1>15, <1>16
     DEF ViewerNext, TaskStep, PumpStep

LEMMA ControlKept == ControlInv /\ ViewerNext => ControlInv'
<1> SUFFICES ASSUME ControlInv, ViewerNext PROVE ControlInv'
  OBVIOUS
<1>1. ControlTypes /\ ControlRest /\ ViewerTypeOK /\ SeamInv /\ DrawnInv /\ PictureUnderWay
  BY TypesSplit DEF ControlInv, ControlRest
<1>2. ViewerTypeOK'
  BY <1>1, TypesKept
<1>3. ControlRest'
  BY <1>1, ControlRestKept
<1>4. SeamInv'
  BY <1>1, SeamInvKept
<1>5. DrawnInv' /\ PictureUnderWay'
  BY <1>1, DrawnKept
<1> QED
  BY <1>2, <1>3, <1>4, <1>5 DEF ControlInv, ControlRest

(***************************************************************************)
(* What a chain shows, whatever is put at its end or taken from its head.    *)
(***************************************************************************)
LEMMA EntryNumbers ==
  ASSUME NEW q \in Seq(Entries)
  PROVE  \A j \in 1..Len(q) : q[j].n \in Nat
<1>1. ASSUME NEW j \in 1..Len(q) PROVE q[j].n \in Nat
  <2>1. q[j] \in Entries
    BY ElementOfSeq
  <2> QED
    BY <2>1, OutputsTyped DEF Entries
<1> QED
  BY <1>1

LEMMA ReachesMore ==
  ASSUME NEW q, NEW at, NEW s \in Nat, NEW t \in Nat, s =< t, NEW i \in Nat, NEW j \in Nat,
         i =< j, NEW k \in Nat, Reaches(q, at, s, i, k)
  PROVE  Reaches(q, at, t, j, k)
BY DEF Reaches

LEMMA ReachesLess ==
  ASSUME NEW q \in Seq(Entries), NEW at, NEW s \in Nat, NEW i \in 0..Len(q),
         NEW k \in Nat, NEW l \in Nat, l =< k, Reaches(q, at, s, i, k)
  PROVE  Reaches(q, at, s, i, l)
<1>1. \A j \in 1..Len(q) : q[j].n \in Nat
  BY EntryNumbers
<1> QED
  BY <1>1, LenProperties DEF Reaches

LEMMA ReachesPrefix ==
  ASSUME NEW q, NEW r, NEW at, NEW s, NEW i \in Nat, \A j \in 1..i : r[j] = q[j], NEW k,
         Reaches(q, at, s, i, k)
  PROVE  Reaches(r, at, s, i, k)
BY DEF Reaches

\* A chain that grows stays seamless as far as it went.
LEMMA SeamlessPrefix ==
  ASSUME NEW q \in Seq(Entries), NEW r \in Seq(Entries), NEW at, NEW s \in Nat, NEW d \in Nat,
         Len(q) =< Len(r), \A j \in 1..Len(q) : r[j] = q[j], Seamless(q, at, s, d),
         q = <<>> => at # "picture"
  PROVE  /\ \A i \in 1..Len(q) :
              r[i].kind = "chunk" => r[i].n =< d /\ Reaches(r, at, s, i - 1, r[i].n)
         /\ \A k \in Nat : Reaches(q, at, s, Len(q), k) => Reaches(r, at, s, Len(q), k)
         /\ at = "picture" /\ r # <<>> /\ r[1].kind = "chunk" => r[1].n =< s
<1>1. Len(q) \in Nat /\ (q # <<>> => 1 \in 1..Len(q))
  BY LenProperties, EmptySeq
<1>2. ASSUME NEW i \in 1..Len(q), r[i].kind = "chunk"
      PROVE  r[i].n =< d /\ Reaches(r, at, s, i - 1, r[i].n)
  <2>1. r[i].n =< d /\ Reaches(q, at, s, i - 1, r[i].n)
    BY <1>2 DEF Seamless
  <2>2. i - 1 \in Nat /\ \A j \in 1..(i - 1) : r[j] = q[j]
    BY <1>1
  <2> QED
    BY <2>1, <2>2, ReachesPrefix
<1>3. \A k \in Nat : Reaches(q, at, s, Len(q), k) => Reaches(r, at, s, Len(q), k)
  BY <1>1, ReachesPrefix
<1> QED
  BY <1>1, <1>2, <1>3 DEF Seamless

LEMMA SeamlessAppend ==
  ASSUME NEW q \in Seq(Entries), NEW at, NEW s \in Nat, NEW d \in Nat, Seamless(q, at, s, d),
         q = <<>> => at # "picture", NEW e \in Entries, e.kind # "chunk"
  PROVE  /\ Seamless(Append(q, e), at, s, d)
         /\ \A k \in Nat : Reaches(q, at, s, Len(q), k)
                             => Reaches(Append(q, e), at, s, Len(Append(q, e)), k)
         /\ e.kind = "gap" =>
              \A k \in Nat : Reaches(Append(q, e), at, s, Len(Append(q, e)), k)
<1> DEFINE r == Append(q, e)
<1>1. /\ r \in Seq(Entries) /\ Len(r) = Len(q) + 1 /\ Len(q) \in Nat /\ r[Len(q) + 1] = e
      /\ \A j \in 1..Len(q) : r[j] = q[j]
  BY AppendProperties, LenProperties
<1>e. q # <<>> => Len(q) # 0
  BY EmptySeq
<1> HIDE DEF r
<1>2. /\ \A i \in 1..Len(q) :
           r[i].kind = "chunk" => r[i].n =< d /\ Reaches(r, at, s, i - 1, r[i].n)
      /\ \A k \in Nat : Reaches(q, at, s, Len(q), k) => Reaches(r, at, s, Len(q), k)
      /\ at = "picture" /\ r # <<>> /\ r[1].kind = "chunk" => r[1].n =< s
  <2>1. Len(q) =< Len(r)
    BY <1>1
  <2> QED
    BY <1>1, <2>1, SeamlessPrefix
<1>3. Seamless(r, at, s, d)
  BY <1>1, <1>2 DEF Seamless
<1>4. \A k \in Nat : Reaches(q, at, s, Len(q), k) => Reaches(r, at, s, Len(r), k)
  BY <1>1, <1>2, ReachesMore
<1>5. ASSUME e.kind = "gap", NEW k \in Nat PROVE Reaches(r, at, s, Len(r), k)
  BY <1>1, <1>e, <1>5 DEF Reaches
<1> QED
  BY <1>3, <1>4, <1>5 DEF r

LEMMA SeamlessChunks ==
  ASSUME NEW q \in Seq(Entries), NEW at, NEW s \in Nat, NEW d \in Nat, Seamless(q, at, s, d),
         q = <<>> => at # "picture", NEW ns \in Seq(Outputs), NEW b \in Nat,
         \A i \in 1..Len(ns) : ns[i] = b + i, b + Len(ns) =< d,
         Reaches(q, at, s, Len(q), b + 1)
  PROVE  LET r == q \o Chunks(ns)
         IN  Seamless(r, at, s, d) /\ Reaches(r, at, s, Len(r), b + Len(ns) + 1)
<1> DEFINE c == Chunks(ns)
           r == q \o c
<1>1. /\ c \in Seq(Entries) /\ Len(c) = Len(ns) /\ Len(ns) \in Nat /\ Len(q) \in Nat
      /\ \A i \in 1..Len(ns) : c[i].kind = "chunk" /\ c[i].n = b + i
  BY ChunksTyped, LenProperties
<1> HIDE DEF c
<1>2. /\ r \in Seq(Entries) /\ Len(r) = Len(q) + Len(ns)
      /\ \A i \in 1..Len(r) : r[i] = IF i =< Len(q) THEN q[i] ELSE c[i - Len(q)]
  <2>1. /\ r \in Seq(Entries) /\ Len(r) = Len(q) + Len(c)
        /\ \A i \in 1..(Len(q) + Len(c)) :
             r[i] = IF i =< Len(q) THEN q[i] ELSE c[i - Len(q)]
    <3>1. c \in Seq(Entries)
      BY <1>1
    <3> QED
      BY <3>1, ConcatProperties
  <2> QED
    BY <1>1, <2>1
<1> HIDE DEF r
<1>3. Len(q) =< Len(r) /\ \A j \in 1..Len(q) : r[j] = q[j]
  BY <1>1, <1>2
<1>4. /\ \A i \in 1..Len(q) :
           r[i].kind = "chunk" => r[i].n =< d /\ Reaches(r, at, s, i - 1, r[i].n)
      /\ \A k \in Nat : Reaches(q, at, s, Len(q), k) => Reaches(r, at, s, Len(q), k)
      /\ at = "picture" /\ r # <<>> /\ r[1].kind = "chunk" => r[1].n =< s
  BY <1>2, <1>3, SeamlessPrefix
<1>5. ASSUME NEW i \in 1..Len(ns)
      PROVE  r[Len(q) + i].kind = "chunk" /\ r[Len(q) + i].n = b + i
  <2>1. /\ Len(q) + i \in 1..Len(r) /\ ~(Len(q) + i =< Len(q))
        /\ (Len(q) + i) - Len(q) = i
    BY <1>1, <1>2
  <2>2. r[Len(q) + i] = c[i]
    BY <1>2, <2>1
  <2> QED
    BY <1>1, <2>2
<1>6. \A i \in 0..Len(ns) : Reaches(r, at, s, Len(q) + i, b + i + 1)
  <2>1. Reaches(r, at, s, Len(q) + 0, b + 0 + 1)
    BY <1>1, <1>4
  <2>2. ASSUME NEW i \in 1..Len(ns) PROVE Reaches(r, at, s, Len(q) + i, b + i + 1)
    <3>1. r[Len(q) + i].kind = "chunk" /\ r[Len(q) + i].n = b + i
      BY <1>5
    <3>2. Len(q) + i \in 1..(Len(q) + i) /\ b + i + 1 =< r[Len(q) + i].n + 1
      BY <1>1, <3>1
    <3> QED
      BY <3>1, <3>2 DEF Reaches
  <2>3. \A i \in 0..Len(ns) : i = 0 \/ i \in 1..Len(ns)
    BY <1>1
  <2> QED
    BY <2>1, <2>2, <2>3
<1>7. ASSUME NEW i \in 1..Len(ns)
      PROVE  r[Len(q) + i].n =< d /\ Reaches(r, at, s, Len(q) + i - 1, r[Len(q) + i].n)
  <2>1. Reaches(r, at, s, Len(q) + (i - 1), b + (i - 1) + 1)
    BY <1>1, <1>6
  <2>2. Len(q) + (i - 1) = Len(q) + i - 1 /\ b + (i - 1) + 1 = r[Len(q) + i].n
    BY <1>1, <1>5
  <2> QED
    BY <1>1, <1>5, <2>1, <2>2
<1>8. ASSUME NEW i \in 1..Len(r), r[i].kind = "chunk"
      PROVE  r[i].n =< d /\ Reaches(r, at, s, i - 1, r[i].n)
  <2>1. CASE i =< Len(q)
    BY <1>1, <1>2, <1>4, <1>8, <2>1
  <2>2. CASE ~(i =< Len(q))
    <3>1. i - Len(q) \in 1..Len(ns) /\ Len(q) + (i - Len(q)) = i
      BY <1>1, <1>2, <2>2
    <3> QED
      BY <1>7, <3>1
  <2> QED
    BY <2>1, <2>2
<1>9. Seamless(r, at, s, d)
  BY <1>4, <1>8 DEF Seamless
<1>10. Reaches(r, at, s, Len(r), b + Len(ns) + 1)
  BY <1>1, <1>2, <1>6
<1> QED
  BY <1>9, <1>10 DEF r, c

\* The first task is done: what it was to show is shown.
LEMMA SeamlessTail ==
  ASSUME NEW q \in Seq(Entries), q # <<>>, NEW at, NEW s \in Nat, NEW d \in Nat,
         Seamless(q, at, s, d), NEW t \in Nat, s =< t,
         q[1].kind = "chunk" => q[1].n =< t, q[1].kind \in {"seam", "gap"} => at = "picture"
  PROVE  /\ Seamless(Tail(q), "start", t, d)
         /\ \A k \in Nat : Reaches(q, at, s, Len(q), k)
                             => Reaches(Tail(q), "start", t, Len(Tail(q)), k)
<1> DEFINE r == Tail(q)
<1>1. /\ r \in Seq(Entries) /\ Len(q) \in Nat /\ Len(r) = Len(q) - 1 /\ Len(r) \in Nat
      /\ \A j \in 1..Len(r) : r[j] = q[j + 1]
  BY HeadTailProperties, LenProperties
<1>2. \A j \in 1..Len(q) : q[j].n \in Nat
  BY EntryNumbers
<1> HIDE DEF r
<1>3. ASSUME NEW i \in Nat, i =< Len(r), NEW k \in Nat, Reaches(q, at, s, i + 1, k)
      PROVE  Reaches(r, "start", t, i, k)
  <2>1. CASE k =< s + 1
    BY <2>1 DEF Reaches
  <2>2. ASSUME NEW j \in 1..(i + 1),
               \/ q[j].kind = "chunk" /\ k =< q[j].n + 1
               \/ q[j].kind \in {"seam", "gap"} /\ (j = 1 => at # "picture")
        PROVE  Reaches(r, "start", t, i, k)
    <3>1. CASE j = 1
      <4>1. q[1].kind = "chunk" /\ k =< q[1].n + 1 /\ q[1].n \in Nat
        BY <1>1, <1>2, <1>3, <2>2, <3>1
      <4> QED
        BY <4>1 DEF Reaches
    <3>2. CASE j # 1
      <4>1. j - 1 \in 1..i /\ j - 1 \in 1..Len(r) /\ r[j - 1] = q[j]
        BY <1>1, <1>3, <3>2
      <4> QED
        BY <2>2, <4>1 DEF Reaches
    <3> QED
      BY <3>1, <3>2
  <2> QED
    BY <1>3, <2>1, <2>2 DEF Reaches
<1>4. ASSUME NEW i \in 1..Len(r), r[i].kind = "chunk"
      PROVE  r[i].n =< d /\ Reaches(r, "start", t, i - 1, r[i].n)
  <2>0. i + 1 \in 1..Len(q) /\ q[i + 1] = r[i]
    BY <1>1
  <2>1. i + 1 \in 1..Len(q) /\ q[i + 1] = r[i] /\ r[i].n \in Nat
    BY <1>2, <2>0
  <2>2. q[i + 1].n =< d /\ Reaches(q, at, s, (i + 1) - 1, q[i + 1].n)
    BY <1>4, <2>1 DEF Seamless
  <2>3. i - 1 \in Nat /\ i - 1 =< Len(r) /\ (i + 1) - 1 = (i - 1) + 1
    BY <1>1
  <2> QED
    BY <1>3, <2>1, <2>2, <2>3
<1>5. ASSUME NEW k \in Nat, Reaches(q, at, s, Len(q), k)
      PROVE  Reaches(r, "start", t, Len(r), k)
  <2>1. Len(r) + 1 = Len(q) /\ Len(r) =< Len(r)
    BY <1>1
  <2>2. Reaches(q, at, s, Len(r) + 1, k)
    BY <1>5, <2>1
  <2> QED
    BY <1>1, <1>3, <2>1, <2>2
<1> QED
  BY <1>4, <1>5 DEF r, Seamless

\* A picture that was taken just now shows all that was delivered.
LEMMA SeamlessPicture ==
  ASSUME NEW q \in Seq(Entries), NEW at, NEW s \in Nat, NEW d \in Nat, Seamless(q, at, s, d),
         NEW t \in Nat, d =< t
  PROVE  /\ Seamless(q, "picture", t, d)
         /\ \A k \in Nat : k =< d + 1 => Reaches(q, "picture", t, Len(q), k)
<1>1. \A j \in 1..Len(q) : q[j].n \in Nat
  BY EntryNumbers
<1>2. q # <<>> => 1 \in 1..Len(q)
  BY LenProperties, EmptySeq
<1> QED
  BY <1>1, <1>2 DEF Seamless, Reaches

\* A step of a task that takes no picture, and output that is delivered.
LEMMA SeamlessStep ==
  ASSUME NEW q \in Seq(Entries), NEW at, NEW a, at = "picture" <=> a = "picture",
         NEW s \in Nat, NEW t \in Nat, s =< t, NEW d \in Nat, NEW e \in Nat, d =< e,
         Seamless(q, at, s, d)
  PROVE  /\ Seamless(q, a, t, e)
         /\ \A k \in Nat : Reaches(q, at, s, Len(q), k) => Reaches(q, a, t, Len(q), k)
<1>1. \A j \in 1..Len(q) : q[j].n \in Nat
  BY EntryNumbers
<1> QED
  BY <1>1, LenProperties DEF Seamless, Reaches

(***************************************************************************)
(* The other half: an open connection that has never fallen back.            *)
(***************************************************************************)
\* A connection that is alive was alive before, and these steps end it.
LEMMA StreamsBefore ==
  ASSUME ControlInv, ViewerNext, Streams'
  PROVE  /\ Streams /\ (~skipped' => ~skipped)
         /\ ~FallBack /\ ~Close /\ ~PumpStep /\ ~TaskFails
         /\ pump.at = "none" /\ mode = "stream" /\ ~fallbackStarted
         /\ Listening => feed # "fallback"
<1>0. ControlTypes /\ FallInv /\ PumpInv
  BY TypesSplit DEF ControlInv
<1>1. ~FallBack /\ ~Close
  BY DEF Streams, FallBack, Close
<1>2. ~TaskFails /\ ~PumpFails
  BY <1>1 DEF TaskFails, PumpFails
<1>3. isClosed' = isClosed \/ isClosed'
  BY <1>1 DEF ViewerNext, Connect, Resolve, ResolveFails, SubscribeReturns, ClientCloses, Hint,
     PaneOutput, PaneResized, SizeExpires, FeedDelivers, FeedFails, FeedStarts, TaskStep, SeamEnds, ChunkStarts,
     ChunkEnds, ResetStarts, ReconcileStarts, ResetCaptures, ResetEnds, TaskFails, ReconcileFires,
     PumpStep, PumpFires, PumpEnds, PumpFails, TaskKeeps
<1>4. fellBack' = fellBack \/ fellBack' = (fellBack \/ feed = "fallback") \/ fellBack'
  BY DEF ViewerNext, Connect, Resolve, ResolveFails, SubscribeReturns, ClientCloses, Hint,
     PaneOutput, PaneResized, SizeExpires, FeedDelivers, FeedFails, FeedStarts, TaskStep, SeamEnds, ChunkStarts,
     ChunkEnds, ResetStarts, ReconcileStarts, ResetCaptures, ResetEnds, TaskFails, ReconcileFires,
     PumpStep, PumpFires, PumpEnds, PumpFails, PumpKeeps, StayInMode, FallBack
<1>5. Streams
  BY <1>0, <1>3, <1>4 DEF Streams, ControlTypes
<1>6. pump.at = "none" /\ mode = "stream" /\ ~fallbackStarted /\ (Listening => feed # "fallback")
  BY <1>0, <1>5 DEF Streams, FallInv, PumpInv, ControlTypes
<1>7. ~PumpStep
  BY <1>2, <1>6 DEF PumpStep, PumpFires, PumpEnds
<1>8. skipped' = skipped \/ skipped' = (skipped \/ (~pictured /\ ring # <<>>))
  BY DEF ViewerNext, Connect, Resolve, ResolveFails, SubscribeReturns, ClientCloses, Hint, Resumes,
     PaneOutput, PaneResized, SizeExpires, FeedDelivers, FeedFails, FeedStarts, TaskStep, SeamEnds,
     ChunkStarts, ChunkEnds, ResetStarts, ReconcileStarts, ResetCaptures, ResetEnds, TaskFails,
     ReconcileFires, PumpStep, PumpFires, PumpEnds, PumpFails, TaskKeeps, PumpKeeps, client
<1>9. ~skipped' => ~skipped
  BY <1>0, <1>8 DEF ControlTypes
<1> QED
  BY <1>1, <1>2, <1>5, <1>6, <1>7, <1>9

LEMMA NotBoth == ~(FeedStarts /\ FeedFails)
BY DEF FeedStarts, FeedFails

\* The stream starts before anything was kept, and is told to fail when nobody
\* listens yet.
LEMMA StreamsFeed ==
  ASSUME ControlInv, ViewerNext, Streams', FeedStarts \/ FeedFails
  PROVE  /\ stage # "live" /\ UNCHANGED <<stage, pictured, buffered, ring, streamQueue, seen,
                                          reconcile, screen, output>>
         /\ FeedStarts => buffered = <<>> /\ ring = <<>> /\ delivered' = output
         /\ FeedFails => delivered' = delivered
<1>0. ControlTypes /\ StageInv /\ WaitInv
  BY TypesSplit DEF ControlInv
<1>1. Streams /\ ~FallBack /\ ~fallbackStarted /\ (Listening => feed # "fallback")
  BY StreamsBefore
<1>2. CASE FeedFails
  <2>1. ~Listening
    BY <1>2 DEF FeedFails, FallBack, Streams
  <2> QED
    BY <1>0, <1>1, <1>2, <2>1, NotBoth DEF FeedFails, StageInv, Streams, StayInMode, shown
<1>3. CASE FeedStarts
  <2>1. NoSeam
    BY <1>1, <1>3 DEF FeedStarts
  <2>2. stage # "live"
    BY <1>0, <1>1, <1>3 DEF FeedStarts, StageInv, Streams, ControlTypes
  <2>3. buffered = <<>> /\ ring = <<>>
    BY <1>0, <1>1, <1>3, <2>2 DEF FeedStarts, StageInv, Streams, ControlTypes, WaitInv, Listening
  <2> QED
    BY <1>3, <2>1, <2>2, <2>3, NotBoth DEF FeedStarts, NoSeam, shown
<1> QED
  BY <1>2, <1>3

\* onChunk for what was kept in the ring, or a gap, when the client is seen again.
LEMMA StreamsHint ==
  ASSUME ControlInv, NEW v \in BOOLEAN, Hint(v), Streams'
  PROVE  /\ UNCHANGED <<stage, pictured, seen, reconcile, screen, output, delivered>>
         /\ \/ UNCHANGED <<buffered, ring, streamQueue>>
            \/ ring' = <<>> /\ OnChunks(ring)
            \/ ring' = <<>> /\ pictured /\ OnGap
            \/ /\ ring # <<>> /\ ring' = <<>> /\ ~pictured /\ skipped'
               /\ UNCHANGED <<buffered, streamQueue>>
<1>0. ControlTypes /\ StageInv /\ WaitInv
  BY TypesSplit DEF ControlInv
<1>1. Streams /\ (Listening => feed # "fallback")
  BY StreamsBefore DEF ViewerNext
<1>2. UNCHANGED <<stage, pictured, seen, reconcile, screen, output, delivered>>
  BY DEF Hint, world, shown
<1>3. CASE stage # "live" \/ ~v
  BY <1>2, <1>3 DEF Hint
<1>4. CASE stage = "live" /\ v
  <2>1. feed # "fallback"
    BY <1>0, <1>1, <1>4 DEF StageInv, Streams
  <2> QED
    BY <1>0, <1>2, <1>4, <2>1 DEF Hint, Resumes, OnGap, ControlTypes
<1> QED
  BY <1>3, <1>4

LEMMA StreamsDelivers ==
  ASSUME ControlInv, FeedDelivers, Streams'
  PROVE  /\ UNCHANGED <<stage, pictured, seen, reconcile, screen, output>>
         /\ delivered' = delivered + 1 /\ delivered' \in Outputs
         /\ \/ handle = "on" /\ ring = <<>> /\ OnChunks(<<delivered'>>) /\ UNCHANGED ring
            \/ handle = "paused" /\ ring' = Append(ring, delivered')
               /\ UNCHANGED <<buffered, streamQueue>>
            \/ stage # "live" /\ ring = <<>> /\ buffered = <<>>
               /\ UNCHANGED <<ring, buffered, streamQueue>>
<1>0. ControlTypes /\ CountTypes /\ StageInv /\ WaitInv
  BY TypesSplit DEF ControlInv
<1>1. Streams
  BY StreamsBefore DEF ViewerNext
<1>2. delivered' = delivered + 1 /\ delivered' \in Outputs
  BY <1>0, ViewerAssumption DEF FeedDelivers, CountTypes, Outputs
<1>3. UNCHANGED <<stage, pictured, seen, reconcile, screen, output>>
  BY DEF FeedDelivers, shown
<1>4. CASE handle = "on"
  BY <1>0, <1>2, <1>3, <1>4 DEF FeedDelivers, WaitInv
<1>5. CASE handle = "paused"
  BY <1>2, <1>3, <1>5 DEF FeedDelivers
<1>6. CASE handle \notin {"on", "paused"}
  <2>1. UNCHANGED <<ring, buffered, streamQueue>>
    BY <1>6 DEF FeedDelivers
  <2>2. stage # "live" /\ ring = <<>> /\ buffered = <<>>
    BY <1>0, <1>1, <1>6 DEF StageInv, WaitInv, Streams, Listening, ControlTypes
  <2> QED
    BY <1>2, <1>3, <2>1, <2>2
<1> QED
  BY <1>4, <1>5, <1>6

\* The other steps of a connection that stays alive.
LEMMA StreamsElse ==
  ASSUME ControlInv, ViewerNext, Streams'
  PROVE  \/ \E v \in BOOLEAN : Hint(v)
         \/ FeedDelivers \/ FeedStarts \/ FeedFails
         \/ SeamEnds \/ ReconcileFires
         \/ /\ SubscribeReturns /\ SeamStarts /\ stage' = "live" /\ ~pictured'
            /\ UNCHANGED <<buffered, ring, delivered, reconcile, screen, output>>
         \/ /\ Connect \/ Resolve \/ PaneOutput \/ PaneResized \/ SizeExpires
            /\ UNCHANGED <<buffered, ring, delivered, pictured, streamQueue, seen, reconcile>>
            /\ screen'.n = screen.n /\ screen'.hole = screen.hole
            /\ output' \in {output, output + 1} /\ (stage' = "live" => stage = "live")
         \/ /\ ChunkStarts \/ ChunkEnds \/ ResetStarts \/ ReconcileStarts \/ ResetCaptures \/ ResetEnds
            /\ UNCHANGED <<buffered, ring, delivered, pictured, output, stage>>
<1>0. ControlTypes /\ PictureTypes /\ StageInv /\ SeamInv
  BY TypesSplit DEF ControlInv
<1>1. /\ Streams /\ ~FallBack /\ ~Close /\ ~PumpStep /\ ~TaskFails /\ mode = "stream"
  BY StreamsBefore
<1>2. CASE SubscribeReturns
  <2>1. ~pictured /\ ~seamStarted
    BY <1>0, <1>2 DEF SubscribeReturns, StageInv, SeamInv, TheSeam
  <2>2. SeamStarts
    BY <1>1, <1>2, <2>1 DEF SubscribeReturns, Streams
  <2> QED
    BY <1>2, <2>1, <2>2 DEF SubscribeReturns, world, shown
<1>3. CASE Connect \/ Resolve
  BY <1>3 DEF Connect, Resolve, Resting, world, shown
<1>4. CASE PaneOutput \/ PaneResized \/ SizeExpires
  BY <1>4 DEF PaneOutput, PaneResized, SizeExpires, world, shown
<1>5. ~ResolveFails /\ ~ClientCloses
  BY <1>1 DEF ResolveFails, ClientCloses, Streams
<1>6. CASE ChunkStarts \/ ChunkEnds \/ ResetStarts \/ ReconcileStarts \/ ResetCaptures \/ ResetEnds
  BY <1>6 DEF ChunkStarts, ChunkEnds, ResetStarts, ReconcileStarts, ResetCaptures, ResetEnds,
     TaskKeeps, world
<1> QED
  BY <1>1, <1>2, <1>3, <1>4, <1>5, <1>6 DEF ViewerNext, TaskStep

LEMMA InOrderKept ==
  ASSUME ControlInv, InOrder, ViewerNext, Alive'
  PROVE  InOrder'
<1>0. /\ buffered \in Seq(Outputs) /\ ring \in Seq(Outputs) /\ delivered \in Nat /\ WaitInv
      /\ output \in Nat
  <2>1. QueueTypes /\ CountTypes /\ WaitInv
    BY TypesSplit DEF ControlInv
  <2> QED
    BY <2>1, OutputsTyped DEF QueueTypes, CountTypes
<1>l. /\ Len(buffered) \in Nat /\ Len(ring) \in Nat /\ Len(<<>>) = 0
  BY <1>0, LenProperties
<1>a. Streams' /\ ~skipped'
  BY DEF Alive
<1>1. CASE UNCHANGED <<buffered, ring, delivered>>
  BY <1>1 DEF InOrder, KeptBack
<1>2. ASSUME UNCHANGED delivered, buffered' = <<>>, ring' \in {ring, <<>>}
      PROVE  InOrder'
  <2>1. KeptBack' = Len(ring') /\ Len(ring') \in Nat /\ Len(ring') =< delivered' /\ Len(buffered') = 0
    BY <1>0, <1>l, <1>2 DEF InOrder, KeptBack
  <2>2. \A i \in 1..Len(ring') : ring'[i] = delivered' - Len(ring') + i
    BY <1>l, <1>2 DEF InOrder
  <2> QED
    BY <2>1, <2>2 DEF InOrder
<1>3. ASSUME NEW v \in BOOLEAN, Hint(v) PROVE InOrder'
  <2>1. /\ UNCHANGED <<pictured, delivered>>
        /\ \/ UNCHANGED <<buffered, ring, streamQueue>>
           \/ ring' = <<>> /\ OnChunks(ring)
           \/ ring' = <<>> /\ pictured /\ OnGap
    BY <1>3, <1>a, StreamsHint
  <2>2. CASE UNCHANGED <<buffered, ring>>
    BY <1>1, <2>1, <2>2
  <2>3. CASE pictured /\ ring' = <<>> /\ buffered' = buffered
    BY <1>0, <1>2, <2>1, <2>3 DEF WaitInv
  <2>4. CASE ring' = <<>> /\ buffered' = buffered \o ring
    <3>1. /\ Len(buffered') = Len(buffered) + Len(ring)
          /\ \A i \in 1..(Len(buffered) + Len(ring)) :
               buffered'[i] = IF i =< Len(buffered) THEN buffered[i] ELSE ring[i - Len(buffered)]
      BY <1>0, <2>4, ConcatProperties
    <3>2. KeptBack' = KeptBack /\ KeptBack = Len(buffered) + Len(ring) /\ Len(ring') = 0
      BY <1>l, <2>4, <3>1 DEF KeptBack
    <3>3. ASSUME NEW i \in 1..Len(buffered')
          PROVE  buffered'[i] = delivered' - KeptBack' + i
      <4>1. CASE i =< Len(buffered)
        BY <1>l, <2>1, <3>1, <3>2, <4>1 DEF InOrder
      <4>2. CASE ~(i =< Len(buffered))
        <5>1. i - Len(buffered) \in 1..Len(ring)
          BY <1>l, <3>1, <4>2
        <5>2. ring[i - Len(buffered)] = delivered - Len(ring) + (i - Len(buffered))
          BY <5>1 DEF InOrder
        <5> QED
          BY <1>0, <1>l, <2>1, <3>1, <3>2, <4>2, <5>2
      <4> QED
        BY <4>1, <4>2
    <3> QED
      BY <1>0, <1>l, <2>1, <3>2, <3>3 DEF InOrder
  <2> QED
    BY <2>1, <2>2, <2>3, <2>4 DEF OnChunks, OnGap
<1>4. CASE FeedDelivers
  <2>1. /\ delivered' = delivered + 1 /\ delivered' \in Outputs /\ pictured' = pictured
        /\ \/ handle = "on" /\ ring = <<>> /\ OnChunks(<<delivered'>>) /\ UNCHANGED ring
           \/ ring' = Append(ring, delivered') /\ buffered' = buffered
           \/ ring = <<>> /\ buffered = <<>> /\ UNCHANGED <<ring, buffered>>
    BY <1>4, <1>a, StreamsDelivers
  <2>2. CASE buffered = <<>> /\ ring = <<>> /\ UNCHANGED <<ring, buffered>>
    BY <1>0, <1>l, <2>1, <2>2 DEF InOrder, KeptBack
  <2>3. CASE ring' = Append(ring, delivered') /\ buffered' = buffered
    <3>1. /\ Len(ring') = Len(ring) + 1 /\ ring'[Len(ring) + 1] = delivered'
          /\ \A i \in 1..Len(ring) : ring'[i] = ring[i]
      BY <1>0, <2>1, <2>3, AppendProperties
    <3>2. KeptBack' = KeptBack + 1 /\ KeptBack \in Nat /\ KeptBack =< delivered
      BY <1>l, <2>3, <3>1 DEF KeptBack, InOrder
    <3>3. \A i \in 1..Len(buffered) : buffered[i] = delivered' - KeptBack' + i
      BY <1>0, <1>l, <2>1, <3>2 DEF InOrder
    <3>4. \A i \in 1..Len(ring') : ring'[i] = delivered' - Len(ring') + i
      BY <1>0, <1>l, <2>1, <3>1 DEF InOrder
    <3> QED
      BY <1>0, <2>1, <2>3, <3>2, <3>3, <3>4 DEF InOrder
  <2>4. CASE ring = <<>> /\ UNCHANGED ring /\ buffered' = buffered \o <<delivered'>>
    <3>1. /\ Len(buffered') = Len(buffered) + 1 /\ buffered'[Len(buffered) + 1] = delivered'
          /\ \A i \in 1..Len(buffered) : buffered'[i] = buffered[i]
      <4>1. buffered \o <<delivered'>> = Append(buffered, delivered')
        BY <1>0, <2>1, AppendIsConcat
      <4> QED
        BY <1>0, <2>1, <2>4, <4>1, AppendProperties
    <3>2. KeptBack' = KeptBack + 1 /\ KeptBack = Len(buffered) /\ KeptBack =< delivered
      BY <1>l, <2>4, <3>1 DEF KeptBack, InOrder
    <3>3. ASSUME NEW i \in 1..Len(buffered')
          PROVE  buffered'[i] = delivered' - KeptBack' + i
      <4>1. delivered' - KeptBack' = delivered - KeptBack
        BY <1>0, <1>l, <2>1, <3>2
      <4>2. CASE i \in 1..Len(buffered)
        <5>1. buffered[i] = delivered - KeptBack + i
          BY <4>2 DEF InOrder
        <5> QED
          BY <3>1, <4>1, <4>2, <5>1
      <4>3. CASE i = Len(buffered) + 1
        BY <1>0, <1>l, <2>1, <3>1, <3>2, <4>1, <4>3
      <4>4. i \in 1..Len(buffered) \/ i = Len(buffered) + 1
        BY <1>l, <3>1
      <4> QED
        BY <4>2, <4>3, <4>4
    <3> QED
      BY <1>0, <1>l, <2>1, <2>4, <3>2, <3>3 DEF InOrder
  <2>5. CASE ring = <<>> /\ UNCHANGED ring /\ pictured /\ buffered' = buffered
    BY <1>0, <2>2, <2>5 DEF WaitInv
  <2> QED
    BY <2>1, <2>2, <2>3, <2>4, <2>5 DEF OnChunks
<1>5. CASE FeedStarts \/ FeedFails
  <2>1. /\ UNCHANGED <<buffered, ring>> /\ (FeedFails => UNCHANGED delivered)
        /\ FeedStarts => buffered = <<>> /\ ring = <<>> /\ delivered' = output
    BY <1>5, <1>a, StreamsFeed
  <2> QED
    BY <1>0, <1>1, <1>5, <1>l, <2>1 DEF InOrder, KeptBack
<1>6. CASE SeamEnds
  BY <1>2, <1>6 DEF SeamEnds, TaskKeeps, world
<1>7. CASE ReconcileFires
  BY <1>1, <1>7 DEF ReconcileFires, TaskKeeps, world
<1> QED
  BY <1>1, <1>3, <1>4, <1>5, <1>6, <1>7, <1>a, StreamsElse

\* What a task that ends shows, and the picture that a task takes.
LEMMA QueueTaskKept ==
  ASSUME ControlInv, InOrder, QueueInv, Alive', ViewerNext, ~SeamEnds,
         ChunkStarts \/ ChunkEnds \/ ResetStarts \/ ReconcileStarts \/ ResetCaptures \/ ResetEnds
  PROVE  QueueInv'
<1>0. /\ ControlTypes /\ StageInv /\ SeamInv
      /\ streamQueue \in Seq(Entries) /\ seen.n \in Nat /\ screen.n \in Nat /\ delivered \in Nat
      /\ output \in Nat /\ delivered =< output
      /\ seen \in SeenSet /\ screen \in ScreenSet /\ seen.n \in Outputs
  <2>1. ControlTypes /\ QueueTypes /\ CountTypes /\ PictureTypes /\ StageInv /\ SeamInv
    BY TypesSplit DEF ControlInv
  <2>2. streamQueue \in Seq(Entries) /\ seen \in SeenSet /\ screen \in ScreenSet
    BY <2>1 DEF QueueTypes, PictureTypes
  <2>3. seen.n \in Outputs /\ screen.n \in Outputs
    BY <2>2 DEF SeenSet, ScreenSet
  <2>4. output \in Nat /\ delivered \in Nat /\ delivered =< output
    BY <2>1, OutputsTyped DEF CountTypes
  <2> QED
    BY <2>1, <2>2, <2>3, <2>4, OutputsTyped
<1>b. /\ UNCHANGED <<buffered, ring, delivered, output, stage>> /\ streamQueue # <<>>
      /\ stage = "live"
  BY <1>0 DEF ChunkStarts, ChunkEnds, ResetStarts, ReconcileStarts, ResetCaptures, ResetEnds,
     TaskKeeps, world, First, StageInv
<1>k. /\ KeptBack' = KeptBack /\ delivered' = delivered /\ delivered - KeptBack + 1 \in Nat
      /\ delivered - KeptBack + 1 =< delivered + 1
  BY <1>0, <1>b, TypesSplit, LenProperties DEF KeptBack, InOrder, ControlInv, QueueTypes
<1>s. /\ Showing \in Nat /\ screen.n =< Showing /\ Showing =< output
      /\ Seamless(streamQueue, seen.at, Showing, delivered)
      /\ Reaches(streamQueue, seen.at, Showing, Len(streamQueue), delivered - KeptBack + 1)
  BY <1>0, <1>b DEF QueueInv, Showing
<1>h. Head(streamQueue) = streamQueue[1] /\ 1 \in 1..Len(streamQueue)
  BY <1>0, <1>b, LenProperties, EmptySeq
<1>a. Streams /\ mode = "stream"
  BY StreamsBefore DEF Alive
\* The task is over, and the client shows what it was to show.
<1>1. ASSUME Over, screen'.n \in Nat, Showing =< screen'.n, screen'.n =< output,
             First("chunk") => streamQueue[1].n =< screen'.n,
             First("seam") \/ First("gap") => seen.at = "picture"
      PROVE  QueueInv'
  <2>1. Showing' = screen'.n /\ seen'.at = "start" /\ streamQueue' = Tail(streamQueue)
    BY <1>1 DEF Over, Unseen, Showing
  <2>2. /\ streamQueue[1].kind = "chunk" => streamQueue[1].n =< screen'.n
        /\ streamQueue[1].kind \in {"seam", "gap"} => seen.at = "picture"
    BY <1>1, <1>b, <1>h DEF First
  <2>3. /\ Seamless(Tail(streamQueue), "start", screen'.n, delivered)
        /\ Reaches(Tail(streamQueue), "start", screen'.n, Len(Tail(streamQueue)),
                   delivered - KeptBack + 1)
    <3> DEFINE t == screen'.n
               u == Showing
    <3>1. t \in Nat /\ u \in Nat /\ u =< t
      BY <1>1, <1>s
    <3>2. /\ Seamless(streamQueue, seen.at, u, delivered)
          /\ Reaches(streamQueue, seen.at, u, Len(streamQueue), delivered - KeptBack + 1)
          /\ streamQueue[1].kind = "chunk" => streamQueue[1].n =< t
      BY <1>s, <2>2
    <3> HIDE DEF t, u
    <3>3. /\ Seamless(Tail(streamQueue), "start", t, delivered)
          /\ Reaches(Tail(streamQueue), "start", t, Len(Tail(streamQueue)),
                     delivered - KeptBack + 1)
      BY <1>0, <1>b, <1>k, <2>2, <3>1, <3>2, SeamlessTail
    <3> QED
      BY <3>3 DEF t
  <2> QED
    BY <1>1, <1>b, <1>k, <2>1, <2>3 DEF QueueInv
\* A picture is taken.
<1>2. ASSUME Sees("picture"), UNCHANGED screen PROVE QueueInv'
  <2>1. Showing' = output /\ seen'.at = "picture" /\ streamQueue' = streamQueue
    BY <1>2 DEF Sees, Showing
  <2>2. /\ Seamless(streamQueue, "picture", output, delivered)
        /\ Reaches(streamQueue, "picture", output, Len(streamQueue), delivered - KeptBack + 1)
    BY <1>0, <1>k, <1>s, SeamlessPicture
  <2> QED
    BY <1>0, <1>2, <1>b, <1>k, <1>s, <2>1, <2>2 DEF QueueInv
\* A step that takes none.
<1>3. ASSUME NEW at \in {"drop", "sized"}, Sees(at), UNCHANGED screen, seen.at = "start"
      PROVE  QueueInv'
  <2>1. Showing' = screen.n /\ Showing = screen.n /\ seen'.at = at /\ streamQueue' = streamQueue
    BY <1>3 DEF Sees, Showing
  <2>2. /\ Seamless(streamQueue, at, screen.n, delivered)
        /\ Reaches(streamQueue, at, screen.n, Len(streamQueue), delivered - KeptBack + 1)
    <3>1. /\ seen.at # "picture" /\ at # "picture"
          /\ screen.n =< screen.n /\ delivered =< delivered
      BY <1>0, <1>3
    <3>2. /\ Seamless(streamQueue, seen.at, screen.n, delivered)
          /\ Reaches(streamQueue, seen.at, screen.n, Len(streamQueue), delivered - KeptBack + 1)
      BY <1>s, <2>1
    <3>3. /\ Seamless(streamQueue, at, screen.n, delivered)
          /\ \A k \in Nat : Reaches(streamQueue, seen.at, screen.n, Len(streamQueue), k)
                           => Reaches(streamQueue, at, screen.n, Len(streamQueue), k)
      <4> DEFINE n == screen.n
      <4>1. n \in Nat /\ n =< n /\ Seamless(streamQueue, seen.at, n, delivered)
        BY <1>0, <3>2
      <4> HIDE DEF n
      <4>2. /\ Seamless(streamQueue, at, n, delivered)
            /\ \A k \in Nat : Reaches(streamQueue, seen.at, n, Len(streamQueue), k)
                             => Reaches(streamQueue, at, n, Len(streamQueue), k)
        BY <1>0, <3>1, <4>1, SeamlessStep
      <4> QED
        BY <4>2 DEF n
    <3> QED
      BY <1>k, <3>2, <3>3
  <2> QED
    BY <1>0, <1>3, <1>b, <1>k, <1>s, <2>1, <2>2 DEF QueueInv
<1>4. CASE ChunkStarts
  <2>1. ~isClosed /\ mode = "stream" /\ seen.at = "start" /\ UNCHANGED screen
    BY <1>4, <1>a DEF ChunkStarts, shown, Streams
  <2>2. Sees("drop") \/ Sees("sized")
    BY <1>4, <2>1 DEF ChunkStarts
  <2> QED
    BY <1>3, <2>1, <2>2
<1>5. CASE ChunkEnds
  <2>1. Over /\ seen.at = "sized" /\ First("chunk") /\ screen' = Appended(streamQueue[1].n)
    BY <1>5, <1>a, <1>h DEF ChunkEnds, Shows, Streams
  <2>2. /\ streamQueue[1].n \in Nat /\ streamQueue[1].n =< delivered
        /\ streamQueue[1].n =< screen.n + 1 /\ Showing = screen.n
    <3>1. Showing = screen.n /\ streamQueue[1].kind = "chunk"
      BY <1>h, <2>1 DEF Showing, First
    <3>2. Reaches(streamQueue, seen.at, Showing, 0, streamQueue[1].n) /\ streamQueue[1].n =< delivered
      BY <1>h, <1>s, <3>1 DEF Seamless
    <3> QED
      BY <1>0, <1>h, <3>1, <3>2, EntryNumbers DEF Reaches
  <2>3. /\ screen'.n \in Nat /\ screen.n =< screen'.n /\ screen'.n =< output
        /\ streamQueue[1].n =< screen'.n
    BY <1>0, <1>s, <2>1, <2>2 DEF Appended, ScreenSet
  <2>4. ~First("seam") /\ ~First("gap")
    BY <2>1 DEF First
  <2> QED
    BY <1>1, <2>1, <2>2, <2>3, <2>4
<1>6. CASE ResetStarts
  <2>1. Sees("picture") /\ UNCHANGED screen
    BY <1>6, <1>a DEF ResetStarts, shown, Streams
  <2> QED
    BY <1>2, <2>1
<1>7. CASE ReconcileStarts
  <2>1. seen.at = "start" /\ UNCHANGED screen /\ ~First("seam") /\ ~First("gap") /\ ~First("chunk")
    BY <1>7 DEF ReconcileStarts, shown, First
  <2>2. CASE Over
    <3>1. screen' = screen /\ Showing = screen.n
      BY <2>1 DEF Showing
    <3> QED
      BY <1>0, <1>1, <1>s, <2>1, <2>2, <3>1
  <2>3. CASE Sees("drop")
    BY <1>3, <2>1, <2>3
  <2> QED
    BY <1>7, <2>2, <2>3 DEF ReconcileStarts
<1>8. CASE ResetCaptures
  BY <1>2, <1>8 DEF ResetCaptures, shown
<1>9. CASE ResetEnds
  <2>1. Over /\ seen.at = "picture" /\ screen' = Picture(seen.n)
    BY <1>9, <1>a DEF ResetEnds, Shows, Streams
  <2>2. screen'.n = seen.n /\ Showing = seen.n
    BY <2>1 DEF Picture, Showing
  <2>3. First("chunk") => streamQueue[1].n =< seen.n
    BY <1>b, <1>h, <1>s, <2>1, <2>2 DEF Seamless, First
  <2> QED
    BY <1>0, <1>1, <1>s, <2>1, <2>2, <2>3
<1> QED
  BY <1>4, <1>5, <1>6, <1>7, <1>8, <1>9

LEMMA QueueKept ==
  ASSUME ControlInv, InOrder, QueueInv, Alive', ViewerNext
  PROVE  QueueInv'
<1> DEFINE q == streamQueue
           at == seen.at
           u == Showing
           k == delivered - KeptBack + 1
<1>t. /\ ControlTypes /\ QueueTypes /\ CountTypes /\ PictureTypes /\ StageInv /\ SeamInv /\ WaitInv
      /\ Streams /\ mode = "stream"
  BY TypesSplit, StreamsBefore DEF ControlInv, Alive
<1>a. Streams' /\ ~skipped'
  BY DEF Alive
<1>0. /\ q \in Seq(Entries) /\ buffered \in Seq(Outputs) /\ ring \in Seq(Outputs)
      /\ seen \in SeenSet /\ screen \in ScreenSet
      /\ delivered \in Nat /\ output \in Nat /\ delivered =< output
  BY <1>t, OutputsTyped DEF QueueTypes, PictureTypes, CountTypes
<1>n. seen.n \in Nat /\ screen.n \in Nat /\ u \in Nat
  <2>1. seen.n \in Outputs /\ screen.n \in Outputs
    BY <1>0 DEF SeenSet, ScreenSet
  <2> QED
    BY <2>1, OutputsTyped DEF Showing
<1>l. /\ Len(buffered) \in Nat /\ Len(ring) \in Nat /\ Len(q) \in Nat /\ Len(<<>>) = 0
      /\ KeptBack = Len(buffered) + Len(ring) /\ KeptBack \in Nat /\ KeptBack =< delivered
      /\ k \in Nat /\ k =< delivered + 1
  BY <1>0, LenProperties DEF InOrder, KeptBack
<1>s. /\ screen.n =< u /\ u =< output /\ Seamless(q, at, u, delivered)
      /\ stage = "live" => Reaches(q, at, u, Len(q), k)
      /\ q = <<>> => at # "picture"
  BY <1>t DEF QueueInv, SeamInv, Unseen
<1>p. pictured => stage = "live" /\ buffered = <<>>
  BY <1>t DEF StageInv, WaitInv
\* The chain, the task and the picture stay what they are.
<1>1. ASSUME UNCHANGED <<streamQueue, seen>>, screen'.n = screen.n, output' \in Nat,
             output =< output', delivered' \in Nat, delivered =< delivered',
             stage' = "live" => stage = "live" /\ delivered' - KeptBack' + 1 = k
      PROVE  QueueInv'
  <2>1. Showing' = u
    BY <1>1 DEF Showing
  <2>2. Seamless(q, at, u, delivered')
    <3>1. u =< u /\ (at = "picture" <=> at = "picture")
      BY <1>n
    <3> HIDE DEF q, at, u, k
    <3> QED
      BY <1>0, <1>1, <1>n, <1>s, <3>1, SeamlessStep
  <2> QED
    BY <1>0, <1>1, <1>n, <1>s, <2>1, <2>2 DEF QueueInv
\* Something is put at the end of the chain.
<1>2. ASSUME UNCHANGED <<stage, seen, screen, output>>, delivered' \in Nat,
             Seamless(streamQueue', at, u, delivered'),
             Reaches(streamQueue', at, u, Len(streamQueue'), delivered' - KeptBack' + 1)
      PROVE  QueueInv'
  <2>1. Showing' = u /\ seen'.at = at
    BY <1>2 DEF Showing
  <2> QED
    BY <1>2, <1>s, <2>1 DEF QueueInv
<1>3. ASSUME NEW v \in BOOLEAN, Hint(v) PROVE QueueInv'
  <2>1. /\ UNCHANGED <<stage, pictured, seen, reconcile, screen, output, delivered>>
        /\ \/ UNCHANGED <<buffered, ring, streamQueue>>
           \/ ring' = <<>> /\ OnChunks(ring)
           \/ ring' = <<>> /\ pictured /\ OnGap
    BY <1>3, <1>a, StreamsHint
  <2>2. CASE UNCHANGED <<buffered, ring, streamQueue>>
    BY <1>0, <1>1, <1>l, <2>1, <2>2 DEF KeptBack
  <2>3. CASE ring' = <<>> /\ pictured /\ OnChunks(ring)
    <3>1. streamQueue' = q \o Chunks(ring) /\ buffered = <<>> /\ buffered' = <<>> /\ stage = "live"
      BY <1>p, <2>3 DEF OnChunks
    <3>2. KeptBack' = 0 /\ KeptBack = Len(ring) /\ k = (delivered - Len(ring)) + 1
          /\ delivered - Len(ring) \in Nat /\ (delivered - Len(ring)) + Len(ring) = delivered
      BY <1>0, <1>l, <2>3, <3>1 DEF KeptBack
    <3>3. /\ Seamless(q \o Chunks(ring), at, u, delivered)
          /\ Reaches(q \o Chunks(ring), at, u, Len(q \o Chunks(ring)), delivered + 1)
      <4> DEFINE b == delivered - Len(ring)
      <4>1. /\ b \in Nat /\ b + Len(ring) =< delivered /\ b + Len(ring) + 1 = delivered + 1
            /\ \A i \in 1..Len(ring) : ring[i] = b + i
            /\ Reaches(q, at, u, Len(q), b + 1)
        BY <1>0, <1>l, <1>s, <3>1, <3>2 DEF InOrder
      <4> HIDE DEF b, q, at, u, k
      <4>2. /\ Seamless(q \o Chunks(ring), at, u, delivered)
            /\ Reaches(q \o Chunks(ring), at, u, Len(q \o Chunks(ring)), b + Len(ring) + 1)
        <5>1. /\ q \in Seq(Entries) /\ u \in Nat /\ delivered \in Nat
              /\ Seamless(q, at, u, delivered) /\ (q = <<>> => at # "picture")
              /\ ring \in Seq(Outputs)
          BY <1>0, <1>n, <1>s
        <5> QED
          BY <4>1, <5>1, SeamlessChunks
      <4> QED
        BY <4>1, <4>2
    <3> QED
      BY <1>0, <1>2, <2>1, <3>1, <3>2, <3>3
  <2>4. CASE ring' = <<>> /\ ~pictured /\ OnChunks(ring)
    <3>1. UNCHANGED streamQueue /\ buffered' = buffered \o ring
      BY <2>4 DEF OnChunks
    <3>2. Len(buffered') = Len(buffered) + Len(ring)
      BY <1>0, <3>1, ConcatProperties
    <3>3. KeptBack' = KeptBack
      BY <1>l, <2>4, <3>2 DEF KeptBack
    <3> QED
      BY <1>0, <1>1, <1>l, <2>1, <3>1, <3>3
  <2>5. CASE ring' = <<>> /\ pictured /\ OnGap
    <3> DEFINE e == [kind |-> "gap", n |-> 0]
    <3>1. streamQueue' = Append(q, e) /\ buffered' = <<>>
      BY <1>p, <2>5 DEF OnGap
    <3>2. e \in Entries /\ e.kind = "gap"
      BY OutputsTyped DEF Entries
    <3>3. KeptBack' = 0
      BY <1>l, <2>5, <3>1 DEF KeptBack
    <3>4. /\ Seamless(Append(q, e), at, u, delivered)
          /\ \A l \in Nat : Reaches(Append(q, e), at, u, Len(Append(q, e)), l)
      <4> HIDE DEF e, q, at, u, k
      <4>1. e.kind # "chunk"
        BY <3>2
      <4> QED
        BY <1>0, <1>n, <1>s, <3>2, <4>1, SeamlessAppend
    <3>5. delivered' - KeptBack' + 1 \in Nat
      BY <1>0, <2>1, <3>3
    <3> HIDE DEF e
    <3> QED
      BY <1>0, <1>2, <2>1, <3>1, <3>4, <3>5
  <2> QED
    BY <2>1, <2>2, <2>3, <2>4, <2>5
<1>4. CASE FeedDelivers
  <2>1. /\ UNCHANGED <<stage, pictured, seen, reconcile, screen, output>>
        /\ delivered' = delivered + 1 /\ delivered' \in Outputs
        /\ \/ ring = <<>> /\ OnChunks(<<delivered'>>) /\ UNCHANGED ring
           \/ ring' = Append(ring, delivered') /\ UNCHANGED <<buffered, streamQueue>>
           \/ stage # "live" /\ UNCHANGED <<ring, buffered, streamQueue>>
    BY <1>4, <1>a, StreamsDelivers
  <2>2. CASE stage # "live" /\ UNCHANGED <<ring, buffered, streamQueue>>
    BY <1>0, <1>1, <2>1, <2>2
  <2>3. CASE ring' = Append(ring, delivered') /\ UNCHANGED <<buffered, streamQueue>>
    <3>1. Len(ring') = Len(ring) + 1
      BY <1>0, <2>1, <2>3, AppendProperties
    <3>2. delivered' - KeptBack' + 1 = k
      BY <1>0, <1>l, <2>1, <2>3, <3>1 DEF KeptBack
    <3> QED
      BY <1>0, <1>1, <2>1, <2>3, <3>2
  <2>4. CASE ring = <<>> /\ UNCHANGED ring /\ ~pictured /\ OnChunks(<<delivered'>>)
    <3>1. UNCHANGED streamQueue /\ buffered' = buffered \o <<delivered'>>
      BY <2>4 DEF OnChunks
    <3>2. Len(buffered') = Len(buffered) + 1
      BY <1>0, <2>1, <3>1, AppendIsConcat, AppendProperties
    <3>3. delivered' - KeptBack' + 1 = k
      BY <1>0, <1>l, <2>1, <2>4, <3>2 DEF KeptBack
    <3> QED
      BY <1>0, <1>1, <2>1, <3>1, <3>3
  <2>5. CASE ring = <<>> /\ UNCHANGED ring /\ pictured /\ OnChunks(<<delivered'>>)
    <3> DEFINE ns == <<delivered'>>
    <3>1. /\ streamQueue' = q \o Chunks(ns) /\ buffered = <<>> /\ buffered' = <<>>
          /\ stage = "live"
      BY <1>p, <2>5 DEF OnChunks
    <3>2. KeptBack' = 0 /\ KeptBack = 0 /\ k = delivered + 1
      BY <1>0, <1>l, <2>5, <3>1 DEF KeptBack
    <3>3. /\ ns \in Seq(Outputs) /\ Len(ns) = 1 /\ \A i \in 1..Len(ns) : ns[i] = delivered + i
          /\ delivered + Len(ns) =< delivered' /\ delivered' \in Nat /\ delivered =< delivered'
          /\ delivered + Len(ns) + 1 = delivered' - KeptBack' + 1
      BY <1>0, <2>1, <3>2, OutputsTyped
    <3>4. /\ u =< u /\ (at = "picture" <=> at = "picture") /\ Reaches(q, at, u, Len(q), delivered + 1)
      BY <1>n, <1>s, <3>1, <3>2
    <3> HIDE DEF ns, q, at, u, k
    <3>5. Seamless(q, at, u, delivered')
      BY <1>0, <1>n, <1>s, <3>3, <3>4, SeamlessStep
    <3>6. /\ Seamless(q \o Chunks(ns), at, u, delivered')
          /\ Reaches(q \o Chunks(ns), at, u, Len(q \o Chunks(ns)), delivered + Len(ns) + 1)
      BY <1>0, <1>n, <1>s, <3>3, <3>4, <3>5, SeamlessChunks
    <3> QED
      BY <1>2, <2>1, <3>1, <3>3, <3>6
  <2> QED
    BY <2>1, <2>2, <2>3, <2>4, <2>5
<1>5. CASE FeedStarts \/ FeedFails
  <2>1. /\ stage # "live" /\ UNCHANGED <<stage, streamQueue, seen, screen, output>>
        /\ delivered' = output \/ delivered' = delivered
    BY <1>5, <1>a, StreamsFeed
  <2> QED
    BY <1>0, <1>1, <2>1
<1>6. CASE SeamEnds
  <2>1. /\ q = TheSeam /\ at = "picture" /\ stage = "live"
    BY <1>6, <1>t, SeamInvSays, TheSeamAlone DEF SeamEnds, StageInv
  <2>2. /\ screen' = Picture(seen.n) /\ streamQueue' = Tail(q) \o Chunks(buffered)
        /\ seen' = Unseen /\ buffered' = <<>> /\ UNCHANGED <<ring, delivered, output, stage>>
    BY <1>6, <1>t DEF SeamEnds, Shows, TaskKeeps, world, Streams
  <2>3. /\ screen'.n = u /\ Showing' = u /\ seen'.at = "start" /\ u = seen.n
    BY <2>1, <2>2 DEF Picture, Unseen, Showing
  <2>4. /\ Tail(q) \in Seq(Entries) /\ q # <<>> /\ q[1].kind = "seam" /\ u =< u
        /\ Tail(q) = <<>>
    BY <1>n, <2>1, TheSeamAlone, EmptySeq
  <2> DEFINE b == delivered - KeptBack
             r == Tail(q)
  <2>5. /\ b \in Nat /\ b + 1 = k /\ b + Len(buffered) =< delivered
        /\ \A i \in 1..Len(buffered) : buffered[i] = b + i
    BY <1>0, <1>l DEF InOrder
  <2>6. b + Len(buffered) + 1 = delivered' - KeptBack' + 1
    BY <1>0, <1>l, <2>2 DEF KeptBack
  <2>7. /\ Seamless(q, at, u, delivered) /\ Reaches(q, at, u, Len(q), b + 1) /\ b + 1 \in Nat
        /\ q[1].kind = "chunk" => q[1].n =< u
        /\ q[1].kind \in {"seam", "gap"} => at = "picture"
    BY <1>l, <1>s, <2>1, <2>4, <2>5
  <2> HIDE DEF q, at, u, k, b
  <2>8. Seamless(r, "start", u, delivered) /\ Reaches(r, "start", u, Len(r), b + 1)
    BY <1>0, <1>n, <2>4, <2>7, SeamlessTail
  <2> HIDE DEF r
  <2>9. /\ Seamless(r \o Chunks(buffered), "start", u, delivered)
        /\ Reaches(r \o Chunks(buffered), "start", u, Len(r \o Chunks(buffered)),
                   b + Len(buffered) + 1)
    <3>1. r \in Seq(Entries) /\ "start" # "picture"
      BY <2>4 DEF r
    <3> QED
      BY <1>0, <1>n, <2>5, <2>8, <3>1, SeamlessChunks
  <2>10. /\ streamQueue' = r \o Chunks(buffered) /\ u =< u /\ u =< output
         /\ delivered' = delivered /\ output' = output
    BY <1>s, <2>2, <2>4 DEF r
  <2>11. /\ Seamless(streamQueue', seen'.at, Showing', delivered')
         /\ Reaches(streamQueue', seen'.at, Showing', Len(streamQueue'), delivered' - KeptBack' + 1)
    BY <2>3, <2>6, <2>9, <2>10
  <2>12. screen'.n =< Showing' /\ Showing' =< output'
    BY <2>3, <2>10
  <2> QED
    BY <2>11, <2>12 DEF QueueInv
<1>7. CASE ReconcileFires
  <2> DEFINE e == [kind |-> "reconcile", n |-> 0]
  <2>1. /\ streamQueue' = Append(q, e) /\ pictured
        /\ UNCHANGED <<stage, seen, screen, output, delivered, buffered, ring>>
    BY <1>7, <1>t DEF ReconcileFires, TaskKeeps, world, shown, WaitInv
  <2>2. e \in Entries /\ e.kind # "chunk"
    BY OutputsTyped DEF Entries
  <2>3. Reaches(q, at, u, Len(q), k) /\ delivered' - KeptBack' + 1 = k
    BY <1>p, <1>s, <2>1 DEF KeptBack
  <2>4. /\ Seamless(Append(q, e), at, u, delivered)
        /\ Reaches(Append(q, e), at, u, Len(Append(q, e)), k)
    <3> HIDE DEF e, q, at, u, k
    <3> QED
      BY <1>0, <1>l, <1>n, <1>s, <2>2, <2>3, SeamlessAppend
  <2> HIDE DEF e
  <2> QED
    BY <1>0, <1>2, <2>1, <2>3, <2>4
<1>8. CASE /\ SubscribeReturns /\ SeamStarts /\ stage' = "live" /\ ~pictured'
           /\ UNCHANGED <<buffered, ring, delivered, reconcile, screen, output>>
  <2>1. stage # "live" /\ seen = Unseen
    BY <1>8, <1>t DEF SubscribeReturns, StageInv, SeamInv
  <2>2. /\ streamQueue' = TheSeam /\ seen'.at = "drop" /\ Showing' = screen.n
    BY <1>8 DEF SeamStarts, TheSeam, Showing
  <2>3. /\ TheSeam[1].kind = "seam" /\ Len(TheSeam) = 1
    BY TheSeamAlone
  <2>4. /\ Seamless(TheSeam, "drop", screen.n, delivered)
        /\ \A l \in Nat : Reaches(TheSeam, "drop", screen.n, 1, l)
    BY <2>3 DEF Seamless, Reaches
  <2>5. delivered' - KeptBack' + 1 = k
    BY <1>8 DEF KeptBack
  <2> HIDE DEF q, at, u, k
  <2>6. /\ Seamless(streamQueue', seen'.at, Showing', delivered')
        /\ Reaches(streamQueue', seen'.at, Showing', Len(streamQueue'), delivered' - KeptBack' + 1)
    <3>1. /\ Seamless(TheSeam, "drop", screen.n, delivered)
          /\ Reaches(TheSeam, "drop", screen.n, Len(TheSeam), k) /\ delivered' = delivered
      BY <1>8, <1>l, <2>3, <2>4
    <3> QED
      BY <2>2, <2>5, <3>1
  <2>7. screen'.n =< Showing' /\ Showing' =< output'
    BY <1>8, <1>n, <1>s, <1>0, <2>2
  <2> QED
    BY <2>6, <2>7 DEF QueueInv
<1>9. CASE /\ UNCHANGED <<buffered, ring, delivered, streamQueue, seen>>
           /\ screen'.n = screen.n
           /\ output' \in {output, output + 1} /\ (stage' = "live" => stage = "live")
  BY <1>0, <1>1, <1>9 DEF KeptBack
<1>10. CASE ChunkStarts \/ ChunkEnds \/ ResetStarts \/ ReconcileStarts \/ ResetCaptures \/ ResetEnds
  <2>1. CASE SeamEnds
    BY <1>6, <2>1
  <2>2. CASE ~SeamEnds
    BY <1>10, <2>2, QueueTaskKept
  <2> QED
    BY <2>1, <2>2
<1> QED
  BY <1>3, <1>4, <1>5, <1>6, <1>7, <1>8, <1>9, <1>10, <1>a, StreamsElse

CheckQueued(q) == \E i \in 1..Len(q) : q[i].kind = "reconcile"

LEMMA CheckQueuedStays ==
  ASSUME NEW q \in Seq(Entries)
  PROVE  /\ CheckQueued(q) => /\ \A e \in Entries : CheckQueued(Append(q, e))
                              /\ \A ns \in Seq(Outputs) : CheckQueued(q \o Chunks(ns))
                              /\ q[1].kind # "reconcile" => CheckQueued(Tail(q))
         /\ \A e \in Entries : e.kind = "reconcile" => CheckQueued(Append(q, e))
<1>0. Len(q) \in Nat
  BY LenProperties
<1>1. ASSUME NEW e \in Entries, CheckQueued(q) \/ e.kind = "reconcile"
      PROVE  CheckQueued(Append(q, e))
  <2>1. /\ Len(Append(q, e)) = Len(q) + 1 /\ Append(q, e)[Len(q) + 1] = e
        /\ \A i \in 1..Len(q) : Append(q, e)[i] = q[i]
    BY AppendProperties
  <2> QED
    BY <1>0, <1>1, <2>1 DEF CheckQueued
<1>2. ASSUME CheckQueued(q), NEW ns \in Seq(Outputs) PROVE CheckQueued(q \o Chunks(ns))
  <2> DEFINE c == Chunks(ns)
  <2>1. c \in Seq(Entries)
    BY ChunksTyped
  <2> HIDE DEF c
  <2>2. /\ Len(q \o c) = Len(q) + Len(c) /\ Len(c) \in Nat
        /\ \A i \in 1..(Len(q) + Len(c)) :
             (q \o c)[i] = IF i =< Len(q) THEN q[i] ELSE c[i - Len(q)]
    BY <2>1, ConcatProperties, LenProperties
  <2>3. \A i \in 1..Len(q) : i \in 1..Len(q \o c) /\ (q \o c)[i] = q[i]
    BY <1>0, <2>2
  <2>4. CheckQueued(q \o c)
    BY <1>2, <2>3 DEF CheckQueued
  <2> QED
    BY <2>4 DEF c
<1>3. ASSUME CheckQueued(q), q[1].kind # "reconcile" PROVE CheckQueued(Tail(q))
  <2>1. PICK i \in 1..Len(q) : q[i].kind = "reconcile"
    BY <1>3 DEF CheckQueued
  <2>2. i # 1 /\ q # <<>>
    BY <1>0, <1>3, <2>1, EmptySeq
  <2>3. i - 1 \in 1..Len(Tail(q)) /\ Tail(q)[i - 1] = q[i]
    BY <1>0, <2>1, <2>2, HeadTailProperties
  <2> QED
    BY <2>1, <2>3 DEF CheckQueued
<1> QED
  BY <1>1, <1>2, <1>3

LEMMA CheckKept ==
  ASSUME ControlInv, CheckInv, Streams', ViewerNext
  PROVE  CheckInv'
<1>t. /\ ControlTypes /\ QueueTypes /\ CountTypes /\ StageInv /\ SeamInv /\ WaitInv
      /\ Streams /\ mode = "stream"
  BY TypesSplit, StreamsBefore DEF ControlInv
<1>0. streamQueue \in Seq(Entries) /\ buffered \in Seq(Outputs) /\ ring \in Seq(Outputs)
  BY <1>t DEF QueueTypes
<1>c. CheckInv <=> (stage = "live" /\ pictured =>
                      reconcile = "timer" \/ (reconcile = "queued" /\ CheckQueued(streamQueue)))
  BY DEF CheckInv, CheckQueued
<1>1. ASSUME pictured' = pictured, reconcile' = reconcile, stage' = "live" => stage = "live",
             CheckQueued(streamQueue) => CheckQueued(streamQueue')
      PROVE  CheckInv'
  BY <1>1, <1>c DEF CheckInv, CheckQueued
<1>2. ASSUME NEW ns \in Seq(Outputs), OnChunks(ns)
      PROVE  CheckQueued(streamQueue) => CheckQueued(streamQueue')
  BY <1>0, <1>2, CheckQueuedStays DEF OnChunks
<1>3. ASSUME NEW v \in BOOLEAN, Hint(v) PROVE CheckInv'
  <2>1. /\ UNCHANGED <<stage, pictured, seen, reconcile, screen, output, delivered>>
        /\ \/ UNCHANGED <<buffered, ring, streamQueue>>
           \/ ring' = <<>> /\ OnChunks(ring)
           \/ ring' = <<>> /\ pictured /\ OnGap
           \/ UNCHANGED streamQueue
    BY <1>3, StreamsHint
  <2>2. [kind |-> "gap", n |-> 0] \in Entries
    BY OutputsTyped DEF Entries
  <2>3. CheckQueued(streamQueue) => CheckQueued(streamQueue')
    BY <1>0, <1>2, <2>1, <2>2, CheckQueuedStays DEF OnGap
  <2> QED
    BY <1>1, <2>1, <2>3
<1>4. CASE FeedDelivers
  <2>1. UNCHANGED <<stage, pictured, reconcile>> /\ <<delivered'>> \in Seq(Outputs)
    BY <1>4, StreamsDelivers
  <2>2. UNCHANGED streamQueue \/ OnChunks(<<delivered'>>)
    BY <1>4, StreamsDelivers
  <2> QED
    BY <1>1, <1>2, <2>1, <2>2
<1>5. CASE FeedStarts \/ FeedFails
  <2>1. UNCHANGED <<stage, pictured, reconcile, streamQueue>>
    BY <1>5, StreamsFeed
  <2> QED
    BY <1>1, <2>1
<1>6. CASE SeamEnds
  <2>1. ~pictured /\ reconcile = "none"
    BY <1>6, <1>t, SeamInvSays DEF SeamEnds, WaitInv
  <2>2. reconcile' = "timer"
    BY <1>6, <1>t, <2>1 DEF SeamEnds, Scheduled, Streams
  <2> QED
    BY <2>2 DEF CheckInv
<1>7. CASE ReconcileFires
  <2>1. /\ streamQueue' = Append(streamQueue, [kind |-> "reconcile", n |-> 0])
        /\ reconcile' = "queued"
    BY <1>7, <1>t DEF ReconcileFires
  <2>2. [kind |-> "reconcile", n |-> 0] \in Entries
    BY OutputsTyped DEF Entries
  <2>3. CheckQueued(streamQueue')
    BY <1>0, <2>1, <2>2, CheckQueuedStays
  <2> QED
    BY <2>1, <2>3 DEF CheckInv, CheckQueued
<1>8. CASE SubscribeReturns /\ ~pictured'
  BY <1>8 DEF CheckInv
<1>9. CASE UNCHANGED <<pictured, reconcile, streamQueue>> /\ (stage' = "live" => stage = "live")
  BY <1>1, <1>9
<1>10. CASE /\ ChunkStarts \/ ChunkEnds \/ ResetStarts \/ ReconcileStarts \/ ResetCaptures \/ ResetEnds
            /\ UNCHANGED <<pictured, stage>>
  <2>1. streamQueue # <<>>
    BY <1>10 DEF ChunkStarts, ChunkEnds, ResetStarts, ReconcileStarts, ResetCaptures, ResetEnds, First
  <2>2. Head(streamQueue) = streamQueue[1]
    BY <1>0, <2>1
  <2>3. \/ reconcile' = "timer"
        \/ UNCHANGED <<reconcile, streamQueue>>
        \/ /\ reconcile' = reconcile /\ streamQueue' = Tail(streamQueue)
           /\ streamQueue[1].kind # "reconcile"
    <3>1. ~isClosed
      BY <1>t DEF Streams
    <3>2. CASE ChunkStarts \/ ChunkEnds \/ ResetStarts
      <4>1. streamQueue[1].kind # "reconcile"
        BY <2>2, <3>2 DEF ChunkStarts, ChunkEnds, ResetStarts, First
      <4> QED
        BY <3>2, <4>1 DEF ChunkStarts, ChunkEnds, ResetStarts, Over, Sees
    <3>3. CASE ReconcileStarts \/ ResetCaptures
      BY <1>t, <3>1, <3>3 DEF ReconcileStarts, ResetCaptures, Over, Sees, Checked
    <3>4. CASE ResetEnds
      <4>1. CASE First("reconcile")
        BY <1>t, <3>1, <3>4, <4>1 DEF ResetEnds, Checked
      <4>2. CASE ~First("reconcile")
        BY <2>1, <2>2, <3>4, <4>2 DEF ResetEnds, Over, First
      <4> QED
        BY <4>1, <4>2
    <3> QED
      BY <1>10, <3>2, <3>3, <3>4
  <2>4. CASE reconcile' = "timer"
    BY <2>4 DEF CheckInv
  <2>5. CASE UNCHANGED <<reconcile, streamQueue>>
    BY <1>1, <1>10, <2>5
  <2>6. CASE /\ reconcile' = reconcile /\ streamQueue' = Tail(streamQueue)
             /\ streamQueue[1].kind # "reconcile"
    <3>1. CheckQueued(streamQueue) => CheckQueued(streamQueue')
      BY <1>0, <2>6, CheckQueuedStays
    <3> QED
      BY <1>1, <1>10, <2>6, <3>1
  <2> QED
    BY <2>3, <2>4, <2>5, <2>6
<1> QED
  BY <1>3, <1>4, <1>5, <1>6, <1>7, <1>8, <1>9, <1>10, StreamsElse

\* Only a chunk that is appended can leave a hole.
LEMMA HoleKept ==
  ASSUME ControlInv, NoHoleWhileStreaming, Alive => QueueInv, ViewerNext
  PROVE  NoHoleWhileStreaming'
<1>t. /\ ControlTypes /\ PictureTypes /\ CountTypes /\ QueueTypes
  BY TypesSplit DEF ControlInv
<1>0. screen \in ScreenSet /\ streamQueue \in Seq(Entries)
  BY <1>t DEF PictureTypes, QueueTypes
<1>s. skipped => skipped'
  BY <1>t DEF ControlTypes, ViewerNext, Connect, Resolve, ResolveFails, SubscribeReturns, ClientCloses,
     Hint, Resumes, PaneOutput, PaneResized, SizeExpires, FeedDelivers, FeedFails, FeedStarts, TaskStep,
     SeamEnds, ChunkStarts, ChunkEnds, ResetStarts, ReconcileStarts, ResetCaptures, ResetEnds,
     TaskFails, ReconcileFires, PumpStep, PumpFires, PumpEnds, PumpFails, TaskKeeps, PumpKeeps, client
<1>1. fellBack => fellBack'
  BY DEF ViewerNext, Connect, Resolve, ResolveFails, SubscribeReturns, ClientCloses, Hint,
     PaneOutput, PaneResized, SizeExpires, FeedDelivers, FeedFails, FeedStarts, TaskStep, SeamEnds, ChunkStarts,
     ChunkEnds, ResetStarts, ReconcileStarts, ResetCaptures, ResetEnds, TaskFails, ReconcileFires,
     PumpStep, PumpFires, PumpEnds, PumpFails, PumpKeeps, StayInMode, FallBack
<1>2. CASE screen'.hole => screen.hole
  BY <1>1, <1>2, <1>s DEF NoHoleWhileStreaming
<1>3. CASE ~ChunkEnds
  <2>1. screen' = screen \/ \E n : screen' = Picture(n)
    BY <1>3 DEF ViewerNext, Connect, Resolve, ResolveFails, SubscribeReturns, ClientCloses, Hint,
       PaneOutput, PaneResized, SizeExpires, FeedDelivers, FeedFails, FeedStarts, TaskStep, SeamEnds,
       ChunkStarts, ResetStarts, ReconcileStarts, ResetCaptures, ResetEnds, TaskFails,
       ReconcileFires, PumpStep, PumpFires, PumpEnds, PumpFails, Resting, Shows, shown
  <2>2. \A n : Picture(n).hole = FALSE
    BY DEF Picture
  <2> QED
    BY <1>2, <2>1, <2>2
<1>4. CASE ChunkEnds
  <2>1. /\ First("chunk") /\ seen.at = "sized" /\ fellBack' = fellBack
        /\ screen' = IF isClosed THEN screen ELSE Appended(Head(streamQueue).n)
    BY <1>4 DEF ChunkEnds, StayInMode, Shows
  <2>2. CASE isClosed \/ fellBack \/ skipped
    BY <1>s, <2>1, <2>2 DEF NoHoleWhileStreaming
  <2>3. CASE Alive
    <3>1. /\ Head(streamQueue) = streamQueue[1] /\ 1 \in 1..Len(streamQueue)
          /\ streamQueue[1].kind = "chunk"
      BY <1>0, <2>1, LenProperties, EmptySeq DEF First
    <3>2. Reaches(streamQueue, seen.at, screen.n, 0, streamQueue[1].n)
      BY <2>1, <2>3, <3>1 DEF QueueInv, Seamless, Showing
    <3>3. streamQueue[1].n =< screen.n + 1 /\ streamQueue[1].n \in Nat /\ screen.n \in Nat
      <4>1. screen.n \in Nat
        BY <1>0, OutputsTyped DEF ScreenSet
      <4>2. streamQueue[1].n =< screen.n + 1
        BY <3>2 DEF Reaches
      <4> QED
        BY <1>0, <3>1, <4>1, <4>2, EntryNumbers
    <3>4. screen'.hole => screen.hole
      BY <1>0, <2>1, <2>3, <3>1, <3>3 DEF Appended, ScreenSet, Alive, Streams
    <3> QED
      BY <1>2, <3>4
  <2> QED
    BY <1>t, <2>2, <2>3 DEF Alive, Streams, ControlTypes
<1> QED
  BY <1>3, <1>4

\* The whole invariant.  NoHoleWhileStreaming says nothing about what is still
\* to be shown: that the kept chunks are the last ones delivered (InOrder) and
\* that each task of the chain begins where those before it will have brought
\* the client (QueueInv) is what its proof needs.
LEMMA VInvInductive == ViewerSpec => []VInv
<1>1. ViewerInit => VInv
  <2> SUFFICES ASSUME ViewerInit PROVE VInv
    OBVIOUS
  <2>e. <<>> \in Seq(Outputs) /\ <<>> \in Seq(Entries) /\ Len(<<>>) = 0
    BY EmptySeq
  <2>1. QueueTypes /\ PictureTypes /\ CountTypes /\ ControlTypes
    <3>1. Unseen \in SeenSet /\ NoPump \in PumpSet /\ NoScreen \in ScreenSet
      BY OutputsTyped DEF Unseen, NoPump, NoScreen, SeenSet, PumpSet, ScreenSet
    <3>2. QueueTypes /\ PictureTypes
      BY <2>e, <3>1 DEF ViewerInit, QueueTypes, PictureTypes
    <3>3. CountTypes
      BY OutputsTyped, ViewerAssumption DEF ViewerInit, CountTypes
    <3>4. ControlTypes
      BY DEF ViewerInit, ControlTypes
    <3> QED
      BY <3>2, <3>3, <3>4
  <2>2. StageInv /\ ClosedInv /\ WaitInv /\ FallInv /\ PumpInv /\ SeamInv /\ DrawnInv
    BY DEF ViewerInit, StageInv, ClosedInv, WaitInv, FallInv, PumpInv, SeamInv, DrawnInv,
       NoPump, Listening, TheSeam
  <2>3. PictureUnderWay /\ NoHoleWhileStreaming /\ CheckInv
    BY DEF ViewerInit, PictureUnderWay, NoHoleWhileStreaming, NoScreen, CheckInv
  <2>4. InOrder
    BY <2>e DEF ViewerInit, InOrder, KeptBack
  <2>5. QueueInv
    BY <2>e DEF ViewerInit, QueueInv, Showing, NoScreen, Unseen, Seamless
  <2> QED
    BY <2>1, <2>2, <2>3, <2>4, <2>5, TypesSplit DEF VInv, ControlInv, ShowInv
<1>2. VInv /\ [ViewerNext]_viewerVars => VInv'
  <2>1. CASE UNCHANGED viewerVars
    BY <2>1 DEF VInv, ControlInv, ShowInv, viewerVars, ViewerTypeOK, StageInv, ClosedInv, WaitInv,
       FallInv, PumpInv, SeamInv, DrawnInv, PictureUnderWay, First, NoHoleWhileStreaming, CheckInv,
       InOrder, KeptBack, QueueInv, Showing, Alive, Streams, Listening
  <2>2. ASSUME VInv, ViewerNext PROVE VInv'
    <3>1. ControlInv'
      BY <2>2, ControlKept DEF VInv
    <3>2. NoHoleWhileStreaming'
      BY <2>2, HoleKept DEF VInv, ShowInv
    <3>3. ASSUME Streams' PROVE CheckInv'
      <4>1. ControlInv /\ CheckInv
        BY <2>2, <3>3, StreamsBefore DEF VInv
      <4> QED
        BY <2>2, <3>3, <4>1, CheckKept
    <3>4. ASSUME Alive' PROVE ShowInv'
      <4>1. ShowInv /\ ControlInv
        BY <2>2, <3>4, StreamsBefore DEF VInv, Alive
      <4> QED
        BY <2>2, <3>4, <4>1, InOrderKept, QueueKept DEF ShowInv
    <3> QED
      BY <3>1, <3>2, <3>3, <3>4 DEF VInv
  <2> QED
    BY <2>1, <2>2
<1> QED
  BY <1>1, <1>2, PTL DEF ViewerSpec

\* The state of a connection has its type.
THEOREM ViewerTypes == ViewerSpec => []ViewerTypeOK
<1>1. VInv => ViewerTypeOK
  BY DEF VInv, ControlInv
<1> QED
  BY <1>1, VInvInductive, PTL

\* A connection that was closed, at whatever step of its opening, holds no
\* subscription, no pump and no timer once that step is over.
THEOREM ClosedHoldsNothing == ViewerSpec => []ClosedLeavesNothing
<1>1. VInv => ClosedLeavesNothing
  BY DEF VInv, ControlInv, StageInv, ClosedInv, ClosedLeavesNothing
<1> QED
  BY <1>1, VInvInductive, PTL

\* As long as a connection has not fallen back, no output is missing between
\* what its client shows, however many chunks, pauses, gaps and resizes there
\* are, unless a gap came, and was passed over, before its first picture.
THEOREM NothingMissing == ViewerSpec => []NoHoleWhileStreaming
<1>1. VInv => NoHoleWhileStreaming
  BY DEF VInv
<1> QED
  BY <1>1, VInvInductive, PTL

\* An open connection that shows nothing yet has its first picture under way,
\* by the first task of its chain or by the pump: the two never wait for each other.
THEOREM SomeoneDraws == ViewerSpec => []PictureUnderWay
<1>1. VInv => PictureUnderWay
  BY DEF VInv, ControlInv
<1> QED
  BY <1>1, VInvInductive, PTL

\* A connection that streams and has its first picture always has a check of
\* what the client shows to come: its timer is armed or the check is in the chain.
THEOREM ChecksGoOn == ViewerSpec => [](Streams => CheckInv)
<1>1. VInv => (Streams => CheckInv)
  BY DEF VInv
<1> QED
  BY <1>1, VInvInductive, PTL

\* At rest, with nothing kept back, the client shows all that was delivered.
RestShowsAll ==
  Alive /\ stage = "live" /\ streamQueue = <<>> /\ buffered = <<>> /\ ring = <<>> =>
    delivered =< screen.n

\* What was delivered is not lost unless the ring of a paused subscription ran
\* over before the first picture: else a connection that streams, with nothing
\* kept back and its chain at rest, shows all of it (onChunk, startStreamSeam,
\* onGap and the ring).
THEOREM RestsUpToDate == ViewerSpec => []RestShowsAll
<1>1. ASSUME VInv, Alive, stage = "live", streamQueue = <<>>, buffered = <<>>, ring = <<>>
      PROVE  delivered =< screen.n
  <2>1. QueueTypes /\ CountTypes /\ PictureTypes /\ SeamInv /\ QueueInv
    BY <1>1, TypesSplit DEF VInv, ControlInv, ShowInv
  <2>2. KeptBack = 0 /\ Len(streamQueue) = 0 /\ seen.at = "start"
    BY <1>1, <2>1, EmptySeq DEF KeptBack, SeamInv, Unseen
  <2>3. delivered \in Nat /\ screen \in ScreenSet
    BY <2>1, OutputsTyped DEF CountTypes, PictureTypes
  <2>4. screen.n \in Nat
    BY <2>3, OutputsTyped DEF ScreenSet
  <2>5. Reaches(streamQueue, "start", screen.n, 0, delivered + 1)
    BY <1>1, <2>1, <2>2, <2>3 DEF QueueInv, Showing
  <2>6. delivered + 1 =< screen.n + 1
    BY <2>5 DEF Reaches
  <2> QED
    BY <2>3, <2>4, <2>6
<1>2. VInv => RestShowsAll
  BY <1>1 DEF RestShowsAll
<1> QED
  BY <1>2, VInvInductive, PTL
=============================================================================
