----------------------------- MODULE SlotViewer -----------------------------
(***************************************************************************)
(* One websocket that shows a pane (handleSlotTerminalWebSocketConnection    *)
(* and startSlotTerminalStreamMode).  It subscribes to the pane's stream     *)
(* before it takes the first picture, keeps the chunks that come meanwhile,  *)
(* and puts everything it sends through one promise chain, streamQueue.      *)
(* When the stream fails it polls pictures instead (SlotTerminalFramePump);  *)
(* while it streams it compares the client's history with tmux now and then  *)
(* (reconcile).  Hints, the stream's callbacks and the end of the connection *)
(* come between any two steps.                                               *)
(*                                                                         *)
(* Output is numbered.  A picture shows all output up to a number; a chunk   *)
(* is one number and is delivered some time after it was put out.  What the  *)
(* stream does (SlotStream) is the environment here.                         *)
(***************************************************************************)
EXTENDS Naturals, Sequences

CONSTANTS
  MaxOutput,  \* bound: output of the pane
  MaxUpsets   \* bound: failed captures, stream failures, resizes and hints

ASSUME ViewerAssumption == MaxOutput \in Nat /\ MaxUpsets \in Nat

VARIABLES
  stage,       \* of the coroutine that opens the connection
  isClosed,
  visible,     \* currentHint
  passedHint,  \* the pendingHint that startSlotTerminalStreamMode was given
  skipped,     \* a gap was told, and passed over, before the first picture
  feed,        \* the recorder: starting, stream or fallback
  handle,      \* the subscription: none, on, paused, released
  ring,        \* chunks recorded while the subscription is paused
  mode,
  pictured,    \* initialSnapshotSent
  seamStarted, fallbackStarted,
  buffered,    \* bufferedChunks
  streamQueue, \* tasks; the first may be under way
  seen,        \* what the first task has found: its step and a picture
  pump,        \* none, rest (hidden), timer, or the picture in flight
  reconcile,   \* none, timer, queued (reconcileInFlight)
  output, delivered,  \* of the pane; by the stream
  resized,     \* the pane's size is not lastDimensions: no, yes, or hidden,
               \* as the cached size is still the old one
  screen,      \* what the client shows
  alike,       \* the lines a check compares are those of tmux
  fellBack,    \* the connection has left the stream mode at some time
  upsets

viewerVars == <<stage, isClosed, visible, passedHint, skipped, feed, handle,
                ring, mode, pictured, seamStarted, fallbackStarted, buffered,
                streamQueue, seen, pump, reconcile, output, delivered, resized,
                screen, alike, fellBack, upsets>>
world == <<feed, output, delivered>>
client == <<visible, passedHint, skipped>>
shown == <<screen, alike>>

Outputs == 0..MaxOutput
Entries == [kind : {"seam", "chunk", "gap", "error", "reconcile"}, n : Outputs]
Unseen == [at |-> "start", n |-> 0]
NoPump == [at |-> "none", n |-> 0]
NoScreen == [drawn |-> FALSE, n |-> 0, hole |-> FALSE]

ViewerTypeOK ==
  /\ stage \in {"none", "resolving", "subscribing", "live", "ended"}
  /\ {isClosed, visible, skipped, pictured, seamStarted, fallbackStarted,
      alike, fellBack} \subseteq BOOLEAN
  /\ passedHint \in {"none", "hidden", "visible"}
  /\ feed \in {"starting", "stream", "fallback"}
  /\ handle \in {"none", "on", "paused", "released"}
  /\ mode \in {"stream", "fallback"}
  /\ ring \in Seq(Outputs) /\ buffered \in Seq(Outputs)
  /\ streamQueue \in Seq(Entries)
  /\ seen \in [at : {"start", "drop", "sized", "picture"}, n : Outputs]
  /\ pump \in [at : {"none", "rest", "timer", "flying"}, n : Outputs]
  /\ reconcile \in {"none", "timer", "queued"}
  /\ output \in Outputs /\ delivered \in 0..output
  /\ resized \in {"no", "hidden", "yes"}
  /\ screen \in [drawn : BOOLEAN, n : Outputs, hole : BOOLEAN]
  /\ upsets \in 0..MaxUpsets

ViewerInit ==
  /\ stage = "none" /\ isClosed = FALSE
  /\ visible = TRUE /\ passedHint = "none" /\ skipped = FALSE
  /\ feed = "starting" /\ handle = "none" /\ ring = <<>> /\ mode = "stream"
  /\ pictured = FALSE /\ seamStarted = FALSE /\ fallbackStarted = FALSE
  /\ buffered = <<>> /\ streamQueue = <<>> /\ seen = Unseen /\ pump = NoPump
  /\ reconcile = "none" /\ output = 0 /\ delivered = 0 /\ resized = "no"
  /\ screen = NoScreen /\ alike = TRUE /\ fellBack = FALSE /\ upsets = 0

Upset == upsets < MaxUpsets /\ upsets' = upsets + 1
Calm == UNCHANGED upsets

(***************************************************************************)
(* What the client shows, and the helpers of startSlotTerminalStreamMode.   *)
(***************************************************************************)
Picture(n) == [drawn |-> TRUE, n |-> n, hole |-> FALSE]

\* A chunk that is there already is shown twice, one that comes too early
\* leaves a hole before it.
Appended(k) ==
  IF k <= screen.n THEN screen
  ELSE [screen EXCEPT !.n = k, !.hole = @ \/ k # screen.n + 1]

Shows(s) == screen' = IF isClosed THEN screen ELSE s

\* clientHistory keeps the text of the picture, without its colours.  Unless
\* tmux went on since, that is what the next check finds there.
Recorded(n) ==
  alike' \in IF n = output /\ resized = "no" THEN {TRUE} ELSE BOOLEAN

\* lastDimensions is set from what getPaneDimensions answers, which for a
\* second is what it answered before.
SizeRead == resized' = IF resized = "yes" THEN "no" ELSE resized

\* captureAndSchedule: nothing while hidden, else a capture.
PumpOn == IF visible THEN [at |-> "flying", n |-> output]
          ELSE [at |-> "rest", n |-> 0]

\* mode = "snapshot-fallback"; ensureFallbackPumpStarted()
FallBack ==
  /\ mode' = "fallback" /\ fellBack' = TRUE
  /\ IF fallbackStarted \/ isClosed THEN UNCHANGED <<fallbackStarted, pump>>
     ELSE fallbackStarted' = TRUE /\ pump' = PumpOn
StayInMode == UNCHANGED <<mode, fellBack, fallbackStarted, pump>>

\* scheduleReconcile and stopReconcile; a check that is queued stays queued.
Scheduled(drawn) ==
  IF reconcile = "none" /\ ~isClosed /\ mode = "stream" /\ drawn THEN "timer"
  ELSE reconcile
Stopped == IF reconcile = "timer" THEN "none" ELSE reconcile

Chunks(ns) == [i \in 1..Len(ns) |-> [kind |-> "chunk", n |-> ns[i]]]

\* Mutant of OnChunks: what comes before the first picture is dropped.
DropEarly(ns) ==
  /\ UNCHANGED buffered
  /\ streamQueue' = IF pictured THEN streamQueue \o Chunks(ns) ELSE streamQueue

\* onChunk for each of ns.
OnChunks(ns) ==
  IF pictured
    THEN streamQueue' = streamQueue \o Chunks(ns) /\ UNCHANGED buffered
    ELSE buffered' = buffered \o ns /\ UNCHANGED streamQueue

\* onGap
OnGap == /\ streamQueue' = IF pictured
              THEN Append(streamQueue, [kind |-> "gap", n |-> 0]) ELSE streamQueue
         /\ UNCHANGED buffered

(***************************************************************************)
(* Opening and closing the connection.                                     *)
(***************************************************************************)
Connect ==
  /\ stage = "none" /\ stage' = "resolving"
  /\ feed' \in {"starting", "stream", "fallback"}
  /\ UNCHANGED <<isClosed, client, handle, ring, mode, pictured, seamStarted,
                 fallbackStarted, buffered, streamQueue, seen, pump, reconcile,
                 output, delivered, resized, shown, fellBack, upsets>>

Resting == UNCHANGED <<ring, seamStarted, fallbackStarted, pictured, buffered,
                       streamQueue, seen, pump, reconcile, resized, shown>>

\* The slot is found and the recorder is asked; what it tells at once is its
\* mode.  A fallback told now is seen when subscribe() has returned.
Resolve ==
  /\ stage = "resolving" /\ Calm
  /\ IF isClosed THEN stage' = "ended" /\ UNCHANGED <<handle, mode, fellBack>>
     ELSE /\ stage' = "subscribing" /\ handle' = "on"
          /\ mode' = IF feed = "fallback" THEN "fallback" ELSE mode
          /\ fellBack' = (fellBack \/ feed = "fallback")
  /\ Resting /\ UNCHANGED <<isClosed, client, world>>

\* The slot is not bound or its pane is gone: an error, and the socket closes.
ResolveFails ==
  /\ stage = "resolving" /\ Upset /\ stage' = "ended" /\ isClosed' = TRUE
  /\ Resting /\ UNCHANGED <<client, world, handle, mode, fellBack>>

\* startStreamSeam: the chain is at rest before the first picture, so the
\* task has begun, and found the mode to be "stream", before anything else runs.
SeamStarts == /\ seamStarted' = TRUE
              /\ streamQueue' = <<[kind |-> "seam", n |-> 0]>>
              /\ seen' = [at |-> "drop", n |-> 0]
NoSeam == UNCHANGED <<seamStarted, streamQueue, seen>>

\* Mutant of SubscribeReturns: the connection is not looked at again.
SubscribeUnchecked ==
  /\ stage = "subscribing" /\ feed # "starting" /\ stage' = "live" /\ Calm
  /\ handle' = IF passedHint = "hidden" THEN "paused" ELSE handle
  /\ IF mode = "fallback"
       THEN FallBack /\ NoSeam
       ELSE StayInMode /\ IF seamStarted THEN NoSeam ELSE SeamStarts
  /\ UNCHANGED <<isClosed, client, world, ring, pictured, buffered, reconcile,
                 resized, shown>>

\* Mutant of SubscribeReturns: a fallback told during subscribe() is not seen.
SubscribeNoPump ==
  /\ stage = "subscribing" /\ feed # "starting" /\ stage' = "live" /\ Calm
  /\ IF isClosed
       THEN handle' = "released" /\ StayInMode /\ NoSeam
       ELSE /\ handle' = IF passedHint = "hidden" THEN "paused" ELSE handle
            /\ StayInMode
            /\ IF mode = "fallback" \/ seamStarted THEN NoSeam ELSE SeamStarts
  /\ UNCHANGED <<isClosed, client, world, ring, pictured, buffered, reconcile,
                 resized, shown>>

\* subscribe() has returned: a connection that is closed by now lets it go.
SubscribeReturns ==
  /\ stage = "subscribing" /\ feed # "starting" /\ stage' = "live" /\ Calm
  /\ IF isClosed
       THEN handle' = "released" /\ StayInMode /\ NoSeam
       ELSE /\ handle' = IF passedHint = "hidden" THEN "paused" ELSE handle
            /\ IF mode = "fallback"
                 THEN FallBack /\ NoSeam
                 ELSE StayInMode /\ IF seamStarted THEN NoSeam ELSE SeamStarts
  /\ UNCHANGED <<isClosed, client, world, ring, pictured, buffered, reconcile,
                 resized, shown>>

\* closeConnection; release() stops the reconcile timer first.
Close ==
  /\ isClosed' = TRUE /\ pump' = NoPump
  /\ IF stage = "live"
       THEN handle' = "released" /\ ring' = <<>> /\ reconcile' = Stopped
       ELSE UNCHANGED <<handle, ring, reconcile>>

ClientCloses ==
  /\ stage # "none" /\ ~isClosed /\ Close
  /\ UNCHANGED <<stage, client, world, mode, pictured, seamStarted,
                 fallbackStarted, buffered, streamQueue, seen, resized, shown,
                 fellBack, upsets>>

\* A paused subscription goes on: onChunk for what the ring kept, or one gap
\* where the ring ran over.  onGap asks for no picture before the first one, and
\* the cursor has moved on.
Resumes ==
  /\ handle' = "on" /\ ring' = <<>>
  /\ \/ OnChunks(ring) /\ UNCHANGED skipped
     \/ /\ feed = "fallback" \/ ring # <<>>
        /\ OnGap /\ skipped' = (skipped \/ (~pictured /\ ring # <<>>))

\* A hint is kept for later as long as there is nothing to apply it to.  What
\* comes while subscribe() runs is kept, and dropped when it has returned.
Hint(v) ==
  /\ stage # "none" /\ ~isClosed /\ Upset /\ visible' = v
  /\ passedHint' = IF stage = "resolving"
                     THEN IF v THEN "visible" ELSE "hidden" ELSE passedHint
  /\ pump' = CASE pump.at = "timer" /\ ~v -> [at |-> "rest", n |-> 0]
               [] pump.at = "rest" /\ v -> [at |-> "flying", n |-> output]
               [] OTHER -> pump
  /\ IF stage = "live" /\ v THEN Resumes
     ELSE /\ handle' = IF stage = "live" THEN "paused" ELSE handle
          /\ UNCHANGED <<ring, streamQueue, buffered, skipped>>
  /\ UNCHANGED <<stage, isClosed, world, mode, pictured, seamStarted,
                 fallbackStarted, seen, reconcile, resized, shown, fellBack>>

(***************************************************************************)
(* The stream: its output, its failures and its returns.                   *)
(***************************************************************************)
Listening == handle \in {"on", "paused"}

PaneOutput ==
  /\ stage # "none" /\ output < MaxOutput /\ output' = output + 1
  /\ alike' \in BOOLEAN /\ StayInMode
  /\ UNCHANGED <<stage, isClosed, client, feed, handle, ring, pictured,
                 seamStarted, buffered, streamQueue, seen, reconcile, delivered,
                 resized, screen, upsets>>

\* The cached size may have been read less than a second ago.
PaneResized ==
  /\ stage # "none" /\ Upset
  /\ resized' \in {"hidden", "yes"} /\ alike' \in BOOLEAN /\ StayInMode
  /\ UNCHANGED <<stage, isClosed, client, world, handle, ring, pictured,
                 seamStarted, buffered, streamQueue, seen, reconcile, screen>>

\* The second is over.
SizeExpires ==
  /\ resized = "hidden" /\ resized' = "yes" /\ Calm /\ StayInMode
  /\ UNCHANGED <<stage, isClosed, client, world, handle, ring, pictured,
                 seamStarted, buffered, streamQueue, seen, reconcile, shown>>

FeedDelivers ==
  /\ feed = "stream" /\ delivered < output /\ delivered' = delivered + 1
  /\ CASE handle = "on" -> OnChunks(<<delivered'>>) /\ UNCHANGED ring
       [] handle = "paused" -> /\ ring' = Append(ring, delivered')
                               /\ UNCHANGED <<buffered, streamQueue>>
       [] OTHER -> UNCHANGED <<ring, buffered, streamQueue>>
  /\ StayInMode
  /\ UNCHANGED <<stage, isClosed, client, feed, handle, pictured, seamStarted,
                 seen, reconcile, output, resized, shown, upsets>>

\* onError, unless the pipe is somebody else's, and onMode.
FeedFails ==
  /\ stage # "none" /\ feed # "fallback" /\ feed' = "fallback" /\ Upset
  /\ IF ~Listening THEN StayInMode /\ UNCHANGED <<buffered, streamQueue, reconcile>>
     ELSE /\ buffered' = <<>> /\ reconcile' = Stopped
          /\ IF pictured
               THEN FallBack /\ streamQueue' \in
                      {streamQueue, Append(streamQueue, [kind |-> "error", n |-> 0])}
               ELSE /\ mode' = "fallback" /\ fellBack' = TRUE
                    /\ UNCHANGED <<fallbackStarted, pump, streamQueue>>
  /\ UNCHANGED <<stage, isClosed, client, handle, ring, pictured, seamStarted,
                 seen, output, delivered, resized, shown>>

\* onMode "stream": the pump stops; the seam is made if there was no picture.
FeedStarts ==
  /\ stage # "none" /\ feed # "stream" /\ feed' = "stream" /\ delivered' = output
  /\ IF ~Listening THEN StayInMode /\ NoSeam
     ELSE /\ mode' = "stream" /\ fallbackStarted' = FALSE /\ pump' = NoPump
          /\ UNCHANGED fellBack
          /\ IF fallbackStarted /\ ~pictured /\ ~seamStarted
               THEN SeamStarts ELSE NoSeam
  /\ UNCHANGED <<stage, isClosed, client, handle, ring, pictured, buffered,
                 reconcile, output, resized, shown, upsets>>

(***************************************************************************)
(* streamQueue: one task at a time, its awaited calls one step each.       *)
(***************************************************************************)
First(kind) == streamQueue # <<>> /\ Head(streamQueue).kind = kind
Over == streamQueue' = Tail(streamQueue) /\ seen' = Unseen
Sees(at) == seen' = [at |-> at, n |-> output] /\ UNCHANGED streamQueue
TaskKeeps == UNCHANGED <<stage, isClosed, client, world, handle, ring>>

\* Mutant of Checked: a check does not arm the timer for the next one.
CheckedOnce(m) == m \in {"stream", "fallback"} /\ reconcile' = "none"

\* The finally of a reconcile check.
Checked(m) == reconcile' = IF ~isClosed /\ m = "stream" THEN "timer" ELSE "none"

\* The first picture goes out, and what came since the subscription after it.
SeamEnds ==
  /\ First("seam") /\ seen.at = "picture"
  /\ Shows(Picture(seen.n)) /\ Recorded(seen.n)
  /\ pictured' = TRUE /\ reconcile' = Scheduled(TRUE)
  /\ streamQueue' = Tail(streamQueue) \o Chunks(buffered) /\ seen' = Unseen
  /\ buffered' = <<>>
  /\ TaskKeeps /\ StayInMode /\ UNCHANGED <<seamStarted, resized, upsets>>

\* A chunk of a pane that was resized is dropped for a picture.
ChunkStarts ==
  /\ First("chunk") /\ seen.at = "start"
  /\ IF isClosed \/ mode # "stream" THEN Over /\ UNCHANGED resized
     ELSE Sees(IF resized = "yes" THEN "drop" ELSE "sized") /\ SizeRead
  /\ TaskKeeps /\ StayInMode
  /\ UNCHANGED <<pictured, seamStarted, buffered, reconcile, shown, upsets>>

ChunkEnds ==
  /\ First("chunk") /\ seen.at = "sized" /\ Over
  /\ Shows(Appended(Head(streamQueue).n)) /\ alike' \in BOOLEAN
  /\ TaskKeeps /\ StayInMode
  /\ UNCHANGED <<pictured, seamStarted, buffered, reconcile, resized, upsets>>

ResetStarts ==
  /\ First("gap") \/ First("error")
  /\ seen.at = "start"
  /\ IF isClosed THEN Over /\ UNCHANGED resized
     ELSE Sees("picture") /\ SizeRead
  /\ TaskKeeps /\ StayInMode
  /\ UNCHANGED <<pictured, seamStarted, buffered, reconcile, shown, upsets>>

\* Only the last complete lines are compared, as plain text.
ReconcileStarts ==
  /\ First("reconcile") /\ seen.at = "start"
  /\ IF isClosed \/ mode # "stream" \/ ~visible \/ alike
       THEN Over /\ Checked(mode)
       ELSE Sees("drop") /\ UNCHANGED reconcile
  /\ TaskKeeps /\ StayInMode
  /\ UNCHANGED <<pictured, seamStarted, buffered, resized, shown, upsets>>

\* captureStructuralFrame: the picture and the pane's size, then the frame.
ResetCaptures ==
  /\ streamQueue # <<>> /\ seen.at = "drop" /\ Sees("picture") /\ SizeRead
  /\ TaskKeeps /\ StayInMode
  /\ UNCHANGED <<pictured, seamStarted, buffered, reconcile, shown, upsets>>

ResetEnds ==
  /\ streamQueue # <<>> /\ ~First("seam") /\ seen.at = "picture" /\ Over
  /\ Shows(Picture(seen.n)) /\ Recorded(seen.n)
  /\ IF First("reconcile") THEN Checked(mode) ELSE UNCHANGED reconcile
  /\ TaskKeeps /\ StayInMode
  /\ UNCHANGED <<pictured, seamStarted, buffered, resized, upsets>>

\* The catch of each task; tmux failed in one of its captures.
TaskFails ==
  /\ streamQueue # <<>> /\ Upset
  /\ \/ seen.at # "start"
     \/ ~isClosed /\ (mode = "stream" \/ First("gap") \/ First("error"))
  /\ FallBack /\ Over
  /\ seamStarted' = (seamStarted /\ ~First("seam"))
  /\ reconcile' = CASE First("chunk") \/ First("seam") -> Stopped
                    [] First("reconcile") -> "none"
                    [] OTHER -> reconcile
  /\ TaskKeeps /\ UNCHANGED <<pictured, buffered, resized, shown>>

\* The timer finds a hidden client and is armed again, or queues a check.
ReconcileFires ==
  /\ reconcile = "timer" /\ visible
  /\ IF mode = "stream"
       THEN /\ reconcile' = "queued"
            /\ streamQueue' = Append(streamQueue, [kind |-> "reconcile", n |-> 0])
       ELSE reconcile' = "none" /\ UNCHANGED streamQueue
  /\ TaskKeeps /\ StayInMode
  /\ UNCHANGED <<pictured, seamStarted, buffered, seen, resized, shown, upsets>>

(***************************************************************************)
(* SlotTerminalFramePump, polling pictures.                                *)
(***************************************************************************)
PumpKeeps == /\ UNCHANGED <<stage, client, world, pictured, mode, seamStarted,
                             fallbackStarted, buffered, streamQueue, seen, resized>>
             /\ UNCHANGED <<fellBack, alike>>

PumpFires ==
  /\ pump.at = "timer" /\ pump' = [at |-> "flying", n |-> output]
  /\ PumpKeeps /\ UNCHANGED <<isClosed, handle, ring, reconcile, screen, upsets>>

PumpEnds ==
  /\ pump.at = "flying"
  /\ pump' = [at |-> IF visible THEN "timer" ELSE "rest", n |-> 0]
  /\ screen' = IF visible THEN Picture(pump.n) ELSE screen
  /\ PumpKeeps /\ UNCHANGED <<isClosed, handle, ring, reconcile, upsets>>

\* The pump stops, the client gets an error and the socket is closed.
PumpFails ==
  /\ pump.at = "flying" /\ Upset /\ Close
  /\ PumpKeeps /\ UNCHANGED screen

TaskStep == \/ SeamEnds \/ ChunkStarts \/ ChunkEnds \/ ResetStarts
            \/ ReconcileStarts \/ ResetCaptures \/ ResetEnds \/ TaskFails
PumpStep == PumpFires \/ PumpEnds \/ PumpFails

ViewerNext ==
  \/ Connect \/ Resolve \/ ResolveFails \/ SubscribeReturns
  \/ ClientCloses \/ \E v \in BOOLEAN : Hint(v)
  \/ PaneOutput \/ PaneResized \/ SizeExpires
  \/ FeedDelivers \/ FeedFails \/ FeedStarts
  \/ TaskStep \/ ReconcileFires \/ PumpStep

\* Coroutines, tasks and timers go on; a recorder that starts ends starting.
ViewerFairness ==
  /\ WF_viewerVars(Resolve \/ ResolveFails) /\ WF_viewerVars(SubscribeReturns)
  /\ WF_viewerVars(feed = "starting" /\ (FeedStarts \/ FeedFails))
  /\ WF_viewerVars(FeedDelivers) /\ WF_viewerVars(TaskStep)
  /\ WF_viewerVars(ReconcileFires) /\ WF_viewerVars(PumpStep)
  /\ WF_viewerVars(SizeExpires)

ViewerSpec == ViewerInit /\ [][ViewerNext]_viewerVars
FairViewerSpec == ViewerSpec /\ ViewerFairness

(***************************************************************************)
(* Properties.                                                             *)
(***************************************************************************)
\* A connection that was closed, at whatever step of its opening, holds no
\* subscription, no pump and no timer once that step is over (closeConnection,
\* the test after subscribe(), the tests in the helpers).
ClosedLeavesNothing ==
  isClosed /\ stage \in {"live", "ended"} =>
    handle \in {"none", "released"} /\ pump = NoPump /\ reconcile # "timer"

\* As long as a connection has not fallen back, no output is missing between
\* what its client shows: neither at the seam between the first picture and the
\* chunks, nor after a pause, a gap or a resize (startStreamSeam, onChunk,
\* onGap, checkResizeAndReset).  Only a gap that the ring told before the first
\* picture, which onGap passes over, may leave one.
NoHoleWhileStreaming == screen.hole => fellBack \/ skipped

\* A connection that stays open and visible gets a picture, by stream or by
\* polling, whenever the stream fails or returns while it is being opened.
FirstPicture ==
  (<>[](stage # "none" /\ ~isClosed /\ visible)) => <>[]screen.drawn

\* On a connection that never fell back, what is compared comes to agree with
\* tmux for good, however often chunks were shown twice, the pane was resized
\* behind the cached size or a check took its pictures too early
\* (enqueueReconcileCheck and its finally); and all output comes to be shown
\* (streamQueue), unless the subscription stays paused because a hint was dropped
\* during subscribe(), or a gap before the first picture was passed over.  What
\* the check does not compare, colours and the line being written, stays as it is.
Converges ==
  (<>[](stage = "live" /\ ~isClosed /\ visible /\ ~fellBack))
    => <>[](alike /\ (handle = "on" /\ ~skipped => screen.n = output))
=============================================================================
