--------------------------- MODULE ConsoleProofs ---------------------------
(***************************************************************************)
(* The four parts of MCConsole, side by side: each behaves as it does        *)
(* alone.  What is proved of a part alone therefore holds of it in every     *)
(* behaviour that the run checks, whatever the others do.                    *)
(***************************************************************************)
EXTENDS MCConsole, SlotTerminalProofs, PrimitiveExecutorProofs,
        EventStreamProofs

\* A step of the console is a step of one part, and none of the others.
LEMMA ConsoleStep ==
  ASSUME [Next]_vars
  PROVE  /\ [StreamNext]_streamVars /\ [ViewerNext]_viewerVars
         /\ [ExecutorNext]_executorVars /\ [EventNext]_eventVars
BY DEF Next, vars

\* The console implements each of its parts.
THEOREM ConsoleImplementsParts ==
  Spec => StreamSpec /\ ViewerSpec /\ ExecutorSpec /\ EventSpec
<1>1. Init => StreamInit /\ ViewerInit /\ ExecutorInit /\ EventInit
  BY DEF Init
<1>2. [Next]_vars => /\ [StreamNext]_streamVars /\ [ViewerNext]_viewerVars
                     /\ [ExecutorNext]_executorVars /\ [EventNext]_eventVars
  BY ConsoleStep
<1> QED
  BY <1>1, <1>2, PTL DEF Spec, StreamSpec, ViewerSpec, ExecutorSpec, EventSpec

\* Every part keeps its types: the recorder and the viewer, the calls and audit
\* rows, and the journal, streams and panels.
THEOREM ConsoleIsTyped == Spec => []ConsoleTypeOK
<1>1. StreamTypeOK /\ ViewerTypeOK /\ ExecutorTypeOK /\ EventTypeOK
        => ConsoleTypeOK
  BY DEF ConsoleTypeOK
<1> QED
  BY <1>1, ConsoleImplementsParts, StreamTypes, ViewerTypes, ExecutorTypes,
     EventTypes, PTL

\* What holds of each part alone holds of the parts together: the viewers of a
\* recorder know its mode and a retry is pending; a connection closes cleanly
\* and, as long as it streams and passed over no gap, misses nothing; an answer
\* is a run of the caller's own key, and a kept key is run again only by calls
\* whose look came too early; no event is lost.
THEOREM ConsoleIsSafe ==
  Spec => /\ [](ToldMode /\ RetryPending)
          /\ [](ClosedLeavesNothing /\ NoHoleWhileStreaming)
          /\ [](AnswersAreRuns /\ NothingLost)
          /\ ImplementsPaneFeed /\ ImplementsRunOnce
BY ConsoleImplementsParts, ViewersKnowTheMode, RetryIsPending, StreamImplementsFeed,
   ClosedHoldsNothing, NothingMissing, ExecutorAnswers, ExecutorRunsOnce,
   EventsAreNotLost, PTL
=============================================================================
