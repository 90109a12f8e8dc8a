----------------------------- MODULE MCConsole ------------------------------
(* Four parts of the console beside the slot dispatcher, side by side in the  *)
(* small: the stream of a pane and a viewer of it, the executor and the       *)
(* events of a task.  A behaviour picks one part and leaves the others as     *)
(* they begin; none of their fair actions is enabled there, so that each part *)
(* keeps its own fairness.                                                    *)
EXTENDS SlotStream, SlotViewer, PrimitiveExecutor, EventStream

VARIABLE system

vars == <<system, streamVars, viewerVars, executorVars, eventVars>>

Init ==
  /\ system \in {"stream", "viewer", "executor", "events"}
  /\ StreamInit /\ ViewerInit /\ ExecutorInit /\ EventInit
  /\ system # "stream" => pipe = "none"

Next ==
  /\ UNCHANGED system
  /\ \/ /\ system = "stream" /\ StreamNext
        /\ UNCHANGED <<viewerVars, executorVars, eventVars>>
     \/ /\ system = "viewer" /\ ViewerNext
        /\ UNCHANGED <<streamVars, executorVars, eventVars>>
     \/ /\ system = "executor" /\ ExecutorNext
        /\ UNCHANGED <<streamVars, viewerVars, eventVars>>
     \/ /\ system = "events" /\ EventNext
        /\ UNCHANGED <<streamVars, viewerVars, executorVars>>

Spec == Init /\ [][Next]_vars
        /\ StreamFairness /\ ViewerFairness /\ ExecutorFairness
        /\ EventFairness

\* Every part keeps its types: the recorder and the viewer, the calls and audit
\* rows, and the journal, streams and panels.
ConsoleTypeOK == StreamTypeOK /\ ViewerTypeOK /\ ExecutorTypeOK /\ EventTypeOK
=============================================================================
