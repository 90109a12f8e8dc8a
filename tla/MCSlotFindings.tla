--------------------------- MODULE MCSlotFindings ---------------------------
(***************************************************************************)
(* What the contract, the tests and the messages of the repository say of   *)
(* the slots and their queue, where the code does otherwise.  Each claim is *)
(* checked alone, against the few operations its counterexample needs.      *)
(***************************************************************************)
EXTENDS SlotDispatch

Enqueues == \E p \in Procs :
  \/ \E r \in Requirements, cmd \in Commands : EnqueueStart(p, r, cmd)
  \/ Claim(p) \/ Record(p)

Drains == \E p \in Procs : TickStart(p) \/ TickClaim(p) \/ TickAssign(p)

Releases == \E p \in Procs :
  Release(p) \/ \E s \in Slots : ReleaseStart(p, s, FALSE)

Shrinks == \E p \in Procs : ShrinkInspect(p) \/ Shrink(p) \/ ShrinkEnds(p)

Reconciles == \E p \in Procs :
  (\E o \in journal : OutcomeArrives(p, o)) \/ ReconcileStep(p)

\* Every submission succeeds.
Dispatches ==
  \/ WorkerPoll
  \/ \E e \in worker.batch : WorkerCheck(e) \/ WorkerSubmit(e) \/ WorkerCommit(e)

\* An agent does what its command says, one job after the other.
Succeeds == \E e \in running :
  /\ \A f \in running : f.slot = e.slot => e.row <= f.row
  /\ AgentFinishes(e, TRUE)

-----------------------------------------------------------------------------
CancelSpec == Init /\ [][Enqueues \/ Dispatches \/ Succeeds]_vars

\* anchor-dispatch-queue-policy.ts:88 refuses a command because "a
\* cancellation is queued or executing, wait for it to complete": then one is
\* queued, or an agent has it.
RefusalIsTrue ==
  \A r \in Requirements :
    reqStatus[r] = "active" /\ (\E i \in RowIds : ActiveCancel(i, r)) =>
      \E i \in RowIds :
        /\ ActiveCancel(i, r)
        /\ rows[i].status = "pending" \/ \E e \in running : e.row = i

-----------------------------------------------------------------------------
DrainSpec == Init /\ [][Enqueues \/ Drains \/ Releases \/ WorkerStep]_vars

\* anchor-dispatch-worker.spec.ts:204, "marks failed dispatches [...] without
\* retrying": a row that failed stays failed.
FailedIsFinal ==
  [][\A i \in RowIds : rows[i].status = "failed" => rows'[i].status = "failed"]_vars

-----------------------------------------------------------------------------
ShrinkSpec == Init /\ [][Enqueues \/ Shrinks]_vars

\* slot-topology-resize-contract.md:60-65: when shrink removes the tail slot,
\* its binding is idle, no row waits or runs on it, no job runs in it.
ShrinkTakesClearTail == [][slotCount' < slotCount => TailClear(slotCount)]_vars

-----------------------------------------------------------------------------
OutcomeSpec == Init /\ [][Enqueues \/ Dispatches \/ Succeeds \/ Reconciles]_vars

\* slot-binding.service.spec.ts:347, the reconciliation of a cancelled
\* requirement "does not release busy slots before the current job yields".
KeptUntilJobYields ==
  [][\A p \in Procs, e \in running :
       /\ act[p].at = "free" /\ act[p].slot = e.slot
       /\ rows[e.row].req = act[p].req
       /\ rows[e.row].status = "submitted"
       => holder'[e.slot] = holder[e.slot]]_vars
=============================================================================
