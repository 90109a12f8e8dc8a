---------------------------- MODULE SlotDispatch ----------------------------
(***************************************************************************)
(* How work reaches a slot's agent: JobSlotRouter puts commands into        *)
(* anchor_dispatch_queue, claiming a slot for their requirement; the drain  *)
(* loop gives slots to rows queued without one; the dispatch worker submits *)
(* the rows to the project's ccbd; routes, outcome hooks, index scans and   *)
(* the stale detector change bindings and rows behind their backs.          *)
(*                                                                         *)
(* Every await of the code is a point where the others may run, so each     *)
(* process (an HTTP request, a drain tick, a scan, a hook) is a sequence of *)
(* steps, one per transaction or statement that reads or writes shared      *)
(* state; what it read earlier it keeps in its own record.  The worker is   *)
(* one loop and has variables of its own.                                   *)
(***************************************************************************)
EXTENDS SlotBinding, FiniteSets

CONSTANTS
  Procs,      \* concurrent requests, ticks, scans and hook deliveries
  MaxRows,    \* bound on the rows one behaviour records
  BatchSize   \* rows a tick or the worker takes at once

ASSUME DispatchAssumption ==
  /\ MaxRows \in Nat \ {0}
  /\ BatchSize \in Nat \ {0}

RowIds == 1..MaxRows
Commands == {"work", "cancel", "reactivate"}
RowStatuses ==
  {"absent", "pending", "submitted", "failed", "superseded", "cancelled"}

Rows == [req : Requirements \union {NoReq}, cmd : Commands,
         slot : 0..MaxSlots, status : RowStatuses]
NoRow == [req |-> NoReq, cmd |-> "work", slot |-> NoSlot, status |-> "absent"]

Entries == [row : RowIds, slot : Slots]  \* a row as the worker read it
Outcomes == [req : Requirements, cancels : BOOLEAN]

Idle == [at |-> "idle", req |-> NoReq, cmd |-> "work",
         slot |-> NoSlot, batch |-> {}]

Steps == {"idle", "claim", "record", "tick", "tickClaim", "tickAssign",
          "release", "forceRelease", "cancelRow", "markBound", "resume",
          "markBusy", "reconcile", "supersede", "readBinding", "free", "stale",
          "shrink", "shrunk", "grow", "grown"}
Resizing == {"shrink", "shrunk", "grow", "grown"}

Doings == [at : Steps, req : Requirements \union {NoReq}, cmd : Commands,
           slot : 0..MaxSlots, batch : SUBSET RowIds]

VARIABLES
  reqStatus,  \* whether each requirement's status is cancelled
  rows,       \* anchor_dispatch_queue, oldest row first
  running,    \* the rows whose jobs agents hold, and the slots they run in
  resumed,    \* the slots whose agents hold a job of the resume route
  journal,    \* the outcomes in the project's event journal file
  act,        \* what each process is doing and what it has read
  worker      \* what the dispatch worker is doing and the rows it has read

queueVars == <<reqStatus, rows>>
agentVars == <<running, resumed, journal>>
vars == <<slotCount, bindingVars, queueVars, agentVars, act, worker>>

TypeOK ==
  /\ BindingTypeOK
  /\ reqStatus \in [Requirements -> {"active", "cancelled"}]
  /\ rows \in [RowIds -> Rows]
  /\ running \in SUBSET Entries
  /\ resumed \in SUBSET Slots
  /\ journal \in SUBSET Outcomes
  /\ act \in [Procs -> Doings]
  /\ worker \in [at : {"poll", "check", "submit", "commit", "fail"},
                 batch : SUBSET Entries]

Init ==
  /\ slotCount \in Slots
  /\ BindingInit
  /\ reqStatus = [r \in Requirements |-> "active"]
  /\ rows = [i \in RowIds |-> NoRow]
  /\ running = {}
  /\ resumed = {}
  /\ journal = {}
  /\ act = [p \in Procs |-> Idle]
  /\ worker = [at |-> "poll", batch |-> {}]

-----------------------------------------------------------------------------
\* The topology lock (ConfigLock): the worker holds it while it submits, a
\* resize while it works.  Everybody else only waits for it to be free.
LockFree == worker.at # "commit" /\ \A p \in Procs : act[p].at \notin Resizing

ActiveCancel(i, r) ==
  /\ rows[i].req = r
  /\ rows[i].cmd = "cancel"
  /\ rows[i].status \in {"pending", "submitted"}

\* enforceRequirementDispatchQueuePolicy
PolicyAllows(r, cmd) ==
  IF reqStatus[r] = "cancelled" THEN cmd # "work"
                                ELSE ~ \E i \in RowIds : ActiveCancel(i, r)

\* Mutant of Superseded: a queued reactivation is not thought of.
SupersededWork(r) ==
  [i \in RowIds |->
     IF /\ rows[i].req = r
        /\ rows[i].status = "pending"
        /\ rows[i].cmd = "work"
     THEN [rows[i] EXCEPT !.status = "superseded"]
     ELSE rows[i]]

\* supersedePendingRequirementDispatches
Superseded(r) ==
  [i \in RowIds |->
     IF /\ rows[i].req = r
        /\ rows[i].status = "pending"
        /\ rows[i].cmd # "cancel"
     THEN [rows[i] EXCEPT !.status = "superseded"]
     ELSE rows[i]]

Unassigned(i) == rows[i].status = "pending" /\ rows[i].slot = NoSlot
Assigned(i) == rows[i].status = "pending" /\ rows[i].slot # NoSlot

Oldest(S) == {i \in S : Cardinality({j \in S : j < i}) < BatchSize}
First(i, S) == i \in S /\ \A j \in S : i <= j

Become(p, rec) == act' = [act EXCEPT ![p] = rec]

-----------------------------------------------------------------------------
\* The bound MaxRows: no request starts that could not record its row.
RoomForRow ==
  Cardinality({p \in Procs : act[p].at \in {"claim", "record"}})
    < Cardinality({i \in RowIds : rows[i].status = "absent"})

(* JobSlotRouter.enqueue: wait for the lock, check the policy, claim a slot  *)
(* (and wait for its context reset), then check the policy again and record  *)
(* the row in one transaction.                                               *)
EnqueueStart(p, r, cmd) ==
  /\ act[p] = Idle
  /\ RoomForRow
  /\ LockFree
  /\ PolicyAllows(r, cmd)
  /\ Become(p, [Idle EXCEPT !.at = "claim", !.req = r, !.cmd = cmd])
  /\ UNCHANGED <<slotCount, bindingVars, queueVars, agentVars, worker>>

Claim(p) ==
  /\ act[p].at = "claim"
  /\ \E s \in 0..MaxSlots :
       /\ Bind(act[p].req, s)
       /\ Become(p, [act[p] EXCEPT !.at = "record", !.slot = s])
  /\ UNCHANGED <<slotCount, queueVars, agentVars, worker>>

NewRow(i) ==
  /\ rows[i].status = "absent"
  /\ \A j \in RowIds : rows[j].status = "absent" => i <= j

\* Mutant of Record: the policy is not checked again in the transaction.
RecordUnchecked(p) ==
  LET a == act[p]
      kept == IF a.cmd = "cancel" THEN Superseded(a.req) ELSE rows
  IN  /\ a.at = "record"
      /\ \E i \in RowIds :
           /\ NewRow(i)
           /\ rows' = [kept EXCEPT ![i] =
                [req |-> a.req, cmd |-> a.cmd, slot |-> a.slot,
                 status |-> "pending"]]
      /\ Become(p, Idle)
      /\ UNCHANGED <<slotCount, bindingVars, reqStatus, agentVars, worker>>

Record(p) ==
  LET a == act[p]
      kept == IF a.cmd = "cancel" THEN Superseded(a.req) ELSE rows
  IN  /\ a.at = "record"
      /\ IF PolicyAllows(a.req, a.cmd)
         THEN \E i \in RowIds :
                /\ NewRow(i)
                /\ rows' = [kept EXCEPT ![i] =
                     [req |-> a.req, cmd |-> a.cmd, slot |-> a.slot,
                      status |-> "pending"]]
         ELSE UNCHANGED rows
      /\ Become(p, Idle)
      /\ UNCHANGED <<slotCount, bindingVars, reqStatus, agentVars, worker>>

\* bind-slot and the planning start: bindRequirement after the lock was free.
BindManually(r) ==
  /\ LockFree
  /\ \E s \in Slots : Bind(r, s)
  /\ UNCHANGED <<slotCount, queueVars, agentVars, act, worker>>

-----------------------------------------------------------------------------
(* JobSlotRouter.tick: the oldest rows without a slot, one after the other.  *)
(* Nothing keeps two ticks apart.                                            *)
TickStart(p) ==
  /\ act[p].at \in {"idle", "tick"}
  /\ LockFree
  /\ LET found == Oldest({i \in RowIds : Unassigned(i)})
     IN  Become(p, IF found = {} THEN Idle
                   ELSE [Idle EXCEPT !.at = "tickClaim", !.batch = found])
  /\ UNCHANGED <<slotCount, bindingVars, queueVars, agentVars, worker>>

\* The wait for the lock times out; after a release the error is only logged.
TickTimesOut(p) ==
  /\ act[p].at = "tick"
  /\ ~LockFree
  /\ Become(p, Idle)
  /\ UNCHANGED <<slotCount, bindingVars, queueVars, agentVars, worker>>

\* Mutant of AfterRow: the tick asks for a row's slot until it gets one.
SameRowAgain(p, i) == [Idle EXCEPT !.at = "tickClaim", !.batch = act[p].batch]

\* The tick goes on without row i, or ends.
AfterRow(p, i) ==
  LET left == act[p].batch \ {i}
  IN  IF left = {} THEN Idle
      ELSE [Idle EXCEPT !.at = "tickClaim", !.batch = left]

TickClaim(p) ==
  /\ act[p].at = "tickClaim"
  /\ \E i \in RowIds, s \in 0..MaxSlots :
       /\ First(i, act[p].batch)
       /\ Bind(rows[i].req, s)
       /\ IF s = NoSlot \/ state[s] = "unhealthy"
          THEN Become(p, AfterRow(p, i))
          ELSE Become(p, [act[p] EXCEPT !.at = "tickAssign", !.slot = s])
  /\ UNCHANGED <<slotCount, queueVars, agentVars, worker>>

\* The row is written by its id, whatever has become of it since it was read.
TickAssign(p) ==
  /\ act[p].at = "tickAssign"
  /\ \E i \in RowIds :
       /\ First(i, act[p].batch)
       /\ rows' = [rows EXCEPT ![i].slot = act[p].slot,
                               ![i].status = "pending"]
       /\ Become(p, AfterRow(p, i))
  /\ UNCHANGED <<slotCount, bindingVars, reqStatus, agentVars, worker>>

-----------------------------------------------------------------------------
(* The dispatch worker: reads the oldest rows that have a slot, then handles *)
(* what it read row by row.                                                  *)
WorkerPoll ==
  LET found == Oldest({i \in RowIds : Assigned(i)})
  IN  /\ worker.at = "poll"
      /\ found # {}
      /\ worker' = [at |-> "check",
                    batch |-> {[row |-> i, slot |-> rows[i].slot] : i \in found}]
      /\ UNCHANGED <<slotCount, bindingVars, queueVars, agentVars, act>>

Current(e) == e \in worker.batch /\ \A f \in worker.batch : e.row <= f.row

WorkerGoes(at) == worker' = [worker EXCEPT !.at = at]

WorkerNext(e) ==
  LET left == worker.batch \ {e}
  IN  worker' = [at |-> IF left = {} THEN "poll" ELSE "check", batch |-> left]

\* The project is read, and the slot checked against it, before the lock.
WorkerCheck(e) ==
  /\ worker.at = "check"
  /\ Current(e)
  /\ WorkerGoes(IF e.slot <= slotCount THEN "submit" ELSE "fail")
  /\ UNCHANGED <<slotCount, bindingVars, queueVars, agentVars, act>>

\* Under the lock: ccbd takes the job for the slot's agent.
WorkerSubmit(e) ==
  /\ worker.at = "submit"
  /\ Current(e)
  /\ LockFree
  /\ running' = running \union {e}
  /\ WorkerGoes("commit")
  /\ UNCHANGED <<slotCount, bindingVars, queueVars, resumed, journal, act>>

\* The wait for the lock times out, or the submission fails, possibly after
\* ccbd has taken the job.
WorkerCannotSubmit(e) ==
  /\ worker.at = "submit"
  /\ Current(e)
  /\ \/ UNCHANGED running
     \/ LockFree /\ running' = running \union {e}
  /\ WorkerGoes("fail")
  /\ UNCHANGED <<slotCount, bindingVars, queueVars, resumed, journal, act>>

WorkerCommit(e) ==
  /\ worker.at = "commit"
  /\ Current(e)
  /\ rows' = [rows EXCEPT ![e.row].status = "submitted"]
  /\ Mark(e.slot, "busy")
  /\ WorkerNext(e)
  /\ UNCHANGED <<slotCount, reqStatus, agentVars, act>>

\* Mutant of WorkerFail: a failure leaves the row for the next round.
WorkerRetries(e) ==
  /\ worker.at = "fail"
  /\ Current(e)
  /\ WorkerNext(e)
  /\ UNCHANGED <<slotCount, bindingVars, queueVars, agentVars, act>>

\* recordAnchorDispatchFailure
WorkerFail(e) ==
  /\ worker.at = "fail"
  /\ Current(e)
  /\ rows' = [rows EXCEPT ![e.row].status = "failed"]
  /\ WorkerNext(e)
  /\ UNCHANGED <<slotCount, bindingVars, reqStatus, agentVars, act>>

-----------------------------------------------------------------------------
(* The agents (external).  A job that does what its command says sets the    *)
(* requirement's status and leaves an outcome in the journal; a job that is  *)
(* killed or gives up leaves neither.                                        *)
AgentFinishes(e, succeeds) ==
  LET row == rows[e.row]
  IN  /\ e \in running
      /\ running' = running \ {e}
      /\ journal' = IF succeeds
           THEN journal \union {[req |-> row.req, cancels |-> row.cmd = "cancel"]}
           ELSE journal
      /\ reqStatus' = [reqStatus EXCEPT ![row.req] =
           IF ~succeeds \/ row.cmd = "work" THEN @
           ELSE IF row.cmd = "cancel" THEN "cancelled" ELSE "active"]
      /\ UNCHANGED <<slotCount, bindingVars, rows, resumed, act, worker>>

\* A job of the resume route reads the user's intent and ends; it belongs to
\* no row and, as far as the console knows, leaves no outcome.
ResumedFinishes(s) ==
  /\ s \in resumed
  /\ resumed' = resumed \ {s}
  /\ UNCHANGED <<slotCount, bindingVars, queueVars, running, journal, act, worker>>

\* updateSlotActivityForCapabilityOutcome, called by the hook route and, for
\* every outcome the journal file holds, by every scan of the project.
OutcomeArrives(p, o) ==
  /\ act[p] = Idle
  /\ o \in journal
  /\ Activity(o.req)
  /\ Become(p, IF o.cancels THEN [Idle EXCEPT !.at = "reconcile", !.req = o.req]
                            ELSE Idle)
  /\ UNCHANGED <<slotCount, queueVars, agentVars, worker>>

\* reconcileCancelledRequirementProjection, also called by every reindex.
ReconcileStatus(p, r) ==
  /\ act[p] \in {Idle, [Idle EXCEPT !.at = "reconcile", !.req = r]}
  /\ Become(p, IF reqStatus[r] = "cancelled"
               THEN [Idle EXCEPT !.at = "supersede", !.req = r] ELSE Idle)
  /\ UNCHANGED <<slotCount, bindingVars, queueVars, agentVars, worker>>

Supersede(p) ==
  /\ act[p].at = "supersede"
  /\ rows' = Superseded(act[p].req)
  /\ Become(p, [act[p] EXCEPT !.at = "readBinding"])
  /\ UNCHANGED <<slotCount, bindingVars, reqStatus, agentVars, worker>>

\* The binding as it is now; a busy slot, or one outside the topology, stays.
ReadBinding(p) ==
  /\ act[p].at = "readBinding"
  /\ \/ \E s \in 1..slotCount :
          /\ HeldBy(act[p].req, s)
          /\ state[s] # "busy"
          /\ Become(p, [act[p] EXCEPT !.at = "free", !.slot = s])
     \/ /\ \A s \in 1..slotCount : HeldBy(act[p].req, s) => state[s] = "busy"
        /\ Become(p, Idle)
  /\ UNCHANGED <<slotCount, bindingVars, queueVars, agentVars, worker>>

FreeCancelled(p) ==
  /\ act[p].at = "free"
  /\ Free(act[p].slot)
  /\ Become(p, Idle)
  /\ UNCHANGED <<slotCount, queueVars, agentVars, worker>>

-----------------------------------------------------------------------------
(* The release route: read the binding, refuse a busy slot unless forced,    *)
(* wait for the context reset, free the slot, run a tick.                    *)
ReleaseStart(p, s, force) ==
  /\ act[p] = Idle
  /\ s \in 1..slotCount
  /\ state[s] = "busy" => force
  /\ Become(p, [Idle EXCEPT !.at = IF force THEN "forceRelease" ELSE "release",
                            !.slot = s])
  /\ UNCHANGED <<slotCount, bindingVars, queueVars, agentVars, worker>>

Release(p) ==
  /\ act[p].at \in {"release", "forceRelease"}
  /\ Free(act[p].slot)
  /\ Become(p, [Idle EXCEPT !.at = "tick"])
  /\ UNCHANGED <<slotCount, queueVars, agentVars, worker>>

\* ccbd stops a job or does not know it.
MayStop(jobs) == running' = running \/ \E e \in jobs : running' = running \ {e}

(* cancel-current-job: a submitted row of the slot, ccbd's cancel (which is  *)
(* given the console's job id, not ccbd's), the row, then the slot.  Which   *)
(* submitted row is the latest is not tracked: any of them may be.           *)
CancelJobStart(p, i) ==
  /\ act[p] = Idle
  /\ rows[i].status = "submitted"
  /\ rows[i].slot \in 1..slotCount
  /\ MayStop({e \in running : e.row = i})
  /\ Become(p, [Idle EXCEPT !.at = "cancelRow", !.slot = rows[i].slot,
                            !.batch = {i}])
  /\ UNCHANGED <<slotCount, bindingVars, queueVars, resumed, journal, worker>>

CancelRow(p) ==
  /\ act[p].at = "cancelRow"
  /\ rows' = [i \in RowIds |->
       IF i \in act[p].batch THEN [rows[i] EXCEPT !.status = "cancelled"]
                             ELSE rows[i]]
  /\ Become(p, [Idle EXCEPT !.at = "markBound", !.slot = act[p].slot])
  /\ UNCHANGED <<slotCount, bindingVars, reqStatus, agentVars, worker>>

\* stop-and-append: read the task's slot, stop the job the user names, then
\* write the slot.
StopStart(p, s) ==
  /\ act[p] = Idle
  /\ holder[s] # NoReq
  /\ \/ MayStop({e \in running : e.slot = s}) /\ UNCHANGED resumed
     \/ resumed' = resumed \ {s} /\ UNCHANGED running
  /\ Become(p, [Idle EXCEPT !.at = "markBound", !.slot = s])
  /\ UNCHANGED <<slotCount, bindingVars, queueVars, journal, worker>>

(* resume: read the task's slot, submit su-resume to its agent, then write   *)
(* the slot.  Nothing of it waits for the lock: whatever happens to the slot *)
(* between the steps, the job goes to its agent.                             *)
ResumeStart(p, s) ==
  /\ act[p] = Idle
  /\ holder[s] # NoReq
  /\ Become(p, [Idle EXCEPT !.at = "resume", !.slot = s])
  /\ UNCHANGED <<slotCount, bindingVars, queueVars, agentVars, worker>>

\* A submission that fails may have reached ccbd; the slot stays as it is.
ResumeSubmit(p) ==
  LET s == act[p].slot
  IN  /\ act[p].at = "resume"
      /\ \/ /\ resumed' = resumed \union {s}
            /\ Become(p, [Idle EXCEPT !.at = "markBusy", !.slot = s])
         \/ /\ resumed' \in {resumed, resumed \union {s}}
            /\ Become(p, Idle)
      /\ UNCHANGED <<slotCount, bindingVars, queueVars, running, journal, worker>>

\* SlotStaleDetector.runOnce: read a slot busy for too long, then write it.
StaleScan(p, s) ==
  /\ act[p] = Idle
  /\ state[s] = "busy" /\ holder[s] # NoReq
  /\ Become(p, [Idle EXCEPT !.at = "stale", !.slot = s])
  /\ UNCHANGED <<slotCount, bindingVars, queueVars, agentVars, worker>>

MarkedAs ==
  [markBound |-> "bound", markBusy |-> "busy", stale |-> "unhealthy"]

MarkSlot(p) ==
  /\ act[p].at \in DOMAIN MarkedAs
  /\ Mark(act[p].slot, MarkedAs[act[p].at])
  /\ Become(p, Idle)
  /\ UNCHANGED <<slotCount, queueVars, agentVars, worker>>

-----------------------------------------------------------------------------
(* The topology.  A resize holds the lock; what it does to the configuration *)
(* file and the runtime, and which of that fails, is SlotResize's matter.    *)
TailClear(s) ==
  /\ state[s] = "idle" /\ holder[s] = NoReq
  /\ \A i \in RowIds : rows[i].slot = s =>
       rows[i].status \notin {"pending", "submitted"}
  /\ s \notin resumed /\ \A e \in running : e.slot # s

ShrinkInspect(p) ==
  /\ act[p] = Idle
  /\ LockFree
  /\ slotCount > 1
  /\ TailClear(slotCount)
  /\ Become(p, [Idle EXCEPT !.at = "shrink"])
  /\ UNCHANGED <<slotCount, bindingVars, queueVars, agentVars, worker>>

\* The count is written, or the write fails.
Shrink(p) ==
  /\ act[p].at = "shrink"
  /\ \/ slotCount' = slotCount - 1 /\ Become(p, [Idle EXCEPT !.at = "shrunk"])
     \/ UNCHANGED slotCount /\ Become(p, Idle)
  /\ UNCHANGED <<bindingVars, queueVars, agentVars, worker>>

\* File and runtime follow, or restoreProject writes the old count again.
ShrinkEnds(p) ==
  /\ act[p].at = "shrunk"
  /\ slotCount' \in {slotCount, slotCount + 1}
  /\ Become(p, Idle)
  /\ UNCHANGED <<bindingVars, queueVars, agentVars, worker>>

\* Mutant of GrowStart: the maximum is not checked.
GrowPastMaximum(p) ==
  /\ act[p] = Idle
  /\ LockFree
  /\ Become(p, [Idle EXCEPT !.at = "grow"])
  /\ UNCHANGED <<slotCount, bindingVars, queueVars, agentVars, worker>>

GrowStart(p) ==
  /\ act[p] = Idle
  /\ LockFree
  /\ slotCount < MaxSlots
  /\ Become(p, [Idle EXCEPT !.at = "grow"])
  /\ UNCHANGED <<slotCount, bindingVars, queueVars, agentVars, worker>>

\* The count is written once file and runtime have the slot, or one of them
\* failed and the count stays.
Grow(p) ==
  /\ act[p].at = "grow"
  /\ \/ slotCount' = slotCount + 1 /\ Become(p, [Idle EXCEPT !.at = "grown"])
     \/ UNCHANGED slotCount /\ Become(p, Idle)
  /\ UNCHANGED <<bindingVars, queueVars, agentVars, worker>>

\* The wait for the new slot to become active, still under the lock, is over.
GrowEnds(p) ==
  /\ act[p].at = "grown"
  /\ Become(p, Idle)
  /\ UNCHANGED <<slotCount, bindingVars, queueVars, agentVars, worker>>

\* The server stops and starts again: what is in memory is gone, the database
\* and the agents' jobs are not.
Crash ==
  /\ act' = [p \in Procs |-> Idle]
  /\ worker' = [at |-> "poll", batch |-> {}]
  /\ UNCHANGED <<slotCount, bindingVars, queueVars, agentVars>>

-----------------------------------------------------------------------------
\* What the outside world starts, and what the code then carries through.
Starts(p) ==
  \/ \E r \in Requirements, cmd \in Commands : EnqueueStart(p, r, cmd)
  \/ \E o \in journal : OutcomeArrives(p, o)
  \/ \E s \in Slots, force \in BOOLEAN : ReleaseStart(p, s, force)
  \/ \E i \in RowIds : CancelJobStart(p, i)
  \/ \E s \in Slots : StopStart(p, s) \/ ResumeStart(p, s) \/ StaleScan(p, s)
  \/ ShrinkInspect(p) \/ GrowStart(p)

RouterStep(p) ==
  \/ Claim(p) \/ Record(p)
  \/ TickStart(p) \/ TickTimesOut(p) \/ TickClaim(p) \/ TickAssign(p)

ReconcileStep(p) ==
  \/ \E r \in Requirements : ReconcileStatus(p, r)
  \/ Supersede(p) \/ ReadBinding(p) \/ FreeCancelled(p)

RouteStep(p) == Release(p) \/ CancelRow(p) \/ ResumeSubmit(p) \/ MarkSlot(p)

ResizeStep(p) == Shrink(p) \/ ShrinkEnds(p) \/ Grow(p) \/ GrowEnds(p)

WorkerStep ==
  \/ WorkerPoll
  \/ \E e \in worker.batch :
       \/ WorkerCheck(e) \/ WorkerSubmit(e) \/ WorkerCannotSubmit(e)
       \/ WorkerCommit(e) \/ WorkerFail(e)

AgentStep ==
  \/ \E e \in running, succeeds \in BOOLEAN : AgentFinishes(e, succeeds)
  \/ \E s \in resumed : ResumedFinishes(s)

Next ==
  \/ \E p \in Procs :
       \/ Starts(p) \/ RouterStep(p) \/ ReconcileStep(p)
       \/ RouteStep(p) \/ ResizeStep(p)
  \/ WorkerStep
  \/ AgentStep
  \/ \E r \in Requirements : BindManually(r)
  \/ Crash

Spec == Init /\ [][Next]_vars

\* The event loop runs every continuation, the worker loop never ends, the
\* drain loop starts a tick every half second, and the server does not crash
\* for ever.  Nobody owes a request, and no agent owes an answer.
Fairness ==
  /\ WF_vars(WorkerStep)
  /\ \A p \in Procs :
       WF_vars(/\ act[p] # Idle
               /\ \/ RouterStep(p) \/ ReconcileStep(p)
                  \/ RouteStep(p) \/ ResizeStep(p))
  /\ <>[][~Crash]_vars

FairSpec == Spec /\ Fairness

-----------------------------------------------------------------------------
\* A requirement never holds two slots: its commands would go to two agents.
\* bindRequirement looks for the binding again in its transaction for this.
OneSlotPerRequirement ==
  \A s, t \in Slots : holder[s] # NoReq /\ holder[s] = holder[t] => s = t

\* A slot that counts as free is nobody's: bindRequirement would otherwise
\* take it from the requirement whose work is in it.
FreeSlotIsNobodys == \A s \in Slots : state[s] = "idle" => holder[s] = NoReq

RecordsRow(i) == rows[i].status = "absent" /\ rows'[i].status # "absent"

\* No command is recorded behind a cancellation that is still queued or
\* submitted, nor work for a requirement that is cancelled, however long ago
\* the request asked whether it may: two requests that both passed the first
\* check of the policy are told apart by the second.
NothingBehindCancel ==
  [][\A i \in RowIds : RecordsRow(i) =>
       LET r == rows'[i].req
       IN  \/ reqStatus[r] = "cancelled" /\ rows'[i].cmd # "work"
           \/ /\ reqStatus[r] = "active"
              /\ \A j \in RowIds : ~ActiveCancel(j, r)]_vars

\* A cancellation that enters the queue leaves no earlier command of its
\* requirement waiting there.
CancelClearsQueue ==
  [][\A i, j \in RowIds :
       /\ RecordsRow(i) /\ rows'[i].cmd = "cancel"
       /\ rows'[j].req = rows'[i].req
       /\ rows'[j].status = "pending"
       => rows'[j].cmd = "cancel"]_vars

\* The slot table, seen without its states, is the abstract pool: no slot
\* passes from one requirement to another without having been free.
Pool == INSTANCE SlotPool

ImplementsSlotPool == Pool!Spec

\* A row that has a slot is submitted, or ends in another way: the worker's
\* loop reaches it, whatever fails on the way, and also after a restart.
AssignedRowIsHandled ==
  \A i \in RowIds : Assigned(i) ~> rows[i].status # "pending"

\* Every request, tick, scan and hook delivery ends.
EveryRequestEnds == \A p \in Procs : act[p] # Idle ~> act[p] = Idle
=============================================================================
