------------------------- MODULE SlotDispatchProofs -------------------------
(***************************************************************************)
(* SlotDispatch, for every number of requirements, slots, rows, processes   *)
(* and every batch size: its types, that a requirement never holds two      *)
(* slots, that a free slot is nobody's, and that the slot table implements  *)
(* the abstract pool.                                                       *)
(*                                                                         *)
(* The inductive invariant has two parts.  TableInv is about the slot table *)
(* alone: bindRequirement keeps it because it looks for the requirement's   *)
(* slot in the same transaction that takes a free one, and the careless     *)
(* writers (mark, release) keep it because none makes a slot idle without   *)
(* clearing its requirement.  QueueInv is about what processes have read:   *)
(* they handle only rows that were recorded, so that every slot and         *)
(* requirement they write to the table is one.                              *)
(***************************************************************************)
EXTENDS SlotDispatch, TLAPS

TableTypeOK ==
  /\ holder \in [Slots -> Requirements \union {NoReq}]
  /\ state \in [Slots -> SlotStates]

TableInv == TableTypeOK /\ FreeSlotIsNobodys /\ OneSlotPerRequirement

\* What the steps rely on: a row that is handled was recorded, and a process
\* has in hand the requirement or the slot its next step writes.
Recorded(i) == rows[i].status # "absent" /\ rows[i].req \in Requirements

HasArguments(a) ==
  /\ a.at \in {"claim", "record", "reconcile", "supersede", "readBinding", "free"}
       => a.req \in Requirements
  /\ a.at \in {"tickAssign", "release", "forceRelease", "cancelRow",
               "markBound", "resume", "markBusy", "free", "stale"}
       => a.slot \in Slots

RowsInv ==
  /\ rows \in [RowIds -> Rows]
  /\ \A i \in RowIds : rows[i].status # "absent" => Recorded(i)

ActsInv ==
  /\ act \in [Procs -> Doings]
  /\ \A p \in Procs : HasArguments(act[p])
  /\ \A p \in Procs : \A i \in act[p].batch : Recorded(i)

WorkerInv ==
  /\ worker \in [at : {"poll", "check", "submit", "commit", "fail"},
                 batch : SUBSET Entries]
  /\ \A e \in worker.batch : Recorded(e.row)

AgentsInv ==
  /\ running \in SUBSET Entries
  /\ \A e \in running : Recorded(e.row)
  /\ resumed \in SUBSET Slots
  /\ journal \in SUBSET Outcomes
  /\ reqStatus \in [Requirements -> {"active", "cancelled"}]

QueueInv == RowsInv /\ ActsInv /\ WorkerInv /\ AgentsInv

\* At most one resize is under way, and the count leaves room for its next
\* step: that is what the lock is for.
ResizeInv ==
  /\ slotCount \in Slots
  /\ \A p, q \in Procs :
       act[p].at \in Resizing /\ act[q].at \in Resizing => p = q
  /\ \A p \in Procs :
       /\ act[p].at = "shrink" => slotCount > 1
       /\ act[p].at \in {"shrunk", "grow"} => slotCount < MaxSlots

IInv == ResizeInv /\ TableInv /\ QueueInv

-----------------------------------------------------------------------------
(* The operations on the slot table.                                         *)

LEMMA BindKeepsTable ==
  ASSUME TableInv, slotCount \in Slots,
         NEW r \in Requirements, NEW s \in 0..MaxSlots, Bind(r, s)
  PROVE  TableInv' /\ [Pool!Next]_holder
<1> USE SlotAssumption DEF TableInv, TableTypeOK, SlotStates, Slots
<1>1. CASE UNCHANGED bindingVars
  BY <1>1 DEF bindingVars, FreeSlotIsNobodys, OneSlotPerRequirement
<1>2. CASE /\ ~ \E t \in Slots : HeldBy(r, t)
           /\ FirstFree(s)
           /\ holder' = [holder EXCEPT ![s] = r]
           /\ state' = [state EXCEPT ![s] = "bound"]
  <2>1. s \in Slots /\ state[s] = "idle" /\ holder[s] = NoReq
    BY <1>2 DEF FirstFree, FreeSlotIsNobodys
  <2>2. \A t \in Slots : holder[t] # r
    BY <1>2 DEF HeldBy
  <2>3. TableTypeOK'
    BY <1>2, <2>1
  <2>4. FreeSlotIsNobodys'
    BY <1>2, <2>1 DEF FreeSlotIsNobodys
  <2>5. OneSlotPerRequirement'
    BY <1>2, <2>1, <2>2 DEF OneSlotPerRequirement
  <2>6. Pool!Claim(r, s)
    BY <1>2, <2>1, <2>2 DEF Pool!Claim
  <2> QED
    BY <2>1, <2>3, <2>4, <2>5, <2>6 DEF Pool!Next
<1> QED
  BY <1>1, <1>2 DEF Bind

LEMMA MarkKeepsTable ==
  ASSUME TableInv, NEW s \in Slots,
         NEW st \in {"bound", "busy", "unhealthy"}, Mark(s, st)
  PROVE  TableInv' /\ [Pool!Next]_holder
BY DEF TableInv, TableTypeOK, Mark, SlotStates, FreeSlotIsNobodys,
       OneSlotPerRequirement

LEMMA FreeKeepsTable ==
  ASSUME TableInv, NEW s \in Slots, Free(s)
  PROVE  TableInv' /\ [Pool!Next]_holder
<1> USE SlotAssumption DEF TableInv, TableTypeOK, Free
<1>1. TableTypeOK'
  BY DEF SlotStates
<1>2. FreeSlotIsNobodys'
  BY DEF FreeSlotIsNobodys
<1>3. OneSlotPerRequirement'
  BY DEF OneSlotPerRequirement
<1>4. [Pool!Next]_holder
  <2>1. CASE holder[s] = NoReq
    BY <2>1
  <2>2. CASE holder[s] # NoReq
    BY <2>2 DEF Pool!Next, Pool!Release
  <2> QED
    BY <2>1, <2>2
<1> QED
  BY <1>1, <1>2, <1>3, <1>4

LEMMA ActivityKeepsTable ==
  ASSUME TableInv, NEW r \in Requirements, Activity(r)
  PROVE  TableInv' /\ [Pool!Next]_holder
BY DEF TableInv, TableTypeOK, Activity, SlotStates, FreeSlotIsNobodys,
       OneSlotPerRequirement

LEMMA NoChangeKeepsTable ==
  ASSUME TableInv, UNCHANGED bindingVars
  PROVE  TableInv' /\ [Pool!Next]_holder
BY DEF TableInv, TableTypeOK, bindingVars, FreeSlotIsNobodys,
       OneSlotPerRequirement

-----------------------------------------------------------------------------
(* The queue, and what processes know of it.  A recorded row stays recorded, *)
(* so what was read of it earlier is still of use.                           *)

RowsStayRecorded == \A i \in RowIds : Recorded(i) => Recorded(i)'

LEMMA RowsUnchanged ==
  ASSUME RowsInv, UNCHANGED rows
  PROVE  RowsInv' /\ RowsStayRecorded
BY DEF RowsInv, Recorded, RowsStayRecorded

\* A row that has been recorded may change its slot and its status.
LEMMA RowRewritten ==
  ASSUME RowsInv, NEW i \in RowIds, Recorded(i),
         NEW slot \in 0..MaxSlots, NEW status \in RowStatuses \ {"absent"},
         rows' = [rows EXCEPT ![i].slot = slot, ![i].status = status]
  PROVE  RowsInv' /\ RowsStayRecorded
BY DEF RowsInv, Recorded, RowsStayRecorded, Rows

LEMMA RowStatusRewritten ==
  ASSUME RowsInv, NEW i \in RowIds, Recorded(i),
         NEW status \in RowStatuses \ {"absent"},
         rows' = [rows EXCEPT ![i].status = status]
  PROVE  RowsInv' /\ RowsStayRecorded
BY DEF RowsInv, Recorded, RowsStayRecorded, Rows

LEMMA SupersededRows ==
  ASSUME RowsInv, NEW r
  PROVE  /\ Superseded(r) \in [RowIds -> Rows]
         /\ \A i \in RowIds : /\ Superseded(r)[i].req = rows[i].req
                              /\ Superseded(r)[i].status = "absent"
                                   <=> rows[i].status = "absent"
BY DEF RowsInv, Superseded, Rows, RowStatuses

LEMMA ActsFollow ==
  ASSUME ActsInv, RowsStayRecorded,
         NEW p \in Procs, NEW rec \in Doings, Become(p, rec),
         HasArguments(rec), \A i \in rec.batch : Recorded(i)
  PROVE  ActsInv'
<1>1. act' \in [Procs -> Doings]
  BY DEF ActsInv, Become
<1>2. \A q \in Procs : act'[q] = act[q] \/ act'[q] = rec
  BY DEF ActsInv, Become
<1>3. \A q \in Procs : HasArguments(act'[q])
  BY <1>2 DEF ActsInv
<1>4. \A q \in Procs : \A i \in act'[q].batch : i \in RowIds /\ Recorded(i)
  BY <1>2 DEF ActsInv, Doings
<1> QED
  BY <1>1, <1>3, <1>4 DEF ActsInv, RowsStayRecorded, HasArguments

LEMMA ActsStay ==
  ASSUME ActsInv, RowsStayRecorded, UNCHANGED act
  PROVE  ActsInv'
BY DEF ActsInv, RowsStayRecorded, HasArguments, Doings

LEMMA WorkerStays ==
  ASSUME WorkerInv, RowsStayRecorded, UNCHANGED worker
  PROVE  WorkerInv'
BY DEF WorkerInv, RowsStayRecorded, Entries

LEMMA AgentsStay ==
  ASSUME AgentsInv, RowsStayRecorded, UNCHANGED agentVars, UNCHANGED reqStatus
  PROVE  AgentsInv'
BY DEF AgentsInv, RowsStayRecorded, Entries, agentVars

\* What most steps leave alone.
LEMMA OnlyActs ==
  ASSUME QueueInv, UNCHANGED <<queueVars, agentVars, worker>>,
         NEW p \in Procs, NEW rec \in Doings, Become(p, rec),
         HasArguments(rec), \A i \in rec.batch : Recorded(i)
  PROVE  QueueInv'
<1>1. RowsInv' /\ RowsStayRecorded
  BY RowsUnchanged DEF QueueInv, queueVars
<1> QED
  BY <1>1, ActsFollow, WorkerStays, AgentsStay DEF QueueInv, queueVars

LEMMA NothingChanges ==
  ASSUME QueueInv, UNCHANGED <<queueVars, agentVars, act, worker>>
  PROVE  QueueInv'
<1>1. RowsInv' /\ RowsStayRecorded
  BY RowsUnchanged DEF QueueInv, queueVars
<1> QED
  BY <1>1, ActsStay, WorkerStays, AgentsStay DEF QueueInv, queueVars

LEMMA IdleIsDoing ==
  /\ Idle \in Doings
  /\ HasArguments(Idle)
  /\ Idle.batch = {}
  /\ Idle.at \notin Resizing
BY SlotAssumption
DEF Idle, Doings, Steps, Commands, HasArguments, NoSlot, Resizing

-----------------------------------------------------------------------------
(* The steps.  Each keeps the invariant and is a step of the pool or none.   *)

Keeps == IInv' /\ [Pool!Next]_holder

LEMMA ResizeFollows ==
  ASSUME ResizeInv, ActsInv, UNCHANGED slotCount,
         NEW p \in Procs, NEW rec, Become(p, rec), rec.at \notin Resizing
  PROVE  ResizeInv'
<1>1. \A q \in Procs : act'[q] = act[q] \/ act'[q].at \notin Resizing
  BY DEF ActsInv, Become
<1> QED
  BY <1>1 DEF ResizeInv, Slots, Resizing

\* A step in which one process goes on as rec, and writes the table, if at
\* all, by way of one of its operations.
LEMMA TableStepKeeps ==
  ASSUME IInv, TableInv', [Pool!Next]_holder,
         UNCHANGED <<slotCount, queueVars, agentVars, worker>>,
         NEW p \in Procs, NEW rec \in Doings, Become(p, rec),
         rec.at \notin Resizing, HasArguments(rec), \A i \in rec.batch : Recorded(i)
  PROVE  Keeps
<1>1. QueueInv'
  BY OnlyActs DEF IInv
<1>2. ResizeInv'
  BY ResizeFollows DEF IInv, QueueInv
<1> QED
  BY <1>1, <1>2 DEF IInv, Keeps

\* A step that changes no more than what one process is doing.
LEMMA OnlyActsKeeps ==
  ASSUME IInv, UNCHANGED <<slotCount, bindingVars, queueVars, agentVars, worker>>,
         NEW p \in Procs, NEW rec \in Doings, Become(p, rec),
         rec.at \notin Resizing, HasArguments(rec), \A i \in rec.batch : Recorded(i)
  PROVE  Keeps
BY NoChangeKeepsTable, TableStepKeeps DEF IInv

\* A step in which one process goes on as rec and leaves the table alone.
LEMMA QueueStepKeeps ==
  ASSUME IInv, RowsInv', RowsStayRecorded, AgentsInv',
         UNCHANGED <<slotCount, bindingVars, worker>>,
         NEW p \in Procs, NEW rec \in Doings, Become(p, rec),
         rec.at \notin Resizing, HasArguments(rec), \A i \in rec.batch : Recorded(i)
  PROVE  Keeps
<1>1. QueueInv'
  BY ActsFollow, WorkerStays DEF IInv, QueueInv
<1>2. ResizeInv'
  BY ResizeFollows DEF IInv, QueueInv
<1>3. TableInv' /\ [Pool!Next]_holder
  BY NoChangeKeepsTable DEF IInv
<1> QED
  BY <1>1, <1>2, <1>3 DEF IInv, Keeps

\* What a process that was idle may have in hand after its next step: a slot,
\* rows, a requirement, or nothing.
LEMMA HoldsSlot ==
  ASSUME NEW s \in Slots,
         NEW at \in {"release", "forceRelease", "markBound", "resume", "markBusy",
                   "stale"}
  PROVE  LET rec == [Idle EXCEPT !.at = at, !.slot = s]
         IN  rec \in Doings /\ HasArguments(rec) /\ rec.batch = {}
             /\ rec.at \notin Resizing
<1>1. s \in 0..MaxSlots
  BY SlotAssumption DEF Slots
<1>2. [Idle EXCEPT !.at = at, !.slot = s] \in Doings
  BY <1>1, IdleIsDoing DEF Doings, Steps
<1> QED
  BY <1>2 DEF Idle, HasArguments, Resizing

LEMMA HoldsRows ==
  ASSUME NEW batch \in SUBSET RowIds, NEW at \in {"idle", "tickClaim"}
  PROVE  LET rec == [Idle EXCEPT !.at = at, !.batch = batch]
         IN  rec \in Doings /\ HasArguments(rec) /\ rec.batch = batch
             /\ rec.at \notin Resizing
<1>1. [Idle EXCEPT !.at = at, !.batch = batch] \in Doings
  BY IdleIsDoing DEF Doings, Steps
<1> QED
  BY <1>1 DEF Idle, HasArguments, Resizing

LEMMA HoldsRequirement ==
  ASSUME NEW r \in Requirements, NEW at \in {"reconcile", "supersede"}
  PROVE  LET rec == [Idle EXCEPT !.at = at, !.req = r]
         IN  rec \in Doings /\ HasArguments(rec) /\ rec.batch = {}
             /\ rec.at \notin Resizing
<1>1. [Idle EXCEPT !.at = at, !.req = r] \in Doings
  BY IdleIsDoing DEF Doings, Steps
<1> QED
  BY <1>1 DEF Idle, HasArguments, Resizing

LEMMA HoldsNothing ==
  ASSUME NEW at \in {"tick"} \union Resizing
  PROVE  LET rec == [Idle EXCEPT !.at = at]
         IN  rec \in Doings /\ HasArguments(rec) /\ rec.batch = {} /\ rec.at = at
<1>1. [Idle EXCEPT !.at = at] \in Doings
  BY IdleIsDoing DEF Doings, Steps, Resizing
<1> QED
  BY <1>1 DEF Idle, HasArguments, Resizing

LEMMA EnqueueStartKeeps ==
  ASSUME IInv, NEW p \in Procs, NEW r \in Requirements, NEW cmd \in Commands,
         EnqueueStart(p, r, cmd)
  PROVE  Keeps
<1> DEFINE rec == [Idle EXCEPT !.at = "claim", !.req = r, !.cmd = cmd]
<1>1. rec \in Doings
  BY IdleIsDoing DEF Doings, Steps
<1>2. HasArguments(rec) /\ rec.batch = {} /\ rec.at \notin Resizing
  BY DEF Idle, HasArguments, Resizing
<1> QED
  BY <1>1, <1>2, OnlyActsKeeps DEF EnqueueStart

LEMMA OutcomeArrivesKeeps ==
  ASSUME IInv, NEW p \in Procs, NEW o \in journal, OutcomeArrives(p, o)
  PROVE  Keeps
<1>1. o.req \in Requirements /\ Activity(o.req)
  BY DEF IInv, QueueInv, AgentsInv, Outcomes, OutcomeArrives
<1>2. TableInv' /\ [Pool!Next]_holder
  BY <1>1, ActivityKeepsTable DEF IInv
<1>3. CASE o.cancels
  <2>1. Become(p, [Idle EXCEPT !.at = "reconcile", !.req = o.req])
    BY <1>3 DEF OutcomeArrives
  <2> QED
    BY <1>1, <1>2, <2>1, HoldsRequirement, TableStepKeeps DEF OutcomeArrives
<1>4. CASE ~o.cancels
  <2>1. Become(p, Idle)
    BY <1>4 DEF OutcomeArrives
  <2> QED
    BY <1>2, <2>1, IdleIsDoing, TableStepKeeps DEF OutcomeArrives
<1> QED
  BY <1>3, <1>4

LEMMA ReleaseStartKeeps ==
  ASSUME IInv, NEW p \in Procs, NEW s \in Slots, NEW force \in BOOLEAN,
         ReleaseStart(p, s, force)
  PROVE  Keeps
<1> DEFINE at == IF force THEN "forceRelease" ELSE "release"
<1>1. at \in {"release", "forceRelease"}
  OBVIOUS
<1>2. Become(p, [Idle EXCEPT !.at = at, !.slot = s])
  BY DEF ReleaseStart
<1>3. UNCHANGED <<slotCount, bindingVars, queueVars, agentVars, worker>>
  BY DEF ReleaseStart
<1> HIDE DEF at
<1> QED
  BY <1>1, <1>2, <1>3, HoldsSlot, OnlyActsKeeps

\* MayStop takes a job from the running ones, or none.
LEMMA MayStopKeepsAgents ==
  ASSUME AgentsInv, UNCHANGED <<rows, journal, reqStatus>>,
         NEW jobs, MayStop(jobs) \/ UNCHANGED running, resumed' \subseteq resumed
  PROVE  AgentsInv'
<1>1. running' \subseteq running
  BY DEF MayStop
<1> QED
  BY <1>1 DEF AgentsInv, Recorded

LEMMA CancelJobStartKeeps ==
  ASSUME IInv, NEW p \in Procs, NEW i \in RowIds, CancelJobStart(p, i)
  PROVE  Keeps
<1> DEFINE rec == [Idle EXCEPT !.at = "cancelRow", !.slot = rows[i].slot,
                               !.batch = {i}]
<1>1. /\ rows[i].slot \in Slots
      /\ rows[i].status # "absent"
      /\ Become(p, rec)
      /\ UNCHANGED <<slotCount, bindingVars, queueVars, resumed, journal, worker>>
  <2>1. \A s \in 1..slotCount : s \in Slots
    BY SlotAssumption DEF IInv, ResizeInv, Slots
  <2> QED
    BY <2>1 DEF CancelJobStart
<1>2. rec \in Doings
  <2>1. rows[i].slot \in 0..MaxSlots
    BY <1>1, SlotAssumption DEF Slots
  <2> QED
    BY <2>1, IdleIsDoing DEF Doings, Steps
<1>3. HasArguments(rec) /\ rec.batch = {i} /\ rec.at \notin Resizing
  <2>1. rec.at = "cancelRow" /\ rec.slot = rows[i].slot /\ rec.batch = {i}
    BY DEF Idle
  <2> QED
    BY <1>1, <2>1 DEF HasArguments, Resizing
<1>4. Recorded(i) /\ RowsInv' /\ RowsStayRecorded
  BY <1>1, RowsUnchanged DEF IInv, QueueInv, RowsInv, queueVars
<1> HIDE DEF rec
<1>5. AgentsInv'
  BY <1>1, MayStopKeepsAgents DEF IInv, QueueInv, CancelJobStart, queueVars
<1> QED
  BY <1>1, <1>2, <1>3, <1>4, <1>5, QueueStepKeeps

LEMMA StopStartKeeps ==
  ASSUME IInv, NEW p \in Procs, NEW s \in Slots, StopStart(p, s)
  PROVE  Keeps
<1> DEFINE rec == [Idle EXCEPT !.at = "markBound", !.slot = s]
<1>1. rec \in Doings /\ HasArguments(rec) /\ rec.batch = {}
      /\ rec.at \notin Resizing
  BY HoldsSlot
<1>2. /\ Become(p, rec)
      /\ UNCHANGED <<slotCount, bindingVars, queueVars, journal, worker>>
  BY DEF StopStart
<1> HIDE DEF rec
<1>3. RowsInv' /\ RowsStayRecorded
  BY <1>2, RowsUnchanged DEF IInv, QueueInv, queueVars
<1>4. AgentsInv'
  BY <1>2, MayStopKeepsAgents DEF IInv, QueueInv, StopStart, queueVars
<1> QED
  BY <1>1, <1>2, <1>3, <1>4, QueueStepKeeps

\* A step of a resize: nobody else is in one, and the count it leaves suits
\* what is to follow.
LEMMA ResizingKeeps ==
  ASSUME IInv, UNCHANGED <<bindingVars, queueVars, agentVars, worker>>,
         NEW p \in Procs, NEW rec \in Doings, Become(p, rec),
         HasArguments(rec), rec.batch = {},
         \A q \in Procs \ {p} : act[q].at \notin Resizing,
         slotCount' \in Slots,
         rec.at = "shrink" => slotCount' > 1,
         rec.at \in {"shrunk", "grow"} => slotCount' < MaxSlots
  PROVE  Keeps
<1>1. QueueInv'
  BY OnlyActs DEF IInv
<1>2. TableInv' /\ [Pool!Next]_holder
  BY NoChangeKeepsTable DEF IInv
<1>3. act'[p] = rec /\ \A q \in Procs \ {p} : act'[q] = act[q]
  BY DEF IInv, QueueInv, ActsInv, Become
<1>4. ResizeInv'
  BY <1>3 DEF ResizeInv, Resizing
<1> QED
  BY <1>1, <1>2, <1>4 DEF IInv, Keeps

LEMMA ResizeStartsKeep ==
  ASSUME IInv, NEW p \in Procs, ShrinkInspect(p) \/ GrowStart(p)
  PROVE  Keeps
<1>1. slotCount \in Slots
  BY DEF IInv, ResizeInv
<1>2. \A q \in Procs : act[q].at \notin Resizing
  BY DEF ShrinkInspect, GrowStart, LockFree
<1>3. CASE ShrinkInspect(p)
  <2> DEFINE rec == [Idle EXCEPT !.at = "shrink"]
  <2>1. rec \in Doings /\ HasArguments(rec) /\ rec.batch = {} /\ rec.at = "shrink"
    BY HoldsNothing DEF Resizing
  <2>2. /\ Become(p, rec) /\ slotCount > 1
        /\ UNCHANGED <<slotCount, bindingVars, queueVars, agentVars, worker>>
    BY <1>3 DEF ShrinkInspect
  <2> HIDE DEF rec
  <2> QED
    BY <1>1, <1>2, <2>1, <2>2, ResizingKeeps
<1>4. CASE GrowStart(p)
  <2> DEFINE rec == [Idle EXCEPT !.at = "grow"]
  <2>1. rec \in Doings /\ HasArguments(rec) /\ rec.batch = {} /\ rec.at = "grow"
    BY HoldsNothing DEF Resizing
  <2>2. /\ Become(p, rec) /\ slotCount < MaxSlots
        /\ UNCHANGED <<slotCount, bindingVars, queueVars, agentVars, worker>>
    BY <1>4 DEF GrowStart
  <2> HIDE DEF rec
  <2> QED
    BY <1>1, <1>2, <2>1, <2>2, ResizingKeeps
<1> QED
  BY <1>3, <1>4

LEMMA ResizeStepKeeps ==
  ASSUME IInv, NEW p \in Procs, ResizeStep(p)
  PROVE  Keeps
<1>1. /\ act[p].at \in Resizing
      /\ slotCount \in 1..MaxSlots
      /\ \A q \in Procs \ {p} : act[q].at \notin Resizing
      /\ UNCHANGED <<bindingVars, queueVars, agentVars, worker>>
  BY DEF ResizeStep, Shrink, ShrinkEnds, Grow, GrowEnds, Resizing,
         IInv, ResizeInv, Slots
<1>2. CASE Become(p, Idle)
  <2>1. slotCount' \in Slots
    BY <1>1, <1>2, SlotAssumption
    DEF ResizeStep, Shrink, ShrinkEnds, Grow, GrowEnds, IInv, ResizeInv, Slots
  <2> QED
    BY <1>1, <1>2, <2>1, IdleIsDoing, ResizingKeeps DEF Resizing
<1>3. CASE ~Become(p, Idle)
  <2>1. CASE Shrink(p)
    <3>1. /\ act[p].at = "shrink" /\ slotCount' = slotCount - 1
          /\ Become(p, [Idle EXCEPT !.at = "shrunk"])
      BY <1>3, <2>1 DEF Shrink
    <3>2. slotCount > 1
      BY <3>1 DEF IInv, ResizeInv
    <3>3. slotCount' \in Slots /\ slotCount' < MaxSlots
      BY <1>1, <3>1, <3>2, SlotAssumption DEF Slots
    <3> DEFINE rec == [Idle EXCEPT !.at = "shrunk"]
    <3>4. rec \in Doings /\ HasArguments(rec) /\ rec.batch = {} /\ rec.at = "shrunk"
      BY HoldsNothing DEF Resizing
    <3>5. Become(p, rec)
      BY <3>1
    <3> HIDE DEF rec
    <3> QED
      BY <1>1, <3>3, <3>4, <3>5, ResizingKeeps
  <2>2. CASE Grow(p)
    <3>1. /\ act[p].at = "grow" /\ slotCount' = slotCount + 1
          /\ Become(p, [Idle EXCEPT !.at = "grown"])
      BY <1>3, <2>2 DEF Grow
    <3>2. slotCount < MaxSlots
      BY <3>1 DEF IInv, ResizeInv
    <3>3. slotCount' \in Slots
      BY <1>1, <3>1, <3>2, SlotAssumption DEF Slots
    <3> DEFINE rec == [Idle EXCEPT !.at = "grown"]
    <3>4. rec \in Doings /\ HasArguments(rec) /\ rec.batch = {} /\ rec.at = "grown"
      BY HoldsNothing DEF Resizing
    <3>5. Become(p, rec)
      BY <3>1
    <3> HIDE DEF rec
    <3> QED
      BY <1>1, <3>3, <3>4, <3>5, ResizingKeeps
  <2> QED
    BY <1>3, <2>1, <2>2 DEF ResizeStep, ShrinkEnds, GrowEnds
<1> QED
  BY <1>2, <1>3

LEMMA StartsKeep ==
  ASSUME IInv, NEW p \in Procs, Starts(p)
  PROVE  Keeps
<1>1. ASSUME NEW s \in Slots, ResumeStart(p, s)
      PROVE  Keeps
  BY <1>1, HoldsSlot, OnlyActsKeeps DEF ResumeStart
<1>2. ASSUME NEW s \in Slots, StaleScan(p, s)
      PROVE  Keeps
  BY <1>2, HoldsSlot, OnlyActsKeeps DEF StaleScan
<1> QED
  BY <1>1, <1>2, EnqueueStartKeeps, OutcomeArrivesKeeps, ReleaseStartKeeps,
     CancelJobStartKeeps, StopStartKeeps, ResizeStartsKeep DEF Starts

-----------------------------------------------------------------------------
(* The router: claims, recorded rows, ticks.                                 *)

LEMMA ClaimKeeps ==
  ASSUME IInv, NEW p \in Procs, Claim(p)
  PROVE  Keeps
<1>1. /\ act[p].at = "claim" /\ act[p] \in Doings
      /\ act[p].req \in Requirements
      /\ \A i \in act[p].batch : Recorded(i)
  BY DEF IInv, QueueInv, ActsInv, HasArguments, Claim
<1>2. PICK s \in 0..MaxSlots :
        /\ Bind(act[p].req, s)
        /\ Become(p, [act[p] EXCEPT !.at = "record", !.slot = s])
  BY DEF Claim
<1> DEFINE rec == [act[p] EXCEPT !.at = "record", !.slot = s]
<1>3. rec \in Doings /\ rec.at = "record" /\ rec.req = act[p].req
      /\ rec.batch = act[p].batch
  BY <1>1 DEF Doings, Steps
<1>4. HasArguments(rec) /\ \A i \in rec.batch : Recorded(i)
  BY <1>1, <1>3 DEF HasArguments
<1>5. Become(p, rec)
  BY <1>2
<1> HIDE DEF rec
<1>6. UNCHANGED <<slotCount, queueVars, agentVars, worker>>
  BY DEF Claim
<1>7. TableInv' /\ [Pool!Next]_holder
  BY <1>1, <1>2, BindKeepsTable DEF IInv, ResizeInv
<1> QED
  BY <1>3, <1>4, <1>5, <1>6, <1>7, TableStepKeeps DEF Resizing

\* A row that enters the queue, after the rows before it were superseded or
\* not.
LEMMA RowRecorded ==
  ASSUME RowsInv, NEW kept, NEW i \in RowIds, NEW row \in Rows,
         kept \in [RowIds -> Rows],
         \A j \in RowIds : /\ kept[j].req = rows[j].req
                           /\ kept[j].status = "absent" <=> rows[j].status = "absent",
         rows[i].status = "absent", row.status # "absent",
         row.req \in Requirements,
         rows' = [kept EXCEPT ![i] = row]
  PROVE  RowsInv' /\ RowsStayRecorded
<1>1. rows' \in [RowIds -> Rows]
  OBVIOUS
<1>2. \A j \in RowIds : rows'[j] = IF j = i THEN row ELSE kept[j]
  OBVIOUS
<1> QED
  BY <1>1, <1>2 DEF RowsInv, RowsStayRecorded, Recorded

LEMMA RecordKeeps ==
  ASSUME IInv, NEW p \in Procs, Record(p)
  PROVE  Keeps
<1> DEFINE a == act[p]
           kept == IF a.cmd = "cancel" THEN Superseded(a.req) ELSE rows
<1>1. /\ a \in Doings /\ a.at = "record" /\ a.req \in Requirements
      /\ Become(p, Idle)
      /\ UNCHANGED <<slotCount, bindingVars, reqStatus, agentVars, worker>>
  BY DEF IInv, QueueInv, ActsInv, HasArguments, Record
<1>2. RowsInv' /\ RowsStayRecorded
  <2>1. CASE UNCHANGED rows
    BY <2>1, RowsUnchanged DEF IInv, QueueInv
  <2>2. CASE ~ UNCHANGED rows
    <3>1. PICK i \in RowIds :
            /\ NewRow(i)
            /\ rows' = [kept EXCEPT ![i] =
                 [req |-> a.req, cmd |-> a.cmd, slot |-> a.slot,
                  status |-> "pending"]]
      BY <2>2 DEF Record
    <3>2. /\ kept \in [RowIds -> Rows]
          /\ \A j \in RowIds :
               /\ kept[j].req = rows[j].req
               /\ kept[j].status = "absent" <=> rows[j].status = "absent"
      BY SupersededRows DEF IInv, QueueInv, RowsInv
    <3> DEFINE row == [req |-> a.req, cmd |-> a.cmd, slot |-> a.slot,
                       status |-> "pending"]
    <3>3. row \in Rows /\ row.status # "absent" /\ row.req \in Requirements
      BY <1>1 DEF Rows, RowStatuses, Doings
    <3>4. rows[i].status = "absent" /\ rows' = [kept EXCEPT ![i] = row]
      BY <3>1 DEF NewRow
    <3> HIDE DEF row, kept
    <3> QED
      BY <3>2, <3>3, <3>4, RowRecorded DEF IInv, QueueInv
  <2> QED
    BY <2>1, <2>2
<1>3. AgentsInv'
  BY <1>1, <1>2, AgentsStay DEF IInv, QueueInv
<1> QED
  BY <1>1, <1>2, <1>3, IdleIsDoing, QueueStepKeeps

LEMMA TickStartKeeps ==
  ASSUME IInv, NEW p \in Procs, TickStart(p)
  PROVE  Keeps
<1> DEFINE found == Oldest({i \in RowIds : Unassigned(i)})
<1>1. UNCHANGED <<slotCount, bindingVars, queueVars, agentVars, worker>>
  BY DEF TickStart
<1>2. CASE found = {}
  <2>1. Become(p, Idle)
    BY <1>2 DEF TickStart
  <2> QED
    BY <1>1, <2>1, IdleIsDoing, OnlyActsKeeps
<1>3. CASE found # {}
  <2>1. Become(p, [Idle EXCEPT !.at = "tickClaim", !.batch = found])
    BY <1>3 DEF TickStart
  <2>2. found \subseteq RowIds /\ \A i \in found : Recorded(i)
    BY DEF Oldest, Unassigned, IInv, QueueInv, RowsInv
  <2> HIDE DEF found
  <2> QED
    BY <1>1, <2>1, <2>2, HoldsRows, OnlyActsKeeps
<1> QED
  BY <1>2, <1>3

\* What a tick has in hand after row i: the rows it still has to see.
LEMMA AfterRowHolds ==
  ASSUME ActsInv, NEW p \in Procs, NEW i \in RowIds
  PROVE  /\ AfterRow(p, i) \in Doings
         /\ HasArguments(AfterRow(p, i))
         /\ AfterRow(p, i).at \notin Resizing
         /\ \A j \in AfterRow(p, i).batch : Recorded(j)
<1> DEFINE left == act[p].batch \ {i}
<1>1. left \subseteq RowIds /\ \A j \in left : Recorded(j)
  BY DEF ActsInv, Doings
<1>2. CASE left = {}
  BY <1>2, IdleIsDoing DEF AfterRow
<1>3. CASE left # {}
  <2>1. AfterRow(p, i) = [Idle EXCEPT !.at = "tickClaim", !.batch = left]
    BY <1>3 DEF AfterRow
  <2> HIDE DEF left
  <2> QED
    BY <1>1, <2>1, HoldsRows
<1> QED
  BY <1>2, <1>3

LEMMA TickClaimKeeps ==
  ASSUME IInv, NEW p \in Procs, TickClaim(p)
  PROVE  Keeps
<1>1. /\ act[p].at = "tickClaim" /\ act[p] \in Doings
      /\ \A i \in act[p].batch : Recorded(i)
      /\ UNCHANGED <<slotCount, queueVars, agentVars, worker>>
  BY DEF IInv, QueueInv, ActsInv, TickClaim
<1>2. PICK i \in RowIds, s \in 0..MaxSlots :
        /\ First(i, act[p].batch)
        /\ Bind(rows[i].req, s)
        /\ IF s = NoSlot \/ state[s] = "unhealthy"
           THEN Become(p, AfterRow(p, i))
           ELSE Become(p, [act[p] EXCEPT !.at = "tickAssign", !.slot = s])
  BY DEF TickClaim
<1>3. rows[i].req \in Requirements
  BY <1>1, <1>2 DEF First, Recorded
<1>4. TableInv' /\ [Pool!Next]_holder
  BY <1>2, <1>3, BindKeepsTable DEF IInv, ResizeInv
<1>5. CASE s = NoSlot \/ state[s] = "unhealthy"
  <2>1. Become(p, AfterRow(p, i))
    BY <1>2, <1>5
  <2> QED
    BY <1>1, <1>4, <2>1, AfterRowHolds, TableStepKeeps DEF IInv, QueueInv
<1>6. CASE ~(s = NoSlot \/ state[s] = "unhealthy")
  <2> DEFINE rec == [act[p] EXCEPT !.at = "tickAssign", !.slot = s]
  <2>1. Become(p, rec)
    BY <1>2, <1>6
  <2>2. /\ rec \in Doings /\ rec.at = "tickAssign" /\ rec.slot = s
        /\ rec.batch = act[p].batch
    BY <1>1 DEF Doings, Steps
  <2>3. s \in Slots
    BY <1>6, SlotAssumption DEF Slots, NoSlot
  <2> HIDE DEF rec
  <2>4. HasArguments(rec) /\ \A j \in rec.batch : Recorded(j)
    BY <1>1, <2>2, <2>3 DEF HasArguments
  <2> QED
    BY <1>1, <1>4, <2>1, <2>2, <2>4, TableStepKeeps DEF Resizing
<1> QED
  BY <1>5, <1>6

LEMMA TickAssignKeeps ==
  ASSUME IInv, NEW p \in Procs, TickAssign(p)
  PROVE  Keeps
<1>1. /\ act[p] \in Doings /\ act[p].slot \in 0..MaxSlots
      /\ \A i \in act[p].batch : Recorded(i)
      /\ UNCHANGED <<slotCount, bindingVars, reqStatus, agentVars, worker>>
  BY DEF IInv, QueueInv, ActsInv, Doings, TickAssign
<1>2. PICK i \in RowIds :
        /\ First(i, act[p].batch)
        /\ rows' = [rows EXCEPT ![i].slot = act[p].slot, ![i].status = "pending"]
        /\ Become(p, AfterRow(p, i))
  BY DEF TickAssign
<1>3. RowsInv' /\ RowsStayRecorded
  <2>1. Recorded(i) /\ "pending" \in RowStatuses \ {"absent"}
    BY <1>1, <1>2 DEF First, RowStatuses
  <2> QED
    BY <1>1, <1>2, <2>1, RowRewritten DEF IInv, QueueInv
<1>4. AgentsInv'
  BY <1>1, <1>3, AgentsStay DEF IInv, QueueInv
<1> QED
  BY <1>1, <1>2, <1>3, <1>4, AfterRowHolds, QueueStepKeeps DEF IInv, QueueInv

LEMMA RouterStepKeeps ==
  ASSUME IInv, NEW p \in Procs, RouterStep(p)
  PROVE  Keeps
<1>1. CASE TickTimesOut(p)
  BY <1>1, IdleIsDoing, OnlyActsKeeps DEF TickTimesOut
<1> QED
  BY <1>1, ClaimKeeps, RecordKeeps, TickStartKeeps, TickClaimKeeps,
     TickAssignKeeps DEF RouterStep

-----------------------------------------------------------------------------
(* The reconciliation of a cancelled requirement, and the routes.            *)

LEMMA ReconcileStatusKeeps ==
  ASSUME IInv, NEW p \in Procs, NEW r \in Requirements, ReconcileStatus(p, r)
  PROVE  Keeps
<1>1. CASE reqStatus[r] = "cancelled"
  BY <1>1, HoldsRequirement, OnlyActsKeeps DEF ReconcileStatus
<1>2. CASE reqStatus[r] # "cancelled"
  BY <1>2, IdleIsDoing, OnlyActsKeeps DEF ReconcileStatus
<1> QED
  BY <1>1, <1>2

LEMMA SupersedeKeeps ==
  ASSUME IInv, NEW p \in Procs, Supersede(p)
  PROVE  Keeps
<1> DEFINE rec == [act[p] EXCEPT !.at = "readBinding"]
<1>1. /\ act[p].at = "supersede" /\ act[p] \in Doings
      /\ act[p].req \in Requirements
      /\ \A i \in act[p].batch : Recorded(i)
      /\ rows' = Superseded(act[p].req)
      /\ Become(p, rec)
      /\ UNCHANGED <<slotCount, bindingVars, reqStatus, agentVars, worker>>
  BY DEF IInv, QueueInv, ActsInv, HasArguments, Supersede
<1>2. /\ rec \in Doings /\ rec.at = "readBinding"
      /\ rec.req = act[p].req /\ rec.batch = act[p].batch
  BY <1>1 DEF Doings, Steps
<1> HIDE DEF rec
<1>3. HasArguments(rec) /\ \A j \in rec.batch : Recorded(j)
  BY <1>1, <1>2 DEF HasArguments
<1>4. RowsInv' /\ RowsStayRecorded
  <2>1. /\ rows' \in [RowIds -> Rows]
        /\ \A i \in RowIds : /\ rows'[i].req = rows[i].req
                             /\ rows'[i].status = "absent"
                                  <=> rows[i].status = "absent"
    BY <1>1, SupersededRows DEF IInv, QueueInv
  <2> QED
    BY <2>1 DEF IInv, QueueInv, RowsInv, RowsStayRecorded, Recorded
<1>5. AgentsInv'
  BY <1>1, <1>4, AgentsStay DEF IInv, QueueInv
<1> QED
  BY <1>1, <1>2, <1>3, <1>4, <1>5, QueueStepKeeps DEF Resizing

LEMMA ReadBindingKeeps ==
  ASSUME IInv, NEW p \in Procs, ReadBinding(p)
  PROVE  Keeps
<1>1. /\ act[p].at = "readBinding" /\ act[p] \in Doings
      /\ act[p].req \in Requirements
      /\ \A i \in act[p].batch : Recorded(i)
      /\ UNCHANGED <<slotCount, bindingVars, queueVars, agentVars, worker>>
  BY DEF IInv, QueueInv, ActsInv, HasArguments, ReadBinding
<1>2. CASE Become(p, Idle)
  BY <1>1, <1>2, IdleIsDoing, OnlyActsKeeps
<1>3. CASE ~Become(p, Idle)
  <2>1. PICK s \in 1..slotCount :
          /\ HeldBy(act[p].req, s)
          /\ Become(p, [act[p] EXCEPT !.at = "free", !.slot = s])
    BY <1>3 DEF ReadBinding
  <2> DEFINE rec == [act[p] EXCEPT !.at = "free", !.slot = s]
  <2>2. s \in Slots /\ s \in 0..MaxSlots
    BY <2>1, SlotAssumption DEF HeldBy, Slots
  <2>3. /\ rec \in Doings /\ rec.at = "free" /\ rec.slot = s
        /\ rec.req = act[p].req /\ rec.batch = act[p].batch
    BY <1>1, <2>2 DEF Doings, Steps
  <2>4. Become(p, rec)
    BY <2>1
  <2> HIDE DEF rec
  <2>5. HasArguments(rec) /\ \A i \in rec.batch : Recorded(i)
    BY <1>1, <2>2, <2>3 DEF HasArguments
  <2> QED
    BY <1>1, <2>3, <2>4, <2>5, OnlyActsKeeps DEF Resizing
<1> QED
  BY <1>2, <1>3

LEMMA ReconcileStepKeeps ==
  ASSUME IInv, NEW p \in Procs, ReconcileStep(p)
  PROVE  Keeps
<1>1. CASE FreeCancelled(p)
  <2>1. act[p].slot \in Slots /\ Free(act[p].slot)
    BY <1>1 DEF FreeCancelled, IInv, QueueInv, ActsInv, HasArguments
  <2>2. TableInv' /\ [Pool!Next]_holder
    BY <2>1, FreeKeepsTable DEF IInv
  <2> QED
    BY <1>1, <2>2, IdleIsDoing, TableStepKeeps DEF FreeCancelled
<1> QED
  BY <1>1, ReconcileStatusKeeps, SupersedeKeeps, ReadBindingKeeps
  DEF ReconcileStep

LEMMA CancelRowKeeps ==
  ASSUME IInv, NEW p \in Procs, CancelRow(p)
  PROVE  Keeps
<1>1. /\ act[p] \in Doings /\ act[p].slot \in Slots
      /\ \A i \in act[p].batch : Recorded(i)
      /\ Become(p, [Idle EXCEPT !.at = "markBound", !.slot = act[p].slot])
      /\ UNCHANGED <<slotCount, bindingVars, reqStatus, agentVars, worker>>
  BY DEF IInv, QueueInv, ActsInv, HasArguments, CancelRow
<1>2. \A i \in RowIds :
        rows'[i] = IF i \in act[p].batch
                   THEN [rows[i] EXCEPT !.status = "cancelled"] ELSE rows[i]
  BY DEF CancelRow
<1>3. rows' \in [RowIds -> Rows]
  <2>1. \A i \in RowIds : [rows[i] EXCEPT !.status = "cancelled"] \in Rows
    BY DEF IInv, QueueInv, RowsInv, Rows, RowStatuses
  <2> QED
    BY <2>1 DEF CancelRow, IInv, QueueInv, RowsInv
<1>4. \A i \in RowIds :
        /\ rows'[i].req = rows[i].req
        /\ rows'[i].status = "absent" => rows[i].status = "absent"
        /\ rows'[i].status # "absent" => Recorded(i)
  BY <1>1, <1>2 DEF IInv, QueueInv, RowsInv, Rows
<1>5. RowsInv' /\ RowsStayRecorded
  BY <1>3, <1>4 DEF RowsInv, RowsStayRecorded, Recorded
<1>6. AgentsInv'
  BY <1>1, <1>5, AgentsStay DEF IInv, QueueInv
<1> QED
  BY <1>1, <1>5, <1>6, HoldsSlot, QueueStepKeeps

\* The resume route gives a slot's agent a job, or cannot.
LEMMA ResumeSubmitKeeps ==
  ASSUME IInv, NEW p \in Procs, ResumeSubmit(p)
  PROVE  Keeps
<1> DEFINE s == act[p].slot
<1>1. s \in Slots
  BY DEF ResumeSubmit, IInv, QueueInv, ActsInv, HasArguments
<1>2. /\ resumed' \subseteq resumed \union {s}
      /\ UNCHANGED <<slotCount, bindingVars, queueVars, running, journal, worker>>
      /\ \/ Become(p, [Idle EXCEPT !.at = "markBusy", !.slot = s])
         \/ Become(p, Idle)
  BY DEF ResumeSubmit
<1> HIDE DEF s
<1>3. RowsInv' /\ RowsStayRecorded
  BY <1>2, RowsUnchanged DEF IInv, QueueInv, queueVars
<1>4. AgentsInv'
  BY <1>1, <1>2 DEF IInv, QueueInv, AgentsInv, Recorded, queueVars
<1>5. CASE Become(p, [Idle EXCEPT !.at = "markBusy", !.slot = s])
  BY <1>1, <1>2, <1>3, <1>4, <1>5, HoldsSlot, QueueStepKeeps
<1>6. CASE Become(p, Idle)
  BY <1>2, <1>3, <1>4, <1>6, IdleIsDoing, QueueStepKeeps
<1> QED
  BY <1>2, <1>5, <1>6

LEMMA RouteStepKeeps ==
  ASSUME IInv, NEW p \in Procs, RouteStep(p)
  PROVE  Keeps
<1>1. CASE Release(p)
  <2>1. act[p].slot \in Slots /\ Free(act[p].slot)
    BY <1>1 DEF Release, IInv, QueueInv, ActsInv, HasArguments
  <2>2. TableInv' /\ [Pool!Next]_holder
    BY <2>1, FreeKeepsTable DEF IInv
  <2> QED
    BY <1>1, <2>2, HoldsNothing, TableStepKeeps DEF Release, Resizing
<1>2. CASE MarkSlot(p)
  <2>1. /\ act[p].slot \in Slots
        /\ MarkedAs[act[p].at] \in {"bound", "busy", "unhealthy"}
        /\ Mark(act[p].slot, MarkedAs[act[p].at])
    <3>1. act[p].at \in {"markBound", "markBusy", "stale"}
      BY <1>2 DEF MarkSlot, MarkedAs
    <3> QED
      BY <1>2, <3>1
      DEF MarkSlot, MarkedAs, IInv, QueueInv, ActsInv, HasArguments
  <2>2. TableInv' /\ [Pool!Next]_holder
    BY <2>1, MarkKeepsTable DEF IInv
  <2> QED
    BY <1>2, <2>2, IdleIsDoing, TableStepKeeps DEF MarkSlot
<1> QED
  BY <1>1, <1>2, CancelRowKeeps, ResumeSubmitKeeps DEF RouteStep

-----------------------------------------------------------------------------
(* The worker and the agents.                                                *)

\* A step of the worker that leaves the table and the processes alone.
LEMMA WorkerStepKeepsTable ==
  ASSUME IInv, QueueInv', UNCHANGED <<slotCount, bindingVars, act>>
  PROVE  Keeps
<1>1. ResizeInv'
  BY DEF IInv, ResizeInv, Slots
<1>2. TableInv' /\ [Pool!Next]_holder
  BY NoChangeKeepsTable DEF IInv
<1> QED
  BY <1>1, <1>2 DEF IInv, Keeps

LEMMA WorkerPollKeeps ==
  ASSUME IInv, WorkerPoll
  PROVE  Keeps
<1> DEFINE found == Oldest({i \in RowIds : Assigned(i)})
           batch == {[row |-> i, slot |-> rows[i].slot] : i \in found}
<1>1. \A i \in found : i \in RowIds /\ Recorded(i) /\ rows[i].slot \in Slots
  <2>1. \A i \in RowIds : rows[i].slot \in 0..MaxSlots
    BY DEF IInv, QueueInv, RowsInv, Rows
  <2> QED
    BY <2>1, SlotAssumption
    DEF Oldest, Assigned, IInv, QueueInv, RowsInv, Slots, NoSlot
<1>2. ASSUME NEW e \in batch
      PROVE  e \in Entries /\ Recorded(e.row)
  <2>1. PICK i \in found : e = [row |-> i, slot |-> rows[i].slot]
    OBVIOUS
  <2>2. e.row = i
    BY <2>1
  <2> QED
    BY <1>1, <2>1, <2>2 DEF Entries
<1>3. /\ worker' = [at |-> "check", batch |-> batch]
      /\ UNCHANGED <<slotCount, bindingVars, queueVars, agentVars, act>>
  BY DEF WorkerPoll
<1> HIDE DEF batch
<1>4. RowsInv' /\ RowsStayRecorded
  BY <1>3, RowsUnchanged DEF IInv, QueueInv, queueVars
<1>5. \A e \in Entries : Recorded(e.row)' <=> Recorded(e.row)
  BY <1>3 DEF Recorded, queueVars
<1>6. WorkerInv'
  BY <1>2, <1>3, <1>5 DEF WorkerInv
<1>7. ActsInv' /\ AgentsInv'
  BY <1>3, <1>4, ActsStay, AgentsStay DEF IInv, QueueInv, queueVars
<1> QED
  BY <1>3, <1>4, <1>6, <1>7, WorkerStepKeepsTable DEF QueueInv

\* The worker goes on with the rows it has read, or some of them.
LEMMA WorkerGoesOn ==
  ASSUME WorkerInv, RowsStayRecorded,
         NEW e, WorkerNext(e) \/ \E at \in {"submit", "commit", "fail"} : WorkerGoes(at)
  PROVE  WorkerInv'
<1>1. /\ worker'.batch \subseteq worker.batch
      /\ worker' \in [at : {"poll", "check", "submit", "commit", "fail"},
                      batch : SUBSET Entries]
  BY DEF WorkerInv, WorkerNext, WorkerGoes
<1> QED
  BY <1>1 DEF WorkerInv, RowsStayRecorded, Entries

LEMMA WorkerCheckKeeps ==
  ASSUME IInv, NEW e \in worker.batch, WorkerCheck(e)
  PROVE  Keeps
<1>1. UNCHANGED <<slotCount, bindingVars, queueVars, agentVars, act>>
  BY DEF WorkerCheck
<1>2. RowsInv' /\ RowsStayRecorded
  BY <1>1, RowsUnchanged DEF IInv, QueueInv, queueVars
<1>3. WorkerInv'
  BY <1>2, WorkerGoesOn DEF WorkerCheck, IInv, QueueInv
<1>4. ActsInv' /\ AgentsInv'
  BY <1>1, <1>2, ActsStay, AgentsStay DEF IInv, QueueInv, queueVars
<1> QED
  BY <1>1, <1>2, <1>3, <1>4, WorkerStepKeepsTable DEF QueueInv

LEMMA WorkerSubmissionKeeps ==
  ASSUME IInv, NEW e \in worker.batch, WorkerSubmit(e) \/ WorkerCannotSubmit(e)
  PROVE  Keeps
<1>1. UNCHANGED <<slotCount, bindingVars, queueVars, resumed, journal, act>>
  BY DEF WorkerSubmit, WorkerCannotSubmit
<1>2. RowsInv' /\ RowsStayRecorded
  BY <1>1, RowsUnchanged DEF IInv, QueueInv, queueVars
<1>3. WorkerInv'
  BY <1>2, WorkerGoesOn DEF WorkerSubmit, WorkerCannotSubmit, IInv, QueueInv
<1>4. AgentsInv'
  <2>1. running' \subseteq running \union {e}
    BY DEF WorkerSubmit, WorkerCannotSubmit
  <2>2. \A f \in running \union {e} : f \in Entries /\ Recorded(f.row)'
    BY <1>1 DEF IInv, QueueInv, AgentsInv, WorkerInv, Recorded, queueVars
  <2>3. resumed' \in SUBSET Slots /\ journal' \in SUBSET Outcomes
        /\ reqStatus' \in [Requirements -> {"active", "cancelled"}]
    BY <1>1 DEF IInv, QueueInv, AgentsInv, queueVars
  <2> QED
    BY <2>1, <2>2, <2>3 DEF AgentsInv
<1>5. ActsInv'
  BY <1>1, <1>2, ActsStay DEF IInv, QueueInv
<1> QED
  BY <1>1, <1>2, <1>3, <1>4, <1>5, WorkerStepKeepsTable DEF QueueInv

LEMMA WorkerCommitKeeps ==
  ASSUME IInv, NEW e \in worker.batch, WorkerCommit(e)
  PROVE  Keeps
<1>1. e \in Entries /\ e.row \in RowIds /\ e.slot \in Slots /\ Recorded(e.row)
  BY DEF IInv, QueueInv, WorkerInv, Entries
<1>2. /\ UNCHANGED <<slotCount, reqStatus, agentVars, act>>
      /\ rows' = [rows EXCEPT ![e.row].status = "submitted"]
      /\ Mark(e.slot, "busy")
      /\ WorkerNext(e)
  BY DEF WorkerCommit
<1>3. RowsInv' /\ RowsStayRecorded
  BY <1>1, <1>2, RowStatusRewritten DEF IInv, QueueInv, RowStatuses
<1>4. WorkerInv' /\ ActsInv' /\ AgentsInv'
  BY <1>2, <1>3, WorkerGoesOn, ActsStay, AgentsStay DEF IInv, QueueInv
<1>5. TableInv' /\ [Pool!Next]_holder
  BY <1>1, <1>2, MarkKeepsTable DEF IInv
<1>6. ResizeInv'
  BY <1>2 DEF IInv, ResizeInv, Slots
<1> QED
  BY <1>3, <1>4, <1>5, <1>6 DEF IInv, QueueInv, Keeps

LEMMA WorkerFailKeeps ==
  ASSUME IInv, NEW e \in worker.batch, WorkerFail(e)
  PROVE  Keeps
<1>1. e.row \in RowIds /\ Recorded(e.row)
  BY DEF IInv, QueueInv, WorkerInv, Entries
<1>2. /\ UNCHANGED <<slotCount, bindingVars, reqStatus, agentVars, act>>
      /\ rows' = [rows EXCEPT ![e.row].status = "failed"]
      /\ WorkerNext(e)
  BY DEF WorkerFail
<1>3. RowsInv' /\ RowsStayRecorded
  BY <1>1, <1>2, RowStatusRewritten DEF IInv, QueueInv, RowStatuses
<1>4. WorkerInv' /\ ActsInv' /\ AgentsInv'
  BY <1>2, <1>3, WorkerGoesOn, ActsStay, AgentsStay DEF IInv, QueueInv
<1> QED
  BY <1>2, <1>3, <1>4, WorkerStepKeepsTable DEF QueueInv

LEMMA WorkerStepKeeps ==
  ASSUME IInv, WorkerStep
  PROVE  Keeps
BY WorkerPollKeeps, WorkerCheckKeeps, WorkerSubmissionKeeps, WorkerCommitKeeps,
   WorkerFailKeeps DEF WorkerStep

LEMMA AgentFinishesKeeps ==
  ASSUME IInv, NEW e \in running, NEW succeeds \in BOOLEAN,
         AgentFinishes(e, succeeds)
  PROVE  Keeps
<1>1. AgentFinishes(e, succeeds)
  OBVIOUS
<1>2. UNCHANGED <<slotCount, bindingVars, rows, resumed, act, worker>>
  BY <1>1 DEF AgentFinishes
<1>3. RowsInv' /\ RowsStayRecorded
  BY <1>2, RowsUnchanged DEF IInv, QueueInv
<1>4. rows[e.row].req \in Requirements
  BY DEF IInv, QueueInv, AgentsInv, Recorded
<1>5. running' \in SUBSET Entries /\ \A f \in running' : Recorded(f.row)'
  BY <1>1, <1>2 DEF AgentFinishes, IInv, QueueInv, AgentsInv, Recorded
<1>6. journal' \in SUBSET Outcomes
  <2>1. [req |-> rows[e.row].req, cancels |-> rows[e.row].cmd = "cancel"]
          \in Outcomes
    BY <1>4 DEF Outcomes
  <2> QED
    BY <1>1, <2>1 DEF AgentFinishes, IInv, QueueInv, AgentsInv
<1>7. reqStatus' \in [Requirements -> {"active", "cancelled"}]
  BY <1>1, <1>4 DEF AgentFinishes, IInv, QueueInv, AgentsInv
<1>8. AgentsInv'
  BY <1>2, <1>5, <1>6, <1>7 DEF AgentsInv, IInv, QueueInv
<1>9. ActsInv' /\ WorkerInv'
  BY <1>2, <1>3, ActsStay, WorkerStays DEF IInv, QueueInv
<1> QED
  BY <1>2, <1>3, <1>8, <1>9, WorkerStepKeepsTable DEF QueueInv

LEMMA AgentStepKeeps ==
  ASSUME IInv, AgentStep
  PROVE  Keeps
<1>1. ASSUME NEW s \in resumed, ResumedFinishes(s)
      PROVE  Keeps
  <2>1. UNCHANGED <<slotCount, bindingVars, queueVars, running, journal, act, worker>>
        /\ resumed' \subseteq resumed
    BY <1>1 DEF ResumedFinishes
  <2>2. RowsInv' /\ RowsStayRecorded
    BY <2>1, RowsUnchanged DEF IInv, QueueInv, queueVars
  <2>3. ActsInv' /\ WorkerInv'
    BY <2>1, <2>2, ActsStay, WorkerStays DEF IInv, QueueInv
  <2>4. AgentsInv'
    BY <2>1 DEF IInv, QueueInv, AgentsInv, Recorded, queueVars
  <2> QED
    BY <2>1, <2>2, <2>3, <2>4, WorkerStepKeepsTable DEF QueueInv
<1> QED
  BY <1>1, AgentFinishesKeeps DEF AgentStep

-----------------------------------------------------------------------------
(* The invariant, and what follows from it.                                  *)

LEMMA InitKeepsIInv ==
  Init => IInv /\ Pool!Init
<1> SUFFICES ASSUME Init
             PROVE  IInv /\ Pool!Init
  OBVIOUS
<1>1. TableInv /\ Pool!Init
  BY DEF Init, BindingInit, TableInv, TableTypeOK, SlotStates,
         FreeSlotIsNobodys, OneSlotPerRequirement, Pool!Init
<1>2. ResizeInv
  BY SlotAssumption, IdleIsDoing DEF Init, ResizeInv, Slots, Resizing
<1>3. RowsInv
  <2>1. NoRow \in Rows /\ NoRow.status = "absent"
    BY SlotAssumption DEF NoRow, Rows, Commands, RowStatuses, NoSlot
  <2> QED
    BY <2>1 DEF Init, RowsInv
<1>4. ActsInv
  BY IdleIsDoing DEF Init, ActsInv
<1>5. WorkerInv /\ AgentsInv
  BY DEF Init, WorkerInv, AgentsInv
<1> QED
  BY <1>1, <1>2, <1>3, <1>4, <1>5 DEF IInv, QueueInv

LEMMA CrashKeeps ==
  ASSUME IInv, Crash
  PROVE  Keeps
<1>1. /\ act' = [p \in Procs |-> Idle]
      /\ worker' = [at |-> "poll", batch |-> {}]
      /\ UNCHANGED <<slotCount, bindingVars, queueVars, agentVars>>
  BY DEF Crash
<1>2. RowsInv' /\ RowsStayRecorded
  BY <1>1, RowsUnchanged DEF IInv, QueueInv, queueVars
<1>3. \A p \in Procs : act'[p] = Idle
  BY <1>1
<1>4. act' \in [Procs -> Doings]
  BY <1>1, IdleIsDoing
<1>5. ActsInv' /\ ResizeInv'
  BY <1>1, <1>3, <1>4, IdleIsDoing
  DEF ActsInv, HasArguments, IInv, ResizeInv, Slots, Resizing
<1>6. WorkerInv'
  BY <1>1 DEF WorkerInv
<1>7. AgentsInv'
  BY <1>1, <1>2, AgentsStay DEF IInv, QueueInv, queueVars
<1>8. TableInv' /\ [Pool!Next]_holder
  BY <1>1, NoChangeKeepsTable DEF IInv
<1> QED
  BY <1>2, <1>5, <1>6, <1>7, <1>8 DEF IInv, QueueInv, Keeps

LEMMA NextKeepsIInv ==
  IInv /\ [Next]_vars => Keeps
<1> SUFFICES ASSUME IInv, [Next]_vars
             PROVE  Keeps
  OBVIOUS
<1>1. ASSUME NEW r \in Requirements, BindManually(r)
      PROVE  Keeps
  <2>1. PICK s \in Slots : Bind(r, s)
    BY <1>1 DEF BindManually
  <2>2. s \in 0..MaxSlots
    BY SlotAssumption DEF Slots
  <2>3. TableInv' /\ [Pool!Next]_holder
    BY <2>1, <2>2, BindKeepsTable DEF IInv, ResizeInv
  <2>4. QueueInv' /\ ResizeInv'
    BY <1>1, NothingChanges DEF BindManually, IInv, ResizeInv, Slots
  <2> QED
    BY <2>3, <2>4 DEF IInv, Keeps
<1>2. CASE UNCHANGED vars
  <2>1. QueueInv'
    BY <1>2, NothingChanges DEF vars, IInv
  <2>2. TableInv' /\ [Pool!Next]_holder
    BY <1>2, NoChangeKeepsTable DEF vars, IInv
  <2>3. ResizeInv'
    BY <1>2 DEF vars, IInv, ResizeInv, Slots
  <2> QED
    BY <2>1, <2>2, <2>3 DEF IInv, Keeps
<1> QED
  BY <1>1, <1>2, StartsKeep, RouterStepKeeps, ReconcileStepKeeps, RouteStepKeeps,
     ResizeStepKeeps, WorkerStepKeeps, AgentStepKeeps, CrashKeeps DEF Next

LEMMA IInvHolds == Spec => []IInv
<1>1. IInv /\ [Next]_vars => IInv'
  BY NextKeepsIInv DEF Keeps
<1> QED
  BY <1>1, InitKeepsIInv, PTL DEF Spec

\* Every variable of the queue, the table, the processes and the worker always
\* has a value of its type.
THEOREM DispatchTypeCorrect == Spec => []TypeOK
<1>1. IInv => TypeOK
  BY DEF IInv, ResizeInv, TableInv, TableTypeOK, QueueInv, RowsInv, ActsInv,
         WorkerInv, AgentsInv, TypeOK, BindingTypeOK
<1> QED
  BY <1>1, IInvHolds, PTL

\* However many requests, ticks and routes run at once, no requirement ever
\* holds two slots: bindRequirement's transaction is enough.
THEOREM NoTwoSlots == Spec => []OneSlotPerRequirement
<1>1. IInv => OneSlotPerRequirement
  BY DEF IInv, TableInv
<1> QED
  BY <1>1, IInvHolds, PTL

\* A slot that bindRequirement would hand out belongs to no requirement, also
\* after a worker, a route or the stale detector wrote a slot that had been
\* released under it.
THEOREM FreeSlotsAreFree == Spec => []FreeSlotIsNobodys
<1>1. IInv => FreeSlotIsNobodys
  BY DEF IInv, TableInv
<1> QED
  BY <1>1, IInvHolds, PTL

\* The slot table implements the abstract pool: a slot never passes from one
\* requirement to another without having been free.
THEOREM DispatchImplementsPool == Spec => ImplementsSlotPool
<1>1. IInv /\ [Next]_vars => [Pool!Next]_holder
  BY NextKeepsIInv DEF Keeps
<1> QED
  BY <1>1, InitKeepsIInv, IInvHolds, PTL DEF Spec, ImplementsSlotPool, Pool!Spec

-----------------------------------------------------------------------------
(* What may enter the queue.  Only Record adds a row, and it looks at the    *)
(* policy in the step in which it does.                                      *)

LEMMA OnlyRecordAdds ==
  ASSUME IInv, [Next]_vars, NEW i \in RowIds, RecordsRow(i)
  PROVE  \E p \in Procs : Record(p)
<1> SUFFICES ASSUME \A p \in Procs : ~Record(p)
             PROVE  ~RecordsRow(i)
  OBVIOUS
<1>1. ASSUME UNCHANGED rows
      PROVE  ~RecordsRow(i)
  BY <1>1 DEF RecordsRow
<1>2. ASSUME NEW p \in Procs, TickAssign(p)
      PROVE  ~RecordsRow(i)
  <2>1. PICK j \in RowIds :
          /\ First(j, act[p].batch)
          /\ rows' = [rows EXCEPT ![j].slot = act[p].slot,
                                  ![j].status = "pending"]
    BY <1>2 DEF TickAssign
  <2>2. rows[j].status # "absent"
    BY <2>1 DEF First, IInv, QueueInv, ActsInv, Recorded
  <2> QED
    BY <2>1, <2>2 DEF RecordsRow, IInv, QueueInv, RowsInv
<1>3. ASSUME NEW p \in Procs, Supersede(p)
      PROVE  ~RecordsRow(i)
  BY <1>3, SupersededRows DEF Supersede, RecordsRow, IInv, QueueInv
<1>4. ASSUME NEW p \in Procs, CancelRow(p)
      PROVE  ~RecordsRow(i)
  BY <1>4 DEF CancelRow, RecordsRow, IInv, QueueInv, ActsInv, Recorded
<1>5. ASSUME NEW e \in worker.batch, WorkerCommit(e) \/ WorkerFail(e)
      PROVE  ~RecordsRow(i)
  <2>1. rows[e.row].status # "absent"
    BY DEF IInv, QueueInv, WorkerInv, Recorded
  <2> QED
    BY <1>5, <2>1
    DEF WorkerCommit, WorkerFail, RecordsRow, IInv, QueueInv, RowsInv
<1>6. ASSUME NEW p \in Procs, Starts(p)
      PROVE  UNCHANGED rows
  BY <1>6 DEF Starts, EnqueueStart, OutcomeArrives, ReleaseStart,
     CancelJobStart, StopStart, ResumeStart, StaleScan, ShrinkInspect, GrowStart,
     queueVars
<1>7. ASSUME NEW p \in Procs, RouterStep(p)
      PROVE  ~RecordsRow(i)
  BY <1>1, <1>2, <1>7
  DEF RouterStep, Claim, TickStart, TickTimesOut, TickClaim, queueVars
<1>8. ASSUME NEW p \in Procs, ReconcileStep(p)
      PROVE  ~RecordsRow(i)
  BY <1>1, <1>3, <1>8
  DEF ReconcileStep, ReconcileStatus, ReadBinding, FreeCancelled, queueVars
<1>9. ASSUME NEW p \in Procs, RouteStep(p)
      PROVE  ~RecordsRow(i)
  BY <1>1, <1>4, <1>9 DEF RouteStep, Release, ResumeSubmit, MarkSlot, queueVars
<1>10. CASE WorkerStep
  BY <1>1, <1>5, <1>10
  DEF WorkerStep, WorkerPoll, WorkerCheck, WorkerSubmit, WorkerCannotSubmit,
      queueVars
<1>11. ASSUME \/ UNCHANGED vars \/ AgentStep \/ Crash
              \/ \E p \in Procs : ResizeStep(p)
              \/ \E r \in Requirements : BindManually(r)
       PROVE  UNCHANGED rows
  BY <1>11
  DEF vars, AgentStep, AgentFinishes, ResumedFinishes, Crash, ResizeStep, Shrink,
      ShrinkEnds, Grow, GrowEnds, BindManually, queueVars
<1> QED
  BY <1>1, <1>6, <1>7, <1>8, <1>9, <1>10, <1>11 DEF Next

\* The row that Record adds, and what it leaves of the others.
LEMMA RecordedRow ==
  ASSUME IInv, NEW p \in Procs, Record(p), NEW i \in RowIds, RecordsRow(i)
  PROVE  /\ PolicyAllows(act[p].req, act[p].cmd)
         /\ act[p].req \in Requirements
         /\ rows'[i].req = act[p].req /\ rows'[i].cmd = act[p].cmd
         /\ \A j \in RowIds \ {i} : rows'[j] = IF act[p].cmd = "cancel"
              THEN Superseded(act[p].req)[j] ELSE rows[j]
<1> DEFINE a == act[p]
           kept == IF a.cmd = "cancel" THEN Superseded(a.req) ELSE rows
           row == [req |-> a.req, cmd |-> a.cmd, slot |-> a.slot,
                   status |-> "pending"]
<1>1. a.req \in Requirements
  BY DEF IInv, QueueInv, ActsInv, HasArguments, Record
<1>2. ~UNCHANGED rows
  BY DEF RecordsRow
<1>3. PolicyAllows(a.req, a.cmd)
  BY <1>2 DEF Record
<1>4. PICK k \in RowIds : rows' = [kept EXCEPT ![k] = row]
  BY <1>2 DEF Record
<1>5. /\ kept \in [RowIds -> Rows]
      /\ \A j \in RowIds : kept[j].status = "absent" <=> rows[j].status = "absent"
  BY SupersededRows DEF IInv, QueueInv, RowsInv
<1>6. \A j \in RowIds : rows'[j] = IF j = k THEN row ELSE kept[j]
  <2> HIDE DEF kept, row
  <2> QED
    BY <1>4, <1>5
<1>7. i = k
  BY <1>5, <1>6 DEF RecordsRow
<1> QED
  BY <1>1, <1>3, <1>6, <1>7

\* No row is recorded behind a cancellation that is queued or submitted, nor
\* work for a cancelled requirement, however many requests passed the first
\* check of the policy together.
THEOREM NoCommandBehindCancel == Spec => NothingBehindCancel
<1> DEFINE A == \A i \in RowIds : RecordsRow(i) =>
       LET r == rows'[i].req
       IN  \/ reqStatus[r] = "cancelled" /\ rows'[i].cmd # "work"
           \/ /\ reqStatus[r] = "active"
              /\ \A j \in RowIds : ~ActiveCancel(j, r)
<1>1. IInv /\ [Next]_vars => A
  <2> SUFFICES ASSUME IInv, [Next]_vars, NEW i \in RowIds, RecordsRow(i)
               PROVE  LET r == rows'[i].req
                      IN  \/ reqStatus[r] = "cancelled" /\ rows'[i].cmd # "work"
                          \/ /\ reqStatus[r] = "active"
                             /\ \A j \in RowIds : ~ActiveCancel(j, r)
    OBVIOUS
  <2>1. PICK p \in Procs : Record(p)
    BY OnlyRecordAdds
  <2>2. /\ PolicyAllows(act[p].req, act[p].cmd)
        /\ act[p].req \in Requirements
        /\ rows'[i].req = act[p].req /\ rows'[i].cmd = act[p].cmd
    BY <2>1, RecordedRow
  <2>3. reqStatus[act[p].req] \in {"active", "cancelled"}
    BY <2>2 DEF IInv, QueueInv, AgentsInv
  <2> QED
    BY <2>2, <2>3 DEF PolicyAllows
<1>2. IInv /\ [Next]_vars => [A]_vars
  BY <1>1
<1> HIDE DEF A
<1>3. Spec => [][A]_vars
  BY <1>2, IInvHolds, PTL DEF Spec
<1> QED
  BY <1>3 DEF A, NothingBehindCancel

\* A cancellation that enters the queue leaves no earlier command of its
\* requirement waiting in it.
THEOREM CancelLeavesNothingWaiting == Spec => CancelClearsQueue
<1> DEFINE A == \A i, j \in RowIds :
       /\ RecordsRow(i) /\ rows'[i].cmd = "cancel"
       /\ rows'[j].req = rows'[i].req
       /\ rows'[j].status = "pending"
       => rows'[j].cmd = "cancel"
<1>1. IInv /\ [Next]_vars => A
  <2> SUFFICES ASSUME IInv, [Next]_vars, NEW i \in RowIds, NEW j \in RowIds,
                      RecordsRow(i), rows'[i].cmd = "cancel",
                      rows'[j].req = rows'[i].req, rows'[j].status = "pending"
               PROVE  rows'[j].cmd = "cancel"
    OBVIOUS
  <2>1. PICK p \in Procs : Record(p)
    BY OnlyRecordAdds
  <2>2. CASE j = i
    BY <2>2
  <2>3. CASE j # i
    <3>1. rows'[j] = Superseded(act[p].req)[j] /\ rows'[j].req = act[p].req
      BY <2>1, <2>3, RecordedRow
    <3>2. rows[j] \in Rows
      BY DEF IInv, QueueInv, RowsInv
    <3> QED
      BY <3>1, <3>2 DEF Superseded, Rows
  <2> QED
    BY <2>2, <2>3
<1>2. IInv /\ [Next]_vars => [A]_vars
  BY <1>1
<1> HIDE DEF A
<1>3. Spec => [][A]_vars
  BY <1>2, IInvHolds, PTL DEF Spec
<1> QED
  BY <1>3 DEF A, CancelClearsQueue
-----------------------------------------------------------------------------
(* What the topology lock is for.  A resize and the worker's submission      *)
(* never overlap, so that no row is dispatched to the slot that a shrink     *)
(* takes away, although the worker compares the slot with the count before   *)
(* the lock.  The resume route submits without the lock: of its jobs         *)
(* (resumed) nothing of the kind is true.                                    *)

SubmissionAlone ==
  worker.at = "commit" => \A p \in Procs : act[p].at \notin Resizing

\* While a shrink is under way no row's job is in the slot that goes.
NoRowInLeavingSlot == \A p \in Procs : \A e \in running :
  /\ act[p].at = "shrink" => e.slot # slotCount
  /\ act[p].at = "shrunk" => e.slot # slotCount + 1

LockInv == SubmissionAlone /\ NoRowInLeavingSlot

\* A step that is not a resize's: it begins none, and leaves the count; it
\* hands agents rows and begins a submission only under the lock.
NoResize ==
  /\ UNCHANGED slotCount
  /\ \A p \in Procs : act'[p].at \in Resizing => act'[p].at = act[p].at
  /\ running' \subseteq running \/ \A p \in Procs : act[p].at \notin Resizing
  /\ worker'.at = "commit" =>
       worker.at = "commit" \/ \A p \in Procs : act[p].at \notin Resizing

LEMMA NoResizeKeepsLock == ASSUME LockInv, NoResize PROVE LockInv'
<1>1. SubmissionAlone'  BY DEF LockInv, SubmissionAlone, NoResize
<1>2. NoRowInLeavingSlot'
  <2> SUFFICES ASSUME NEW p \in Procs, act'[p].at \in Resizing,
                      NEW e \in running'
               PROVE  /\ act'[p].at = "shrink" => e.slot # slotCount
                      /\ act'[p].at = "shrunk" => e.slot # slotCount + 1
    BY DEF NoRowInLeavingSlot, NoResize, Resizing
  <2>1. act'[p].at = act[p].at /\ e \in running  BY DEF NoResize
  <2> QED BY <2>1 DEF LockInv, NoRowInLeavingSlot
<1> QED BY <1>1, <1>2 DEF LockInv

\* One process goes on, and not as a resize.
LEMMA GoesOnQuietly ==
  ASSUME IInv, NEW p \in Procs, NEW rec, Become(p, rec), rec.at \notin Resizing,
         UNCHANGED <<slotCount, worker>>, running' \subseteq running
  PROVE  NoResize
BY DEF NoResize, Become, IInv, QueueInv, ActsInv

LEMMA ResizeStartsKeepLock ==
  ASSUME IInv, LockInv, NEW p \in Procs, ShrinkInspect(p) \/ GrowStart(p)
  PROVE  LockInv'
<1>1. /\ LockFree /\ UNCHANGED <<slotCount, running, worker>>
      /\ act \in [Procs -> Doings]
  BY DEF ShrinkInspect, GrowStart, agentVars, IInv, QueueInv, ActsInv
<1>2. \A q \in Procs \ {p} : act'[q].at \notin Resizing
  BY <1>1 DEF ShrinkInspect, GrowStart, Become, LockFree
<1>3. SubmissionAlone'  BY <1>1 DEF SubmissionAlone, LockFree
<1>4. NoRowInLeavingSlot'
  <2>1. CASE ShrinkInspect(p)
    <3>1. act'[p].at = "shrink" /\ \A e \in running : e.slot # slotCount
      BY <1>1, <2>1, HoldsNothing DEF ShrinkInspect, Become, TailClear, Resizing
    <3> QED BY <1>1, <1>2, <3>1 DEF NoRowInLeavingSlot, Resizing
  <2>2. CASE GrowStart(p)
    <3>1. act'[p].at = "grow"
      BY <1>1, <2>2, HoldsNothing DEF GrowStart, Become, Resizing
    <3> QED BY <1>1, <1>2, <3>1 DEF NoRowInLeavingSlot, Resizing
  <2> QED BY <2>1, <2>2
<1> QED BY <1>3, <1>4 DEF LockInv

LEMMA ResizeStepKeepsLock ==
  ASSUME IInv, LockInv, NEW p \in Procs, ResizeStep(p)
  PROVE  LockInv'
<1>1. /\ act[p].at \in Resizing /\ UNCHANGED <<running, worker>>
      /\ act \in [Procs -> Doings] /\ slotCount \in Nat
      /\ \A q \in Procs \ {p} : act[q].at \notin Resizing
  BY SlotAssumption
     DEF ResizeStep, Shrink, ShrinkEnds, Grow, GrowEnds, Resizing, agentVars,
         IInv, QueueInv, ActsInv, ResizeInv, Slots
<1>2. worker'.at # "commit"  BY <1>1 DEF LockInv, SubmissionAlone
<1>3. \A q \in Procs \ {p} : act'[q].at \notin Resizing
  BY <1>1 DEF ResizeStep, Shrink, ShrinkEnds, Grow, GrowEnds, Become
<1>4. CASE Shrink(p) /\ slotCount' = slotCount - 1
  <2>1. act[p].at = "shrink" /\ act'[p].at \in {"shrunk", "idle"}
    BY <1>1, <1>4, HoldsNothing, IdleIsDoing DEF Shrink, Become, Resizing, Idle
  <2>2. \A e \in running : e.slot # slotCount' + 1
    BY <1>1, <1>4, <2>1 DEF LockInv, NoRowInLeavingSlot
  <2> QED
    BY <1>1, <1>2, <1>3, <2>1, <2>2 DEF LockInv, SubmissionAlone, NoRowInLeavingSlot,
       Resizing
<1>5. CASE ~(Shrink(p) /\ slotCount' = slotCount - 1)
  <2>1. Become(p, Idle) \/ Become(p, [Idle EXCEPT !.at = "grown"])
    BY <1>5 DEF ResizeStep, Shrink, ShrinkEnds, Grow, GrowEnds
  <2>2. act'[p].at \notin {"shrink", "shrunk"}
    <3>1. CASE Become(p, Idle)  BY <1>1, <3>1, IdleIsDoing DEF Become, Resizing
    <3>2. CASE Become(p, [Idle EXCEPT !.at = "grown"])
      <4>1. act'[p].at = "grown"
        BY <1>1, <3>2, HoldsNothing DEF Become, Resizing
      <4> QED BY <4>1
    <3> QED BY <2>1, <3>1, <3>2
  <2> QED
    BY <1>2, <1>3, <2>2 DEF LockInv, SubmissionAlone, NoRowInLeavingSlot, Resizing
<1> QED BY <1>4, <1>5
LEMMA StartsQuietly ==
  ASSUME IInv, NEW p \in Procs, Starts(p), ~ShrinkInspect(p), ~GrowStart(p)
  PROVE  NoResize
<1>1. PICK rec : /\ Become(p, rec) /\ rec.at \notin Resizing
                 /\ UNCHANGED <<slotCount, worker>> /\ running' \subseteq running
  BY DEF Starts, EnqueueStart, OutcomeArrives, ReleaseStart, CancelJobStart,
         StopStart, ResumeStart, StaleScan, MayStop, agentVars, Idle, Resizing
<1> QED BY <1>1, GoesOnQuietly

LEMMA AfterRowQuiet ==
  ASSUME NEW p \in Procs, NEW i  PROVE AfterRow(p, i).at \notin Resizing
BY DEF AfterRow, Idle, Resizing

LEMMA RouterQuietly ==
  ASSUME IInv, NEW p \in Procs, RouterStep(p)
  PROVE  NoResize
<1>0. act[p] \in Doings  BY DEF IInv, QueueInv, ActsInv
<1>1. PICK rec : /\ Become(p, rec) /\ rec.at \notin Resizing
                 /\ UNCHANGED <<slotCount, worker>> /\ running' \subseteq running
  <2>1. CASE Claim(p)  BY <1>0, <2>1 DEF Claim, agentVars, Doings, Resizing
  <2>2. CASE Record(p)  BY <2>2 DEF Record, agentVars, Idle, Resizing
  <2>3. CASE TickStart(p) \/ TickTimesOut(p)
    BY <2>3 DEF TickStart, TickTimesOut, agentVars, Idle, Resizing
  <2>4. CASE TickClaim(p)
    BY <1>0, <2>4, AfterRowQuiet DEF TickClaim, agentVars, Doings, Resizing
  <2>5. CASE TickAssign(p)
    BY <2>5, AfterRowQuiet DEF TickAssign, agentVars
  <2> QED BY <2>1, <2>2, <2>3, <2>4, <2>5 DEF RouterStep
<1> QED BY <1>1, GoesOnQuietly

LEMMA OthersQuietly ==
  ASSUME IInv, NEW p \in Procs, ReconcileStep(p) \/ RouteStep(p)
  PROVE  NoResize
<1>0. act[p] \in Doings  BY DEF IInv, QueueInv, ActsInv
<1>1. PICK rec : /\ Become(p, rec) /\ rec.at \notin Resizing
                 /\ UNCHANGED <<slotCount, worker>> /\ running' \subseteq running
  <2>1. CASE ReconcileStep(p)
    BY <1>0, <2>1
       DEF ReconcileStep, ReconcileStatus, Supersede, ReadBinding, FreeCancelled,
           agentVars, Doings, Idle, Resizing
  <2>2. CASE RouteStep(p)
    BY <1>0, <2>2
       DEF RouteStep, Release, CancelRow, ResumeSubmit, MarkSlot, agentVars, Doings,
           Idle, Resizing
  <2> QED BY <2>1, <2>2
<1> QED BY <1>1, GoesOnQuietly

LEMMA WorkerQuietly ==
  ASSUME IInv, WorkerStep
  PROVE  NoResize
<1>1. UNCHANGED <<slotCount, act>>
  BY DEF WorkerStep, WorkerPoll, WorkerCheck, WorkerSubmit, WorkerCannotSubmit,
         WorkerCommit, WorkerFail
<1>2. running' \subseteq running \/ \A p \in Procs : act[p].at \notin Resizing
  BY DEF WorkerStep, WorkerPoll, WorkerCheck, WorkerSubmit, WorkerCannotSubmit,
         WorkerCommit, WorkerFail, LockFree, agentVars
<1>3. worker'.at = "commit" => \A p \in Procs : act[p].at \notin Resizing
  <2> USE DEF IInv, QueueInv, WorkerInv
  <2>1. CASE WorkerPoll  BY <2>1 DEF WorkerPoll
  <2>2. ASSUME NEW e \in worker.batch, WorkerSubmit(e)
        PROVE  \A p \in Procs : act[p].at \notin Resizing
    BY <2>2 DEF WorkerSubmit, LockFree
  <2>3. ASSUME NEW e \in worker.batch, WorkerCheck(e) \/ WorkerCannotSubmit(e)
        PROVE  worker'.at \in {"submit", "fail"}
    BY <2>3 DEF WorkerCheck, WorkerCannotSubmit, WorkerGoes
  <2>4. ASSUME NEW e \in worker.batch, WorkerCommit(e) \/ WorkerFail(e)
        PROVE  worker'.at \in {"poll", "check"}
    BY <2>4 DEF WorkerCommit, WorkerFail, WorkerNext
  <2> QED BY <2>1, <2>2, <2>3, <2>4 DEF WorkerStep
<1> QED BY <1>1, <1>2, <1>3 DEF NoResize

LEMMA LockKept == IInv /\ LockInv /\ [Next]_vars => LockInv'
<1> SUFFICES ASSUME IInv, LockInv, [Next]_vars PROVE LockInv'
  OBVIOUS
<1>1. ASSUME NEW p \in Procs, Starts(p) PROVE LockInv'
  BY <1>1, StartsQuietly, NoResizeKeepsLock, ResizeStartsKeepLock
<1>2. ASSUME NEW p \in Procs, RouterStep(p) \/ ReconcileStep(p) \/ RouteStep(p)
      PROVE  LockInv'
  BY <1>2, RouterQuietly, OthersQuietly, NoResizeKeepsLock
<1>3. CASE WorkerStep  BY <1>3, WorkerQuietly, NoResizeKeepsLock
<1>4. CASE AgentStep \/ UNCHANGED vars \/ \E r \in Requirements : BindManually(r)
  <2>1. UNCHANGED <<slotCount, act, worker>> /\ running' \subseteq running
    BY <1>4 DEF AgentStep, AgentFinishes, ResumedFinishes, vars, BindManually, agentVars
  <2> QED BY <2>1, NoResizeKeepsLock DEF NoResize
<1>5. CASE Crash
  BY <1>5, IdleIsDoing
     DEF Crash, LockInv, SubmissionAlone, NoRowInLeavingSlot, Resizing
<1> QED BY <1>1, <1>2, <1>3, <1>4, <1>5, ResizeStepKeepsLock DEF Next

LEMMA LockHolds == Spec => []LockInv
<1>1. Init => LockInv
  BY IdleIsDoing DEF Init, LockInv, SubmissionAlone, NoRowInLeavingSlot
<1> QED BY <1>1, LockKept, IInvHolds, PTL DEF Spec

\* While a shrink takes a slot away, from its inspection to its end, no job of
\* a queue row is in that slot: neither a submission that compared the slot with
\* the count before nor one that fails after ccbd took it puts a row there
\* (SlotResizeService.shrink, AnchorDispatchWorker under runWithSlotResizeLock).
THEOREM NoRowDispatchedToLeavingSlot == Spec => []NoRowInLeavingSlot
<1>1. LockInv => NoRowInLeavingSlot  BY DEF LockInv
<1> QED BY <1>1, LockHolds, PTL

\* Between ccbd's answer and the commit of a submission no resize is under way,
\* and the slot count stays what it was: the slot the worker marks busy is not
\* taken away under it.
THEOREM SubmissionKeepsTopology ==
  Spec => []SubmissionAlone /\ [][worker.at = "commit" => UNCHANGED slotCount]_vars
<1>1. LockInv => SubmissionAlone  BY DEF LockInv
<1>2. IInv /\ LockInv /\ [Next]_vars
        => [worker.at = "commit" => UNCHANGED slotCount]_vars
  <2> SUFFICES ASSUME IInv, LockInv, Next, worker.at = "commit"
               PROVE  UNCHANGED slotCount
    BY DEF vars
  <2>1. ASSUME NEW p \in Procs PROVE ~ResizeStep(p)
    BY DEF LockInv, SubmissionAlone, ResizeStep, Shrink, ShrinkEnds, Grow, GrowEnds,
           Resizing
  <2>2. ASSUME NEW p \in Procs, Starts(p) PROVE UNCHANGED slotCount
    BY <2>2, StartsQuietly DEF NoResize, ShrinkInspect, GrowStart
  <2>3. ASSUME NEW p \in Procs, RouterStep(p) \/ ReconcileStep(p) \/ RouteStep(p)
        PROVE  UNCHANGED slotCount
    BY <2>3, RouterQuietly, OthersQuietly DEF NoResize
  <2>4. CASE WorkerStep  BY <2>4, WorkerQuietly DEF NoResize
  <2>5. CASE AgentStep \/ Crash \/ \E r \in Requirements : BindManually(r)
    BY <2>5 DEF AgentStep, AgentFinishes, ResumedFinishes, Crash, BindManually
  <2> QED BY <2>1, <2>2, <2>3, <2>4, <2>5 DEF Next
<1> QED BY <1>1, <1>2, IInvHolds, LockHolds, PTL DEF Spec
=============================================================================
