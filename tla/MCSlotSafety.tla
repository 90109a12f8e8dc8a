---------------------------- MODULE MCSlotSafety ----------------------------
(* The slots in the small, in two ways that a behaviour chooses between.       *)
(* "queue": two slots, two rows, and three processes that enqueue, drain and   *)
(* release while the worker dispatches.  "routes": three processes that may be *)
(* any request, tick, scan or hook delivery at once, with crashes, over one    *)
(* slot that two requirements compete for, and one row; resizes, which need a  *)
(* second slot, are left to MCSlotLiveness.                                    *)
EXTENDS SlotDispatch, TLC

VARIABLE part

SafetyInit ==
  /\ Init
  /\ \/ part = "queue" /\ slotCount = MaxSlots
     \/ part = "routes" /\ slotCount = 1

QueueNext ==
  \/ \E p \in Procs :
       \/ \E r \in Requirements, cmd \in Commands : EnqueueStart(p, r, cmd)
       \/ \E s \in Slots : ReleaseStart(p, s, FALSE)
       \/ RouterStep(p)
       \/ Release(p)
  \/ WorkerStep
  \/ AgentStep

OneRow ==
  Cardinality({p \in Procs : act[p].at \in {"claim", "record"}})
    + Cardinality({i \in RowIds : rows[i].status # "absent"}) <= 1
OneSlot == \A p \in Procs : act[p].slot <= 1 /\ act[p].at \notin Resizing

SafetyNext ==
  /\ UNCHANGED part
  /\ \/ part = "queue" /\ QueueNext
     \/ part = "routes" /\ Next /\ OneRow' /\ OneSlot'

SafetySpec == SafetyInit /\ [][SafetyNext]_<<vars, part>>

Symmetry == Permutations(Requirements) \union Permutations(Procs)
=============================================================================
