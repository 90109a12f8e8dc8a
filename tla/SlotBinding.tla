---------------------------- MODULE SlotBinding -----------------------------
(***************************************************************************)
(* The slot_binding table of one project and the operations of              *)
(* SlotBindingService on it.  Each operation is one SQLite transaction or   *)
(* one statement, hence one atomic change; the callers interleave them.     *)
(*                                                                         *)
(* A slot whose row does not exist yet is an idle slot with no requirement: *)
(* bindRequirement treats both alike, and the other writers only name slots *)
(* that were bound once.  The states recovering and draining of the schema  *)
(* are written by no code.                                                  *)
(***************************************************************************)
EXTENDS Naturals

CONSTANTS
  Requirements,  \* the requirements of one project
  NoReq,         \* the null of requirement_id
  MaxSlots       \* MAX_PROJECT_SLOT_COUNT

ASSUME SlotAssumption == MaxSlots \in Nat \ {0} /\ NoReq \notin Requirements

Slots == 1..MaxSlots
NoSlot == 0
SlotStates == {"idle", "bound", "busy", "unhealthy"}

VARIABLES
  slotCount,  \* Project.slotCount: the topology is the slots 1..slotCount
  holder,     \* requirement_id of each slot's row
  state       \* state of each slot's row

bindingVars == <<holder, state>>

BindingTypeOK ==
  /\ slotCount \in Slots
  /\ holder \in [Slots -> Requirements \union {NoReq}]
  /\ state \in [Slots -> SlotStates]

BindingInit ==
  /\ holder = [s \in Slots |-> NoReq]
  /\ state = [s \in Slots |-> "idle"]

-----------------------------------------------------------------------------
HeldBy(r, s) == s \in Slots /\ holder[s] = r

\* Mutant of FirstFree: a bound slot counts as free, only a busy one does not.
FirstNotBusy(s) ==
  /\ s \in 1..slotCount
  /\ state[s] # "busy"
  /\ \A t \in 1..slotCount : state[t] # "busy" => s <= t

\* The first slot of the topology that no row occupies.
FirstFree(s) ==
  /\ s \in 1..slotCount
  /\ state[s] = "idle"
  /\ \A t \in 1..slotCount : state[t] = "idle" => s <= t

\* Mutant of Bind: the transaction does not look for the binding again.
BindWithoutLooking(r, s) ==
  \/ /\ FirstFree(s)
     /\ holder' = [holder EXCEPT ![s] = r]
     /\ state' = [state EXCEPT ![s] = "bound"]
  \/ /\ ~ \E t \in Slots : FirstFree(t)
     /\ s = NoSlot
     /\ UNCHANGED bindingVars

\* bindRequirement: the slot the requirement already has, else the first free
\* one, which it takes, else none.  s is the slot the call returns.
Bind(r, s) ==
  \/ /\ HeldBy(r, s)
     /\ UNCHANGED bindingVars
  \/ /\ ~ \E t \in Slots : HeldBy(r, t)
     /\ FirstFree(s)
     /\ holder' = [holder EXCEPT ![s] = r]
     /\ state' = [state EXCEPT ![s] = "bound"]
  \/ /\ ~ \E t \in Slots : HeldBy(r, t)
     /\ ~ \E t \in Slots : FirstFree(t)
     /\ s = NoSlot
     /\ UNCHANGED bindingVars

\* markBusy, markBound, the stale detector's timeout: the state is written
\* whatever it was, and whoever holds the slot.
Mark(s, newState) ==
  /\ state' = [state EXCEPT ![s] = newState]
  /\ UNCHANGED holder

\* Mutant of Free: the requirement stays in the row.
FreeKeepingRequirement(s) ==
  /\ state' = [state EXCEPT ![s] = "idle"]
  /\ UNCHANGED holder

\* releaseSlot: unconditional too.
Free(s) ==
  /\ holder' = [holder EXCEPT ![s] = NoReq]
  /\ state' = [state EXCEPT ![s] = "idle"]

\* updateActivityForRequirement: an outcome of r makes r's slot bound again.
Activity(r) ==
  /\ state' = [s \in Slots |-> IF holder[s] = r /\ state[s] # "idle"
                                 THEN "bound" ELSE state[s]]
  /\ UNCHANGED holder
=============================================================================
