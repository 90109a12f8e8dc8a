---------------------------- MODULE SlotTopology ----------------------------
(***************************************************************************)
(* What resizes promise the rest of the console: the slot count changes only *)
(* by one, between one and the maximum, by a single resize at a time; it     *)
(* grows as the last thing a resize does that may fail, and what a shrink    *)
(* took away it may give back.                                               *)
(***************************************************************************)
EXTENDS Naturals

CONSTANT MaxSlots

VARIABLES
  slotCount,  \* the slots claims and the worker may use
  phase       \* what the resize that holds the lock has done

vars == <<slotCount, phase>>

Phases == {"none", "shrink", "shrunk", "grow", "grown"}

Init == slotCount \in 1..MaxSlots /\ phase = "none"

StartShrink == phase = "none" /\ slotCount > 1
               /\ phase' = "shrink" /\ UNCHANGED slotCount
Shrink == phase = "shrink" /\ phase' = "shrunk" /\ slotCount' = slotCount - 1
EndShrink == phase = "shrunk" /\ phase' = "none"
             /\ slotCount' \in {slotCount, slotCount + 1}

StartGrow == phase = "none" /\ slotCount < MaxSlots
             /\ phase' = "grow" /\ UNCHANGED slotCount
Grow == phase = "grow" /\ phase' \in {"grown", "none"}
        /\ slotCount' = slotCount + 1

\* The resize gives up, ends, or the server stops under it.
Leave == phase # "none" /\ phase' = "none" /\ UNCHANGED slotCount

Next == StartShrink \/ Shrink \/ EndShrink \/ StartGrow \/ Grow \/ Leave

Spec == Init /\ [][Next]_vars
=============================================================================
