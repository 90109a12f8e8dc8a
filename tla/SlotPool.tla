------------------------------ MODULE SlotPool ------------------------------
(***************************************************************************)
(* What the slot table promises, whatever happens around it: a slot belongs *)
(* to one requirement at a time, a requirement to one slot, and a slot      *)
(* passes from one requirement to another only by way of being free.        *)
(* SlotDispatch, the server's binding, queue and worker code, is shown to   *)
(* implement this specification.                                            *)
(***************************************************************************)
CONSTANTS Requirements,  \* the requirements of one project
          NoReq,         \* "no requirement": the null of requirement_id
          Slots          \* the slots of one project

VARIABLE holder  \* the requirement each slot is bound to, or NoReq

Init == holder = [s \in Slots |-> NoReq]

Claim(r, s) ==
  /\ holder[s] = NoReq
  /\ \A t \in Slots : holder[t] # r
  /\ holder' = [holder EXCEPT ![s] = r]

Release(s) ==
  /\ holder[s] # NoReq
  /\ holder' = [holder EXCEPT ![s] = NoReq]

Next == \E s \in Slots : Release(s) \/ \E r \in Requirements : Claim(r, s)

Spec == Init /\ [][Next]_holder
=============================================================================
