---------------------------- MODULE ProjectMutex ----------------------------
(***************************************************************************)
(* What a per-project mutual exclusion promises, whatever it is built of:   *)
(* numbered calls arrive, at most one of them holds the lock, and the lock  *)
(* goes to the call that has waited longest.  ConfigLock, the promise chain *)
(* of the server, is shown to implement this specification.                 *)
(***************************************************************************)
EXTENDS Naturals

CONSTANT MaxCalls  \* bound on the number of calls one behaviour makes

VARIABLES issued,   \* calls that have arrived so far; a call is its number
          waiting,  \* calls that arrived and were not served
          holder    \* the call that holds the lock, 0 if it is free

mutexVars == <<issued, waiting, holder>>

Init == issued = 0 /\ waiting = {} /\ holder = 0

Arrive ==
  /\ issued < MaxCalls
  /\ issued' = issued + 1
  /\ waiting' = waiting \union {issued + 1}
  /\ UNCHANGED holder

Acquire(c) ==
  /\ holder = 0
  /\ c \in waiting
  /\ \A d \in waiting : c <= d
  /\ holder' = c
  /\ waiting' = waiting \ {c}
  /\ UNCHANGED issued

Leave ==
  /\ holder # 0
  /\ holder' = 0
  /\ UNCHANGED <<issued, waiting>>

Next == Arrive \/ (\E c \in 1..MaxCalls : Acquire(c)) \/ Leave

Spec == Init /\ [][Next]_mutexVars
=============================================================================
