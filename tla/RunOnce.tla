------------------------------ MODULE RunOnce ------------------------------
(***************************************************************************)
(* What an idempotency key is worth.  A caller runs a key only after it      *)
(* looked for a kept run and found none; one caller at a time runs a key;    *)
(* a look is good for one run.  Runs are numbered as they succeed.  One of   *)
(* them may be kept, the newest there is then, and it is kept for good.      *)
(* Once it is, nobody looks in vain: only callers whose look was under way   *)
(* by then may still run the key, each of them once.                         *)
(***************************************************************************)
EXTENDS Naturals

CONSTANTS Callers, NoCaller, Keys, NoKey

VARIABLES
  seeking,  \* the key that each caller looked for in vain and may yet run
  running,  \* each key: the caller that runs it
  runs,     \* each key: its runs that succeeded
  kept,     \* the run that is the key's answer from now on, 0 if none
  ran       \* how many runs there have been

vars == <<seeking, running, runs, kept, ran>>

Init == /\ seeking = [c \in Callers |-> NoKey]
        /\ running = [k \in Keys |-> NoCaller]
        /\ runs = [k \in Keys |-> {}] /\ kept = [k \in Keys |-> 0] /\ ran = 0

Look(c, k) == /\ kept[k] = 0 /\ seeking' = [seeking EXCEPT ![c] = k]
              /\ UNCHANGED <<running, runs, kept, ran>>

Start(c, k) == /\ seeking[c] = k /\ running[k] = NoCaller
               /\ running' = [running EXCEPT ![k] = c]
               /\ UNCHANGED <<seeking, runs, kept, ran>>

\* Another runs the key, or the run failed.
GiveUp(c) == /\ seeking' = [seeking EXCEPT ![c] = NoKey]
             /\ UNCHANGED <<running, runs, kept, ran>>

Run(c, k) == /\ seeking[c] = k /\ running[k] = c /\ ran' = ran + 1
             /\ runs' = [runs EXCEPT ![k] = @ \union {ran + 1}]
             /\ seeking' = [seeking EXCEPT ![c] = NoKey]
             /\ UNCHANGED <<running, kept>>

\* A run without a key.
RunUnkeyed == ran' = ran + 1 /\ UNCHANGED <<seeking, running, runs, kept>>

\* The run has ended, with its result kept or not.
Stop(k) == /\ running' = [running EXCEPT ![k] = NoCaller]
           /\ \/ UNCHANGED kept
              \/ /\ kept[k] = 0
                 /\ \E r \in runs[k] : /\ \A s \in runs[k] : s <= r
                                       /\ kept' = [kept EXCEPT ![k] = r]
           /\ UNCHANGED <<seeking, runs, ran>>

\* Look, run and keep in one transaction.
Transaction(k) == /\ kept[k] = 0 /\ running[k] = NoCaller /\ ran' = ran + 1
                  /\ runs' = [runs EXCEPT ![k] = @ \union {ran + 1}]
                  /\ kept' \in {kept, [kept EXCEPT ![k] = ran + 1]}
                  /\ UNCHANGED <<seeking, running>>

Crash == /\ seeking' = [c \in Callers |-> NoKey]
         /\ running' = [k \in Keys |-> NoCaller]
         /\ UNCHANGED <<runs, kept, ran>>

Next == \/ RunUnkeyed \/ Crash
        \/ \E c \in Callers : GiveUp(c)
        \/ \E c \in Callers, k \in Keys : Look(c, k) \/ Start(c, k) \/ Run(c, k)
        \/ \E k \in Keys : Stop(k) \/ Transaction(k)

Spec == Init /\ [][Next]_vars
=============================================================================
