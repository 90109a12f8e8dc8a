----------------------------- MODULE ConfigLock -----------------------------
(***************************************************************************)
(* The per-project lock around .ccb/ccb.config and the slot count:          *)
(* ManagedConfigMutationLock.runExclusive, a chain of promises kept in a    *)
(* Map, and runWithSlotResizeLock, which races it with a timer.             *)
(*                                                                         *)
(* One project is modelled (the Map keeps projects apart).  A call is the   *)
(* number of its arrival: JavaScript runs the prologue of runExclusive up   *)
(* to its first await without interruption, so arrivals are totally         *)
(* ordered.  Every later step is a continuation of its own and interleaves  *)
(* with the continuations of the other calls.                               *)
(***************************************************************************)
EXTENDS Naturals

CONSTANT MaxCalls  \* bound on the number of calls one behaviour makes

ASSUME MaxCallsAssumption == MaxCalls \in Nat \ {0}

Calls == 1..MaxCalls

VARIABLES
  called,    \* calls made so far
  tail,      \* the call whose promise projectLocks holds, 0 if no entry
  previous,  \* the call each call found in projectLocks, 0 if none
  phase,     \* where each call is in runExclusive
  settled,   \* calls whose chained promise has resolved
  timed,     \* calls made through runWithSlotResizeLock
  answer     \* what the caller has been told

lockVars == <<called, tail, previous, phase, settled, timed, answer>>

Phases == {"uncalled", "waiting", "working", "refusing", "released"}
Answers == {"pending", "timeout", "done"}

TypeOK ==
  /\ called \in 0..MaxCalls
  /\ tail \in 0..MaxCalls
  /\ previous \in [Calls -> 0..MaxCalls]
  /\ phase \in [Calls -> Phases]
  /\ settled \in SUBSET Calls
  /\ timed \in SUBSET Calls
  /\ answer \in [Calls -> Answers]

Init ==
  /\ called = 0
  /\ tail = 0
  /\ previous = [c \in Calls |-> 0]
  /\ phase = [c \in Calls |-> "uncalled"]
  /\ settled = {}
  /\ timed = {}
  /\ answer = [c \in Calls |-> "pending"]

-----------------------------------------------------------------------------
\* Between the grant of the lock and the finally block.
Holds(c) == phase[c] \in {"working", "refusing"}

\* Mutant of PreviousSettled: the predecessor is not awaited.
PreviousNotAwaited(c) == TRUE

\* `await previous`: no predecessor, or its chained promise has resolved.
PreviousSettled(c) == previous[c] = 0 \/ previous[c] \in settled

\* The prologue of runExclusive: read the Map, chain, write the Map.
Call(c, withTimeout) ==
  /\ c = called + 1
  /\ called' = c
  /\ previous' = [previous EXCEPT ![c] = tail]
  /\ tail' = c
  /\ phase' = [phase EXCEPT ![c] = "waiting"]
  /\ timed' = IF withTimeout THEN timed \union {c} ELSE timed
  /\ UNCHANGED <<settled, answer>>

\* Mutant of Enter: the callback does not look at timedOut.
EnterAfterTimeout(c) ==
  /\ phase[c] = "waiting"
  /\ PreviousSettled(c)
  /\ phase' = [phase EXCEPT ![c] = "working"]
  /\ UNCHANGED <<called, tail, previous, settled, timed, answer>>

\* The lock is granted: the work starts, unless the timer fired first, in
\* which case the callback throws at once and the work is never run.
Enter(c) ==
  /\ phase[c] = "waiting"
  /\ PreviousSettled(c)
  /\ phase' = [phase EXCEPT ![c] = IF answer[c] = "timeout" THEN "refusing"
                                                           ELSE "working"]
  /\ UNCHANGED <<called, tail, previous, settled, timed, answer>>

\* Mutants of Release: the Map entry is deleted whoever set it; the promise is
\* not resolved when the work throws.
ReleaseDroppingEntry(c) ==
  /\ Holds(c)
  /\ phase' = [phase EXCEPT ![c] = "released"]
  /\ tail' = 0
  /\ answer' = [answer EXCEPT ![c] = IF @ = "pending" THEN "done" ELSE @]
  /\ UNCHANGED <<called, previous, settled, timed>>

ReleaseOnlySuccess(c) ==
  /\ phase[c] = "working"
  /\ phase' = [phase EXCEPT ![c] = "released"]
  /\ tail' = IF tail = c THEN 0 ELSE tail
  /\ answer' = [answer EXCEPT ![c] = IF @ = "pending" THEN "done" ELSE @]
  /\ UNCHANGED <<called, previous, settled, timed>>

\* The finally block: resolve the own promise and drop the Map entry if no
\* later call has chained itself to it.
Release(c) ==
  /\ Holds(c)
  /\ phase' = [phase EXCEPT ![c] = "released"]
  /\ tail' = IF tail = c THEN 0 ELSE tail
  /\ answer' = [answer EXCEPT ![c] = IF @ = "pending" THEN "done" ELSE @]
  /\ UNCHANGED <<called, previous, settled, timed>>

\* Mutant of Settle: the predecessor's promise is resolved in place of the own.
SettlePredecessor(c) ==
  /\ phase[c] = "released"
  /\ c \notin settled
  /\ PreviousSettled(c)
  /\ settled' = settled \union {previous[c]}
  /\ UNCHANGED <<called, tail, previous, phase, timed, answer>>

\* `previous.catch().then(() => current)` resolves once both have.
Settle(c) ==
  /\ phase[c] = "released"
  /\ c \notin settled
  /\ PreviousSettled(c)
  /\ settled' = settled \union {c}
  /\ UNCHANGED <<called, tail, previous, phase, timed, answer>>

\* The timer of runWithSlotResizeLock, cleared when the work starts.
Timeout(c) ==
  /\ c \in timed
  /\ phase[c] = "waiting"
  /\ answer[c] = "pending"
  /\ answer' = [answer EXCEPT ![c] = "timeout"]
  /\ UNCHANGED <<called, tail, previous, phase, settled, timed>>

Next == \E c \in Calls :
  \/ \E withTimeout \in BOOLEAN : Call(c, withTimeout)
  \/ Enter(c)
  \/ Release(c)
  \/ Settle(c)
  \/ Timeout(c)

Spec == Init /\ [][Next]_lockVars

\* The event loop runs every continuation that is ready, and the work done
\* under the lock ends (by returning or throwing).  Nobody owes a call or a
\* timeout.
Fairness == \A c \in Calls :
  /\ WF_lockVars(Enter(c))
  /\ WF_lockVars(Release(c))
  /\ WF_lockVars(Settle(c))

FairSpec == Spec /\ Fairness

-----------------------------------------------------------------------------
\* At most one call is between the grant of the lock and its finally block.
MutualExclusion == \A c, d \in Calls : Holds(c) /\ Holds(d) => c = d

\* No call is served before a call that arrived earlier has left.
FirstComeFirstServed ==
  \A c, d \in Calls : Holds(c) /\ d < c => phase[d] = "released"

\* The Map has an entry exactly while some call is in flight: an entry left
\* behind would grow the Map, an entry dropped early would let a newcomer in
\* beside the calls still chained.
EntryWhileInFlight ==
  tail # 0 <=> \E c \in Calls : phase[c] \notin {"uncalled", "released"}

\* A caller that was answered SLOT_RESIZE_LOCK_TIMEOUT never has its work
\* run afterwards: it would be done behind the back of a caller told it was
\* not, and done twice if that caller retries.
TimedOutNeverWorks == \A c \in Calls : answer[c] = "timeout" => phase[c] # "working"

\* Every caller is answered, and every call lets go of the lock.
EveryCallEnds == \A c \in Calls : phase[c] = "waiting" ~> phase[c] = "released"

-----------------------------------------------------------------------------
\* The abstract mutex this lock implements.
WaitingCalls == {c \in Calls : phase[c] = "waiting"}
LockHolder ==
  IF \E c \in Calls : Holds(c) THEN CHOOSE c \in Calls : Holds(c) ELSE 0

Mutex == INSTANCE ProjectMutex WITH
  issued <- called, waiting <- WaitingCalls, holder <- LockHolder

\* The promise chain is a first-come-first-served mutex.
ImplementsMutex == Mutex!Spec
=============================================================================
