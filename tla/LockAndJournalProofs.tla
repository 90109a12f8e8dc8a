------------------------ MODULE LockAndJournalProofs ------------------------
(***************************************************************************)
(* The lock of a project, for any number of calls, and the intake of its    *)
(* journal, for any ids, lines, hooks and scans; then the two together.     *)
(*                                                                         *)
(* The promise chain of ManagedConfigMutationLock is a first-come-first-    *)
(* served mutex.  The inductive invariant is ChainInv below: the released   *)
(* calls are a prefix of the arrivals, a call's predecessor is the arrival  *)
(* just before it, and the Map entry is the last arrival as long as that    *)
(* one is in flight.                                                        *)
(*                                                                         *)
(* A row of the project vouches for every line before the first one with    *)
(* its id.  It is inductive with what a scan has behind it: the lines it    *)
(* passed are ingested (ReaderInv).  A row is new only when no line before  *)
(* has its id, since those were ingested.                                   *)
(***************************************************************************)
EXTENDS MCLockAndJournal, FiniteSetTheorems, TLAPS

\* A call that found a predecessor found the arrival just before it.
PreviousIsNeighbour ==
  \A c \in Calls : c <= called /\ previous[c] # 0 => previous[c] = c - 1

\* A call that found none arrived when everyone before it had left.
NoPreviousMeansAllLeft ==
  \A c, d \in Calls :
    c <= called /\ previous[c] = 0 /\ d < c => phase[d] = "released"

\* Whoever was served was served after all earlier calls had left.
ServedInOrder ==
  \A c, d \in Calls :
    phase[c] \in {"working", "refusing", "released"} /\ d < c
      => phase[d] = "released"

\* The Map entry is the last arrival, in flight; without one all have left.
TailIsLast ==
  /\ tail # 0 => tail = called /\ phase[tail] # "released"
  /\ tail = 0 => \A c \in Calls : c <= called => phase[c] = "released"

ChainInv ==
  /\ TypeOK
  /\ \A c \in Calls : phase[c] = "uncalled" <=> c > called
  /\ \A c \in settled : phase[c] = "released"
  /\ PreviousIsNeighbour
  /\ NoPreviousMeansAllLeft
  /\ ServedInOrder
  /\ TailIsLast
  /\ TimedOutNeverWorks

LEMMA ChainInit == Init => ChainInv
<1> SUFFICES ASSUME Init PROVE ChainInv
  OBVIOUS
<1> USE MaxCallsAssumption DEF Init, Calls
<1>1. TypeOK
  BY DEF TypeOK, Phases, Answers
<1>2. PreviousIsNeighbour /\ NoPreviousMeansAllLeft /\ ServedInOrder
  BY DEF PreviousIsNeighbour, NoPreviousMeansAllLeft, ServedInOrder
<1>3. TailIsLast /\ TimedOutNeverWorks
  BY DEF TailIsLast, TimedOutNeverWorks
<1> QED
  BY <1>1, <1>2, <1>3 DEF ChainInv

LEMMA CallStep ==
  ASSUME ChainInv, NEW c \in Calls, NEW b \in BOOLEAN, Call(c, b)
  PROVE  ChainInv'
<1> USE MaxCallsAssumption DEF ChainInv, TypeOK, Calls, Call
<1>1. TypeOK'
  BY DEF Phases, Answers
<1>2. \A d \in Calls : d # c => phase'[d] = phase[d] /\ previous'[d] = previous[d]
  OBVIOUS
<1>3. phase'[c] = "waiting" /\ previous'[c] = tail /\ called' = c /\ tail' = c
  OBVIOUS
<1>4. \A d \in Calls : phase[d] = "uncalled" <=> d >= c
  OBVIOUS
<1>5. (\A d \in Calls : phase[d] = "uncalled" <=> d > called)'
  BY <1>2, <1>3, <1>4
<1>6. (\A d \in settled : phase[d] = "released")'
  BY <1>2, <1>4
<1>7. PreviousIsNeighbour'
  BY <1>2, <1>3 DEF PreviousIsNeighbour, TailIsLast
<1>8. NoPreviousMeansAllLeft'
  BY <1>2, <1>3 DEF NoPreviousMeansAllLeft, TailIsLast
<1>9. ServedInOrder'
  BY <1>2, <1>3, <1>4 DEF ServedInOrder
<1>10. TailIsLast'
  BY <1>3 DEF TailIsLast
<1>11. TimedOutNeverWorks'
  BY <1>2, <1>3 DEF TimedOutNeverWorks
<1> QED
  BY <1>1, <1>5, <1>6, <1>7, <1>8, <1>9, <1>10, <1>11

LEMMA EnterStep ==
  ASSUME ChainInv, NEW c \in Calls, Enter(c)
  PROVE  ChainInv'
<1> USE MaxCallsAssumption DEF ChainInv, TypeOK, Calls, Enter
<1>1. TypeOK'
  BY DEF Phases
<1>2. \A d \in Calls : d # c => phase'[d] = phase[d]
  OBVIOUS
<1>3. phase'[c] \in {"working", "refusing"} /\ phase[c] = "waiting"
  OBVIOUS
<1>4. \A d \in Calls : d < c => phase[d] = "released"
  <2>1. CASE previous[c] = 0
    BY <2>1 DEF NoPreviousMeansAllLeft
  <2>2. CASE previous[c] # 0
    <3>1. previous[c] = c - 1 /\ previous[c] \in Calls
      BY <2>2 DEF PreviousIsNeighbour
    <3>2. phase[c - 1] = "released"
      BY <2>2, <3>1 DEF PreviousSettled
    <3> QED
      BY <3>1, <3>2 DEF ServedInOrder
  <2> QED
    BY <2>1, <2>2
<1>5. (\A d \in Calls : phase[d] = "uncalled" <=> d > called)'
  BY <1>2, <1>3
<1>6. (\A d \in settled : phase[d] = "released")'
  BY <1>2, <1>3
<1>7. PreviousIsNeighbour' /\ NoPreviousMeansAllLeft'
  BY <1>2, <1>3 DEF PreviousIsNeighbour, NoPreviousMeansAllLeft
<1>8. ServedInOrder'
  BY <1>2, <1>3, <1>4 DEF ServedInOrder
<1>9. TailIsLast'
  BY <1>2, <1>3 DEF TailIsLast
<1>10. TimedOutNeverWorks'
  BY <1>2, <1>3 DEF TimedOutNeverWorks
<1> QED
  BY <1>1, <1>5, <1>6, <1>7, <1>8, <1>9, <1>10

LEMMA ReleaseStep ==
  ASSUME ChainInv, NEW c \in Calls, Release(c)
  PROVE  ChainInv'
<1> USE MaxCallsAssumption DEF ChainInv, TypeOK, Calls, Release, Holds
<1>1. TypeOK'
  BY DEF Phases, Answers
<1>2. \A d \in Calls : d # c => phase'[d] = phase[d] /\ answer'[d] = answer[d]
  OBVIOUS
<1>3. phase'[c] = "released" /\ phase[c] \in {"working", "refusing"}
  OBVIOUS
<1>4. (\A d \in Calls : phase[d] = "uncalled" <=> d > called)'
  BY <1>2, <1>3
<1>5. (\A d \in settled : phase[d] = "released")'
  BY <1>2, <1>3
<1>6. PreviousIsNeighbour' /\ NoPreviousMeansAllLeft'
  BY <1>2, <1>3 DEF PreviousIsNeighbour, NoPreviousMeansAllLeft
<1>7. ServedInOrder'
  BY <1>2, <1>3 DEF ServedInOrder
<1>8. TailIsLast'
  BY <1>2, <1>3 DEF TailIsLast, ServedInOrder
<1>9. TimedOutNeverWorks'
  BY <1>2, <1>3 DEF TimedOutNeverWorks
<1> QED
  BY <1>1, <1>4, <1>5, <1>6, <1>7, <1>8, <1>9

LEMMA SettleStep ==
  ASSUME ChainInv, NEW c \in Calls, Settle(c)
  PROVE  ChainInv'
<1> USE DEF ChainInv, Settle
<1>1. TypeOK'
  BY DEF TypeOK
<1>2. PreviousIsNeighbour' /\ NoPreviousMeansAllLeft' /\ ServedInOrder'
  BY DEF PreviousIsNeighbour, NoPreviousMeansAllLeft, ServedInOrder
<1>3. TailIsLast' /\ TimedOutNeverWorks'
  BY DEF TailIsLast, TimedOutNeverWorks
<1> QED
  BY <1>1, <1>2, <1>3

LEMMA TimeoutStep ==
  ASSUME ChainInv, NEW c \in Calls, Timeout(c)
  PROVE  ChainInv'
<1> USE DEF ChainInv, Timeout
<1>1. TypeOK'
  BY DEF TypeOK, Answers
<1>2. PreviousIsNeighbour' /\ NoPreviousMeansAllLeft' /\ ServedInOrder'
  BY DEF PreviousIsNeighbour, NoPreviousMeansAllLeft, ServedInOrder
<1>3. TailIsLast'
  BY DEF TailIsLast
<1>4. TimedOutNeverWorks'
  BY DEF TimedOutNeverWorks, TypeOK
<1> QED
  BY <1>1, <1>2, <1>3, <1>4

LEMMA ChainStep == ChainInv /\ [Next]_lockVars => ChainInv'
<1> SUFFICES ASSUME ChainInv, [Next]_lockVars PROVE ChainInv'
  OBVIOUS
<1>1. CASE Next
  BY <1>1, CallStep, EnterStep, ReleaseStep, SettleStep, TimeoutStep DEF Next
<1>2. CASE UNCHANGED lockVars
  BY <1>2 DEF ChainInv, TypeOK, PreviousIsNeighbour, NoPreviousMeansAllLeft,
              ServedInOrder, TailIsLast, TimedOutNeverWorks, lockVars
<1> QED
  BY <1>1, <1>2

LEMMA ChainAlways == Spec => []ChainInv
BY ChainInit, ChainStep, PTL DEF Spec

-----------------------------------------------------------------------------
\* Every variable keeps its type, whatever the number of calls.
THEOREM LockTypeCorrect == Spec => []TypeOK
<1>1. ChainInv => TypeOK
  BY DEF ChainInv
<1> QED
  BY <1>1, ChainAlways, PTL

\* runExclusive never runs two works of one project at the same time.
THEOREM LockExcludes == Spec => []MutualExclusion
<1>1. ChainInv => MutualExclusion
  BY DEF ChainInv, ServedInOrder, MutualExclusion, Holds, Calls
<1> QED
  BY <1>1, ChainAlways, PTL

\* runExclusive serves the calls of a project in the order of their arrival.
THEOREM LockIsFair == Spec => []FirstComeFirstServed
<1>1. ChainInv => FirstComeFirstServed
  BY DEF ChainInv, ServedInOrder, FirstComeFirstServed, Holds
<1> QED
  BY <1>1, ChainAlways, PTL

\* The Map of locks holds an entry exactly while a call is in flight.
THEOREM LockLeavesNoEntry == Spec => []EntryWhileInFlight
<1>1. ChainInv => EntryWhileInFlight
  <2> SUFFICES ASSUME ChainInv PROVE EntryWhileInFlight
    OBVIOUS
  <2> USE MaxCallsAssumption DEF ChainInv, TypeOK, Calls
  <2>1. CASE tail = 0
    BY <2>1 DEF TailIsLast, EntryWhileInFlight
  <2>2. CASE tail # 0
    <3>1. tail \in Calls /\ phase[tail] \notin {"uncalled", "released"}
      BY <2>2 DEF TailIsLast
    <3> QED
      BY <2>2, <3>1 DEF EntryWhileInFlight
  <2> QED
    BY <2>1, <2>2
<1> QED
  BY <1>1, ChainAlways, PTL

\* The work of a call whose caller was told of a timeout is never run.
THEOREM TimeoutIsFinal == Spec => []TimedOutNeverWorks
<1>1. ChainInv => TimedOutNeverWorks
  BY DEF ChainInv
<1> QED
  BY <1>1, ChainAlways, PTL

-----------------------------------------------------------------------------
\* The refinement: each step of the chain is a step of the abstract mutex.

LEMMA HolderUnique ==
  ASSUME MutualExclusion, NEW c \in Calls, Holds(c)
  PROVE  LockHolder = c
BY DEF MutualExclusion, LockHolder

LEMMA HolderUniqueNext ==
  ASSUME MutualExclusion', NEW c \in Calls, Holds(c)'
  PROVE  LockHolder' = c
BY DEF MutualExclusion, LockHolder

\* A step after which the same calls hold the lock has the same holder.
LEMMA SameHolder ==
  ASSUME MutualExclusion, MutualExclusion', \A d \in Calls : Holds(d)' <=> Holds(d)
  PROVE  LockHolder' = LockHolder
<1>1. CASE \E d \in Calls : Holds(d)
  BY <1>1, HolderUnique, HolderUniqueNext
<1>2. CASE \A d \in Calls : ~Holds(d)
  BY <1>2 DEF LockHolder
<1> QED
  BY <1>1, <1>2

LEMMA ChainExcludes == ChainInv => MutualExclusion
BY DEF ChainInv, ServedInOrder, MutualExclusion, Holds, Calls

LEMMA CallArrives ==
  ASSUME ChainInv, ChainInv', NEW c \in Calls, NEW b \in BOOLEAN, Call(c, b)
  PROVE  Mutex!Arrive
<1> USE MaxCallsAssumption DEF Call, ChainInv, TypeOK, Calls
<1>1. called < MaxCalls /\ called' = called + 1
  OBVIOUS
<1>2. WaitingCalls' = WaitingCalls \union {called + 1}
  BY DEF WaitingCalls
<1>3. \A d \in Calls : Holds(d)' <=> Holds(d)
  BY DEF Holds
<1>4. LockHolder' = LockHolder
  BY <1>3, SameHolder, ChainExcludes DEF MutualExclusion, Holds
<1> QED
  BY <1>1, <1>2, <1>4 DEF Mutex!Arrive

LEMMA EnterAcquires ==
  ASSUME ChainInv, ChainInv', NEW c \in Calls, Enter(c)
  PROVE  Mutex!Acquire(c)
<1> USE MaxCallsAssumption DEF Enter, ChainInv, TypeOK, Calls
<1>1. phase[c] = "waiting" /\ phase'[c] \in {"working", "refusing"}
  OBVIOUS
<1>2. \A d \in Calls : d < c => phase[d] = "released"
  BY <1>1 DEF ServedInOrder
<1>3. \A d \in WaitingCalls : c <= d
  BY <1>2 DEF WaitingCalls
<1>4. \A d \in Calls : ~Holds(d)
  <2> SUFFICES ASSUME NEW d \in Calls, Holds(d) PROVE FALSE
    OBVIOUS
  <2>1. d # c /\ ~(d < c)
    BY <1>1, <1>2 DEF Holds
  <2>2. c < d
    BY <2>1
  <2> QED
    BY <1>1, <2>2 DEF ServedInOrder, Holds
<1>5. LockHolder = 0
  BY <1>4 DEF LockHolder
<1>6. LockHolder' = c
  <2>1. Holds(c)' /\ MutualExclusion'
    BY <1>1, ChainExcludes DEF Holds, ServedInOrder, MutualExclusion
  <2> QED
    BY <2>1, HolderUniqueNext
<1>7. WaitingCalls' = WaitingCalls \ {c}
  BY <1>1 DEF WaitingCalls
<1> QED
  BY <1>1, <1>3, <1>5, <1>6, <1>7 DEF Mutex!Acquire, WaitingCalls

LEMMA ReleaseLeaves ==
  ASSUME ChainInv, ChainInv', NEW c \in Calls, Release(c)
  PROVE  Mutex!Leave
<1> USE MaxCallsAssumption DEF Release, ChainInv, TypeOK, Calls
<1>1. Holds(c) /\ phase'[c] = "released"
  BY DEF Holds
<1>2. LockHolder = c
  BY <1>1, HolderUnique, ChainExcludes
<1>3. \A d \in Calls : ~Holds(d)'
  BY <1>1, ChainExcludes DEF Holds, MutualExclusion
<1>4. LockHolder' = 0
  BY <1>3 DEF LockHolder
<1>5. WaitingCalls' = WaitingCalls
  BY <1>1 DEF WaitingCalls, Holds
<1> QED
  BY <1>2, <1>4, <1>5 DEF Mutex!Leave

LEMMA OtherStutters ==
  ASSUME ChainInv, ChainInv', UNCHANGED <<called, phase>>
  PROVE  UNCHANGED Mutex!mutexVars
<1>1. WaitingCalls' = WaitingCalls
  BY DEF WaitingCalls
<1>2. LockHolder' = LockHolder
  BY SameHolder, ChainExcludes DEF Holds, MutualExclusion
<1> QED
  BY <1>1, <1>2 DEF Mutex!mutexVars

\* ManagedConfigMutationLock implements a first-come-first-served mutex.
THEOREM LockImplementsMutex == Spec => ImplementsMutex
<1>1. Init => Mutex!Init
  BY DEF Init, Mutex!Init, WaitingCalls, LockHolder, Holds, Calls
<1>2. ChainInv /\ ChainInv' /\ [Next]_lockVars => [Mutex!Next]_(Mutex!mutexVars)
  <2> SUFFICES ASSUME ChainInv, ChainInv', [Next]_lockVars
               PROVE  Mutex!Next \/ UNCHANGED Mutex!mutexVars
    OBVIOUS
  <2>1. ASSUME NEW c \in Calls, NEW b \in BOOLEAN, Call(c, b) PROVE Mutex!Next
    BY <2>1, CallArrives DEF Mutex!Next
  <2>2. ASSUME NEW c \in Calls, Enter(c) PROVE Mutex!Next
    BY <2>2, EnterAcquires DEF Mutex!Next, Calls
  <2>3. ASSUME NEW c \in Calls, Release(c) PROVE Mutex!Next
    BY <2>3, ReleaseLeaves DEF Mutex!Next
  <2>4. ASSUME NEW c \in Calls, Settle(c) \/ Timeout(c)
        PROVE  UNCHANGED Mutex!mutexVars
    BY <2>4, OtherStutters DEF Settle, Timeout
  <2>5. CASE UNCHANGED lockVars
    BY <2>5, OtherStutters DEF lockVars
  <2> QED
    BY <2>1, <2>2, <2>3, <2>4, <2>5 DEF Next
<1> QED
  BY <1>1, <1>2, ChainAlways, PTL DEF Spec, ImplementsMutex, Mutex!Spec

(***************************************************************************)
(* The chain never stalls.  A call that is not settled hangs on a row of     *)
(* calls, each chained to the one before it, whose first awaits nothing.     *)
(***************************************************************************)
HeadOf(c, d) ==
  /\ PreviousSettled(d)
  /\ \A e \in d..c : e \notin settled /\ (e # d => previous[e] = e - 1)
HeadInv == \A c \in Calls :
  c =< called /\ c \notin settled => \E d \in 1..c : HeadOf(c, d)

\* What waits for the lock waits for a call that can go on: one that is granted
\* the lock, one that holds it, or one whose chained promise resolves next.
CanGoOn(d) ==
  \/ phase[d] = "waiting" /\ PreviousSettled(d)
  \/ Holds(d)
  \/ phase[d] = "released" /\ d \notin settled /\ PreviousSettled(d)
ChainGoesOn ==
  \A c \in Calls : phase[c] = "waiting" => \E d \in Calls : d =< c /\ CanGoOn(d)

LEMMA HeadInvKept == ChainInv /\ HeadInv /\ [Next]_lockVars => HeadInv'
<1> SUFFICES ASSUME ChainInv, HeadInv, [Next]_lockVars PROVE HeadInv'
  OBVIOUS
<1>t. /\ TypeOK /\ called \in Nat /\ settled \in SUBSET Calls /\ previous \in [Calls -> 0..MaxCalls]
      /\ MaxCalls \in Nat /\ Calls = 1..MaxCalls
      /\ \A c \in settled : phase[c] = "released"
      /\ \A c \in Calls : phase[c] = "uncalled" <=> c > called
      /\ tail # 0 => tail = called /\ phase[tail] # "released"
  BY MaxCallsAssumption DEF ChainInv, TypeOK, TailIsLast, Calls
<1>1. CASE UNCHANGED <<called, previous, settled>>
  BY <1>1 DEF HeadInv, HeadOf, PreviousSettled
<1>2. ASSUME NEW c \in Calls, NEW b \in BOOLEAN, Call(c, b) PROVE HeadInv'
  <2>1. /\ c = called + 1 /\ called' = c /\ settled' = settled
        /\ previous'[c] = tail /\ \A d \in Calls : d # c => previous'[d] = previous[d]
    BY <1>2, <1>t DEF Call
  <2>2. c \notin settled
    BY <1>t, <2>1
  <2>3. ASSUME NEW d \in Calls, d =< called, d \notin settled
        PROVE  \E e \in 1..d : HeadOf(d, e)'
    <3>1. PICK e \in 1..d : HeadOf(d, e)
      BY <2>3 DEF HeadInv
    <3>2. \A x \in e..d : x \in Calls /\ x # c
      BY <1>t, <2>1, <2>3
    <3>3. HeadOf(d, e)'
      BY <1>t, <2>1, <2>3, <3>1, <3>2 DEF HeadOf, PreviousSettled
    <3> QED
      BY <3>3
  <2>4. \E e \in 1..c : HeadOf(c, e)'
    <3>1. CASE tail = 0
      <4>1. HeadOf(c, c)'
        BY <1>t, <2>1, <2>2, <3>1 DEF HeadOf, PreviousSettled
      <4> QED
        BY <1>t, <4>1
    <3>2. CASE tail # 0
      <4>1. PICK l \in Calls : tail = l /\ l = called /\ l \notin settled
        BY <1>t, <2>1, <3>2
      <4>2. PICK e \in 1..l : HeadOf(l, e)'
        BY <1>t, <2>3, <4>1
      <4>3. \A x \in e..c : x \in e..l \/ x = c
        BY <1>t, <2>1, <4>1
      <4>4. c # e /\ e \in 1..c
        BY <1>t, <2>1, <4>1
      <4>5. previous'[c] = c - 1 /\ c \notin settled'
        BY <1>t, <2>1, <2>2, <4>1
      <4>6. /\ PreviousSettled(e)'
            /\ \A x \in e..l : x \notin settled' /\ (x # e => previous'[x] = x - 1)
        BY <4>2 DEF HeadOf
      <4>7. \A x \in e..c : x \notin settled' /\ (x # e => previous'[x] = x - 1)
        BY <4>3, <4>5, <4>6
      <4>8. HeadOf(c, e)'
        BY <4>6, <4>7 DEF HeadOf
      <4> QED
        BY <4>4, <4>8
    <3> QED
      BY <3>1, <3>2
  <2>5. ASSUME NEW d \in Calls, d =< called', d \notin settled'
        PROVE  \E e \in 1..d : HeadOf(d, e)'
    <3>1. d = c \/ (d =< called /\ d \notin settled)
      BY <1>t, <2>1, <2>5
    <3> QED
      BY <2>3, <2>4, <3>1
  <2> QED
    BY <2>5 DEF HeadInv
<1>3. ASSUME NEW c \in Calls, Settle(c) PROVE HeadInv'
  <2>1. /\ settled' = settled \union {c} /\ c \notin settled /\ PreviousSettled(c)
        /\ UNCHANGED <<called, previous>>
    BY <1>3 DEF Settle
  <2>2. ASSUME NEW d \in Calls, d =< called, d \notin settled'
        PROVE  \E e \in 1..d : HeadOf(d, e)'
    <3>1. PICK e \in 1..d : HeadOf(d, e)
      BY <2>1, <2>2 DEF HeadInv
    <3>2. CASE c \notin e..d
      <4>1. HeadOf(d, e)'
        BY <2>1, <3>1, <3>2 DEF HeadOf, PreviousSettled
      <4> QED
        BY <4>1
    \* The call that settles is the first of its row; the next one takes its place.
    <3>3. CASE c \in e..d
      <4>1. c = e
        <5> SUFFICES ASSUME c # e PROVE FALSE
          OBVIOUS
        <5>1. previous[c] = c - 1 /\ c - 1 \in e..d /\ c - 1 # 0
          BY <1>t, <2>2, <3>1, <3>3 DEF HeadOf
        <5> QED
          BY <2>1, <3>1, <5>1 DEF HeadOf, PreviousSettled
      <4>2. c + 1 \in 1..d /\ c + 1 \in e..d
        BY <1>t, <2>1, <2>2, <3>3, <4>1
      <4>3. previous[c + 1] = c
        BY <1>t, <3>1, <4>1, <4>2 DEF HeadOf
      <4>4. \A x \in (c + 1)..d : x \in e..d /\ x # c /\ x # e
        BY <1>t, <2>2, <4>1, <4>2
      <4>5. HeadOf(d, c + 1)'
        BY <2>1, <3>1, <4>3, <4>4 DEF HeadOf, PreviousSettled
      <4> QED
        BY <4>2, <4>5
    <3> QED
      BY <3>2, <3>3
  <2> QED
    BY <2>1, <2>2 DEF HeadInv
<1> QED
  BY <1>1, <1>2, <1>3 DEF Next, Enter, Release, Timeout, lockVars

\* No call waits for a chain that stands still, whatever calls time out and in
\* whatever order the promises of earlier chains resolve.
THEOREM LockNeverStalls == Spec => []ChainGoesOn
<1>1. Init => HeadInv
  BY DEF Init, HeadInv, Calls
<1>2. ChainInv /\ HeadInv => ChainGoesOn
  <2> SUFFICES ASSUME ChainInv, HeadInv, NEW c \in Calls, phase[c] = "waiting"
               PROVE  \E d \in Calls : d =< c /\ CanGoOn(d)
    BY DEF ChainGoesOn
  <2>1. c =< called /\ c \notin settled /\ called \in Nat
    BY MaxCallsAssumption DEF ChainInv, TypeOK, Calls
  <2>2. PICK d \in 1..c : HeadOf(c, d)
    BY <2>1 DEF HeadInv
  <2>3. d \in Calls /\ d =< called /\ d \notin settled /\ PreviousSettled(d)
    BY <2>1, <2>2, MaxCallsAssumption DEF HeadOf, Calls
  <2>4. phase[d] \in {"waiting", "working", "refusing", "released"}
    BY <2>1, <2>3, MaxCallsAssumption DEF ChainInv, TypeOK, Phases, Calls
  <2> QED
    BY <2>2, <2>3, <2>4 DEF CanGoOn, Holds
<1> QED
  BY <1>1, <1>2, HeadInvKept, ChainAlways, PTL DEF Spec

(***************************************************************************)
(* The intake of the journal.                                              *)
(***************************************************************************)
\* A scan has ingested the lines it passed; at an outcome, its row is written.
ReaderInv == \A s \in Readers : reader[s].at \in {"line", "outcome"} =>
  /\ reader[s].next =< reader[s].upto /\ reader[s].upto =< Len(journal)
  /\ Ingested(reader[s].next - 1)
  /\ reader[s].at = "outcome" =>
       Line(s) \in Outcomes \cap EventIds /\ stored[Line(s)] # "none"

\* The first line of an id is one before which all is ingested.
FirstLine(e, f) ==
  /\ f \in 1..Len(journal) /\ journal[f] = e /\ Ingested(f - 1)
  /\ \A j \in 1..(f - 1) : journal[j] # e
OwnInv == \A e \in EventIds : stored[e] = "own" => \E f \in Nat : FirstLine(e, f)

JInv == IntakeTypeOK /\ ReaderInv /\ OwnInv

ReaderSet == [at : {"none", "before", "line", "outcome", "after"},
              upto : Lines, next : 1..MaxLines + 1]
StoredSet == [EventIds -> {"none", "own", "other"}]

LEMMA NoReaderTyped == NoReader \in ReaderSet
BY IntakeAssumption DEF NoReader, ReaderSet, Lines

LEMMA NoHookTyped ==
  NoHook \in [at : {"none", "row"}, asks : BOOLEAN, mark : EventIds \cup {NoMark}]
BY DEF NoHook

\* A row is never lost, and what was applied stays so.
Kept == /\ applied \subseteq applied'
        /\ \A e \in EventIds : stored[e] # "none" => stored'[e] # "none"
        /\ Len(journal) =< Len(journal')
        /\ \A i \in 1..Len(journal) : journal'[i] = journal[i]

LEMMA IngestedKept ==
  ASSUME IntakeTypeOK, Kept, NEW n \in Nat, n =< Len(journal), Ingested(n)
  PROVE  Ingested(n)'
<1> SUFFICES ASSUME NEW i \in 1..n, journal'[i] # Broken
             PROVE  /\ stored'[journal'[i]] # "none"
                    /\ journal'[i] \in Outcomes => journal'[i] \in applied'
  BY DEF Ingested
<1>1. i \in 1..Len(journal) /\ journal'[i] = journal[i]
  BY DEF Kept, IntakeTypeOK
<1>2. journal[i] \in EventIds
  BY <1>1 DEF IntakeTypeOK
<1> QED
  BY <1>1, <1>2 DEF Ingested, Kept

LEMMA FirstLineKept ==
  ASSUME IntakeTypeOK, Kept, NEW e \in EventIds, NEW f \in Nat, FirstLine(e, f)
  PROVE  FirstLine(e, f)'
<1>1. f - 1 \in Nat /\ f - 1 =< Len(journal) /\ Len(journal) \in Nat
  BY DEF FirstLine, IntakeTypeOK
<1>2. Ingested(f - 1)'
  BY <1>1, IngestedKept DEF FirstLine
<1>3. f \in 1..Len(journal') /\ journal'[f] = e
  BY DEF FirstLine, Kept, IntakeTypeOK
<1>4. \A j \in 1..(f - 1) : journal'[j] # e
  BY <1>1 DEF FirstLine, Kept
<1> QED
  BY <1>2, <1>3, <1>4 DEF FirstLine

\* Rows that were the project's keep their first line.
LEMMA OwnKept ==
  ASSUME JInv, Kept, NEW e \in EventIds, stored[e] = "own"
  PROVE  \E f \in Nat : FirstLine(e, f)'
<1>1. PICK f \in Nat : FirstLine(e, f)
  BY DEF JInv, OwnInv
<1> QED
  BY <1>1, FirstLineKept DEF JInv

\* A scan that does not move keeps what is behind it.
LEMMA ReaderKept ==
  ASSUME JInv, Kept, NEW s \in Readers, reader'[s] = reader[s],
         reader'[s].at \in {"line", "outcome"}
  PROVE  /\ reader'[s].next =< reader'[s].upto /\ reader'[s].upto =< Len(journal')
         /\ Ingested(reader[s].next - 1)'
         /\ reader'[s].at = "outcome" =>
              Line(s)' \in Outcomes \cap EventIds /\ stored'[Line(s)'] # "none"
<1>1. /\ reader[s].next \in Nat /\ reader[s].next >= 1 /\ reader[s].upto \in Nat
      /\ Len(journal) \in Nat /\ Len(journal') >= Len(journal)
  BY IntakeAssumption DEF JInv, IntakeTypeOK, Lines, Kept
<1>2. /\ reader[s].next =< reader[s].upto /\ reader[s].upto =< Len(journal)
      /\ Ingested(reader[s].next - 1)
  BY DEF JInv, ReaderInv
<1>3. Ingested(reader[s].next - 1)'
  <2>1. reader[s].next - 1 \in Nat /\ reader[s].next - 1 =< Len(journal)
    BY <1>1, <1>2
  <2> DEFINE n == reader[s].next - 1
  <2>2. ASSUME NEW i \in 1..(reader'[s].next - 1), journal'[i] # Broken
        PROVE  /\ stored'[journal'[i]] # "none"
               /\ journal'[i] \in Outcomes => journal'[i] \in applied'
    <3>1. i \in 1..n /\ i \in 1..Len(journal) /\ journal'[i] = journal[i]
      BY <1>1, <1>2 DEF Kept
    <3>2. journal[i] \in EventIds
      BY <2>2, <3>1 DEF JInv, IntakeTypeOK
    <3> QED
      BY <1>2, <2>2, <3>1, <3>2 DEF Ingested, Kept
  <2> QED
    BY <2>2 DEF Ingested
<1>4. journal'[reader[s].next] = journal[reader[s].next]
  BY <1>1, <1>2 DEF Kept
<1> QED
  BY <1>1, <1>2, <1>3, <1>4 DEF JInv, ReaderInv, Line, Kept

LEMMA ReaderInvKept ==
  ASSUME JInv, Kept,
         \A s \in Readers : \/ reader'[s] = reader[s]
                            \/ reader'[s].at \notin {"line", "outcome"}
  PROVE  ReaderInv'
<1> SUFFICES ASSUME NEW s \in Readers, reader'[s].at \in {"line", "outcome"}
             PROVE  /\ reader'[s].next =< reader'[s].upto
                    /\ reader'[s].upto =< Len(journal')
                    /\ Ingested(reader[s].next - 1)'
                    /\ reader'[s].at = "outcome" =>
                         Line(s)' \in Outcomes \cap EventIds /\ stored'[Line(s)'] # "none"
  BY DEF ReaderInv, Ingested
<1> QED
  BY ReaderKept

LEMMA OwnInvKept ==
  ASSUME JInv, Kept, \A e \in EventIds : stored'[e] = "own" => stored[e] = "own"
  PROVE  OwnInv'
BY OwnKept DEF OwnInv

\* The steps that leave file and rows alone and move no scan along the lines.
LEMMA QuietKept ==
  ASSUME JInv, UNCHANGED <<journal, stored>>, applied \subseteq applied',
         \A s \in Readers : \/ reader'[s] = reader[s]
                            \/ reader'[s].at \notin {"line", "outcome"}
  PROVE  ReaderInv' /\ OwnInv'
<1>1. Kept
  BY DEF Kept, JInv, IntakeTypeOK
<1> QED
  BY <1>1, ReaderInvKept, OwnInvKept

LEMMA HookStepInv ==
  ASSUME JInv, NEW h \in Hooks,
         \/ \E e \in EventIds, asks \in BOOLEAN : HookArrives(h, e, asks)
         \/ HookDecides(h) \/ HookFails(h)
  PROVE  JInv'
<1> USE IntakeAssumption
<1>1. CASE \E e \in EventIds, asks \in BOOLEAN : HookArrives(h, e, asks)
  <2>1. PICK e \in EventIds, asks \in BOOLEAN : HookArrives(h, e, asks)
    BY <1>1
  <2>2. Watermark \in EventIds \cup {NoMark}
    BY DEF Watermark, JInv, IntakeTypeOK
  <2>3. IntakeTypeOK'
    BY <2>1, <2>2 DEF HookArrives, JInv, IntakeTypeOK, Failure
  <2>4. ReaderInv' /\ OwnInv'
    BY <2>1, QuietKept DEF HookArrives
  <2> QED
    BY <2>3, <2>4 DEF JInv
<1>2. CASE HookDecides(h)
  <2>1. IntakeTypeOK'
    BY <1>2, NoHookTyped DEF HookDecides, JInv, IntakeTypeOK
  <2>2. ReaderInv' /\ OwnInv'
    BY <1>2, QuietKept DEF HookDecides
  <2> QED
    BY <2>1, <2>2 DEF JInv
<1>3. CASE HookFails(h)
  <2>1. IntakeTypeOK'
    BY <1>3, NoHookTyped DEF HookFails, JInv, IntakeTypeOK, Failure
  <2>2. ReaderInv' /\ OwnInv'
    BY <1>3, QuietKept DEF HookFails
  <2> QED
    BY <2>1, <2>2 DEF JInv
<1> QED
  BY <1>1, <1>2, <1>3

LEMMA StartReaderKept ==
  ASSUME JInv, StartReader
  PROVE  /\ reader' \in [Readers -> ReaderSet]
         /\ \A s \in Readers : \/ reader'[s] = reader[s]
                               \/ reader'[s].at \notin {"line", "outcome"}
<1>1. PICK new \in Readers : reader' = [reader EXCEPT ![new].at = "before"]
  BY DEF StartReader
<1> QED
  BY <1>1 DEF JInv, IntakeTypeOK, ReaderSet

LEMMA AskStepInv ==
  ASSUME JInv,
         \/ DebounceFires \/ UserScans \/ StartScanFails
         \/ \E newer \in BOOLEAN : StartupScans(newer)
         \/ \E e \in EventIds : CooldownEnds(e)
         \/ CrashIntake
  PROVE  JInv'
<1>1. CASE DebounceFires \/ UserScans
  <2>1. /\ reader' \in [Readers -> ReaderSet]
        /\ \A s \in Readers : \/ reader'[s] = reader[s]
                              \/ reader'[s].at \notin {"line", "outcome"}
    BY <1>1, StartReaderKept
       DEF DebounceFires, UserScans, StartScan, JInv, IntakeTypeOK, ReaderSet
  <2>2. IntakeTypeOK'
    BY <1>1, <2>1 DEF DebounceFires, UserScans, StartScan, JInv, IntakeTypeOK, ReaderSet
  <2>3. ReaderInv' /\ OwnInv'
    BY <1>1, <2>1, QuietKept DEF DebounceFires, UserScans, StartScan
  <2> QED
    BY <2>2, <2>3 DEF JInv
<1>2. CASE StartScanFails
  <2>a. debounce' \in BOOLEAN
    BY <1>2, Zenon DEF StartScanFails, JInv, IntakeTypeOK
  <2>b. failures' \in 0..MaxFailures
    BY <1>2, IntakeAssumption DEF StartScanFails, JInv, IntakeTypeOK, Failure
  <2>1. IntakeTypeOK'
    BY <1>2, <2>a, <2>b DEF StartScanFails, JInv, IntakeTypeOK
  <2>2. ReaderInv' /\ OwnInv'
    BY <1>2, QuietKept DEF StartScanFails
  <2> QED
    BY <2>1, <2>2 DEF JInv
<1>3. CASE \E newer \in BOOLEAN : StartupScans(newer)
  <2>1. /\ reader' \in [Readers -> ReaderSet]
        /\ \A s \in Readers : \/ reader'[s] = reader[s]
                              \/ reader'[s].at \notin {"line", "outcome"}
    BY <1>3, StartReaderKept DEF StartupScans, JInv, IntakeTypeOK, ReaderSet
  <2>2. IntakeTypeOK'
    BY <1>3, <2>1 DEF StartupScans, JInv, IntakeTypeOK, ReaderSet
  <2>3. ReaderInv' /\ OwnInv'
    BY <1>3, <2>1, QuietKept DEF StartupScans
  <2> QED
    BY <2>2, <2>3 DEF JInv
<1>4. CASE \E e \in EventIds : CooldownEnds(e)
  <2>1. IntakeTypeOK'
    BY <1>4 DEF CooldownEnds, JInv, IntakeTypeOK
  <2>2. ReaderInv' /\ OwnInv'
    BY <1>4, QuietKept DEF CooldownEnds
  <2> QED
    BY <2>1, <2>2 DEF JInv
<1>5. CASE CrashIntake
  <2> /\ hook' \in [Hooks -> [at : {"none", "row"}, asks : BOOLEAN,
                               mark : EventIds \cup {NoMark}]]
      /\ reader' \in [Readers -> ReaderSet] /\ failures' \in 0..MaxFailures
    BY <1>5, NoHookTyped, NoReaderTyped, IntakeAssumption
       DEF CrashIntake, JInv, IntakeTypeOK, Failure
  <2>1. IntakeTypeOK'
    BY <1>5 DEF CrashIntake, JInv, IntakeTypeOK, ReaderSet
  <2>2. ReaderInv' /\ OwnInv'
    BY <1>5, QuietKept DEF CrashIntake, NoReader
  <2> QED
    BY <2>1, <2>2 DEF JInv
<1> QED
  BY <1>1, <1>2, <1>3, <1>4, <1>5

LEMMA OutsideStepInv ==
  ASSUME JInv,
         \/ \E l \in EventIds \cup {Broken} : AppendLine(l)
         \/ \E e \in EventIds : OtherRecords(e)
  PROVE  JInv'
<1>1. CASE \E l \in EventIds \cup {Broken} : AppendLine(l)
  <2>1. PICK l \in EventIds \cup {Broken} : AppendLine(l)
    BY <1>1
  <2>2. /\ journal' \in Seq(EventIds \cup {Broken}) /\ Len(journal') = Len(journal) + 1
        /\ \A i \in 1..Len(journal) : journal'[i] = journal[i]
    BY <2>1 DEF AppendLine, JInv, IntakeTypeOK
  <2>3. IntakeTypeOK'
    BY <2>1, <2>2, IntakeAssumption DEF AppendLine, JInv, IntakeTypeOK
  <2>4. Kept
    BY <2>1, <2>2 DEF AppendLine, Kept, JInv, IntakeTypeOK
  <2>5. ReaderInv' /\ OwnInv'
    BY <2>1, <2>4, ReaderInvKept, OwnInvKept DEF AppendLine
  <2> QED
    BY <2>3, <2>5 DEF JInv
<1>2. CASE \E e \in EventIds : OtherRecords(e)
  <2>1. IntakeTypeOK'
    BY <1>2 DEF OtherRecords, JInv, IntakeTypeOK
  <2>2. Kept
    BY <1>2 DEF OtherRecords, Kept, JInv, IntakeTypeOK
  <2>3. \A e \in EventIds : stored'[e] = "own" => stored[e] = "own"
    BY <1>2 DEF OtherRecords, JInv, IntakeTypeOK
  <2>4. ReaderInv' /\ OwnInv'
    BY <1>2, <2>2, <2>3, ReaderInvKept, OwnInvKept DEF OtherRecords
  <2> QED
    BY <2>1, <2>4 DEF JInv
<1> QED
  BY <1>1, <1>2

\* A scan that goes on with line n is at it, or has done its last.
LEMMA ReaderGoesTyped ==
  ASSUME IntakeTypeOK, NEW s \in Readers, NEW u \in Lines, NEW n \in 1..MaxLines + 1,
         ReaderGoes(s, u, n)
  PROVE  /\ reader' \in [Readers -> ReaderSet]
         /\ \A r \in Readers : r # s => reader'[r] = reader[r]
         /\ \/ reader'[s] = [at |-> "line", upto |-> u, next |-> n] /\ n =< u
            \/ reader'[s].at = "after"
<1> USE IntakeAssumption
<1>1. CASE n =< u
  BY <1>1 DEF ReaderGoes, IntakeTypeOK, ReaderSet, Lines
<1>2. CASE ~(n =< u)
  BY <1>2 DEF ReaderGoes, IntakeTypeOK, ReaderSet, Lines
<1> QED
  BY <1>1, <1>2

\* Where a scan is: a line of the file, with what precedes it ingested.
LEMMA AtLine ==
  ASSUME JInv, NEW s \in Readers, reader[s].at \in {"line", "outcome"}
  PROVE  /\ reader[s].next \in 1..Len(journal) /\ Len(journal) \in Nat
         /\ Len(journal) =< MaxLines
         /\ reader[s].upto \in Lines /\ reader[s].upto =< Len(journal)
         /\ reader[s].next + 1 \in 1..MaxLines + 1
         /\ reader[s].next - 1 \in Nat
         /\ Ingested(reader[s].next - 1)
         /\ Line(s) = journal[reader[s].next] /\ Line(s) \in EventIds \cup {Broken}
BY IntakeAssumption DEF JInv, ReaderInv, IntakeTypeOK, Lines, Line

\* The step to the next line, when this one has been ingested.
LEMMA NextLineInv ==
  ASSUME JInv, NEW s \in Readers, reader[s].at \in {"line", "outcome"}, NextLine(s),
         Kept, UNCHANGED journal,
         Line(s) # Broken => /\ stored'[Line(s)] # "none"
                             /\ Line(s) \in Outcomes => Line(s) \in applied'
  PROVE  reader' \in [Readers -> ReaderSet] /\ ReaderInv'
<1> DEFINE n == reader[s].next
<1>1. /\ n \in 1..Len(journal) /\ n + 1 \in 1..MaxLines + 1 /\ n - 1 \in Nat
      /\ Len(journal) \in Nat /\ n - 1 =< Len(journal)
      /\ reader[s].upto \in Lines /\ reader[s].upto =< Len(journal)
      /\ Ingested(n - 1) /\ Line(s) = journal[n]
  BY AtLine
<1>2. /\ reader' \in [Readers -> ReaderSet]
      /\ \A r \in Readers : r # s => reader'[r] = reader[r]
      /\ \/ /\ reader'[s] = [at |-> "line", upto |-> reader[s].upto, next |-> n + 1]
            /\ n + 1 =< reader[s].upto
         \/ reader'[s].at = "after"
  BY <1>1, ReaderGoesTyped DEF NextLine, JInv
<1>3. PICK k \in Nat : k = n - 1
  BY <1>1
<1>4. Ingested(k)'
  BY <1>1, <1>3, IngestedKept DEF JInv
<1>5. ASSUME reader'[s].at = "line"
      PROVE  \A i \in 1..(reader'[s].next - 1) : journal'[i] # Broken =>
               /\ stored'[journal'[i]] # "none"
               /\ journal'[i] \in Outcomes => journal'[i] \in applied'
  <2>1. reader'[s].next - 1 = n
    BY <1>1, <1>2, <1>5
  <2> SUFFICES ASSUME NEW i \in 1..n, journal'[i] # Broken
               PROVE  /\ stored'[journal'[i]] # "none"
                      /\ journal'[i] \in Outcomes => journal'[i] \in applied'
    BY <2>1
  <2>2. CASE i = n
    BY <1>1, <2>2
  <2>3. CASE i # n
    <3>1. i \in 1..k
      BY <1>1, <1>3, <2>3
    <3> QED
      BY <1>4, <3>1 DEF Ingested
  <2> QED
    BY <2>2, <2>3
<1>6. ASSUME NEW r \in Readers, reader'[r].at \in {"line", "outcome"}
      PROVE  /\ reader'[r].next =< reader'[r].upto /\ reader'[r].upto =< Len(journal')
             /\ Ingested(reader[r].next - 1)'
             /\ reader'[r].at = "outcome" =>
                  Line(r)' \in Outcomes \cap EventIds /\ stored'[Line(r)'] # "none"
  <2>1. CASE r # s
    <3>1. reader'[r] = reader[r]
      BY <1>2, <2>1
    <3> QED
      BY <1>6, <3>1, ReaderKept
  <2>2. CASE r = s
    <3>1. reader'[s] = [at |-> "line", upto |-> reader[s].upto, next |-> n + 1]
          /\ n + 1 =< reader[s].upto
      BY <1>2, <1>6, <2>2
    <3>2. Ingested(reader[r].next - 1)'
      BY <1>5, <2>2, <3>1 DEF Ingested
    <3> QED
      BY <1>1, <2>2, <3>1, <3>2
  <2> QED
    BY <2>1, <2>2
<1>7. ReaderInv'
  BY <1>6 DEF ReaderInv, Ingested
<1> QED
  BY <1>2, <1>7

\* A row that is new has no earlier line: those were ingested.
LEMMA UpsertedInv ==
  ASSUME JInv, NEW s \in Readers, reader[s].at = "line", Line(s) # Broken,
         stored' \in {stored, Upserted(Line(s))}, UNCHANGED <<journal, applied>>
  PROVE  Kept /\ stored' \in StoredSet /\ OwnInv'
<1>1. /\ Line(s) \in EventIds /\ reader[s].next \in 1..Len(journal)
      /\ Ingested(reader[s].next - 1) /\ Line(s) = journal[reader[s].next]
      /\ Len(journal) \in Nat
  BY AtLine
<1>2. stored' \in StoredSet
  BY <1>1 DEF Upserted, StoredSet, JInv, IntakeTypeOK
<1>3. Kept
  BY <1>1 DEF Upserted, Kept, JInv, IntakeTypeOK
<1>4. ASSUME NEW e \in EventIds, stored'[e] = "own"
      PROVE  \E f \in Nat : FirstLine(e, f)'
  <2>1. CASE stored[e] = "own"
    BY <1>3, <2>1, OwnKept
  <2>2. CASE stored[e] # "own"
    <3>1. e = Line(s) /\ stored[e] = "none"
      BY <1>1, <1>4, <2>2 DEF Upserted, JInv, IntakeTypeOK
    <3>2. PICK f \in Nat : f = reader[s].next
      BY <1>1
    <3>3. \A j \in 1..(f - 1) : journal[j] # e
      BY <1>1, <3>1, <3>2, IntakeAssumption DEF Ingested
    <3>4. FirstLine(e, f)
      BY <1>1, <3>1, <3>2, <3>3 DEF FirstLine
    <3>5. FirstLine(e, f)'
      BY <1>3, <3>4, FirstLineKept DEF JInv
    <3> QED
      BY <3>5
  <2> QED
    BY <2>1, <2>2
<1> QED
  BY <1>2, <1>3, <1>4 DEF OwnInv

LEMMA RecordLineInv ==
  ASSUME JInv, NEW s \in Readers, RecordLine(s)
  PROVE  JInv'
<1>1. Kept /\ stored' \in StoredSet /\ OwnInv'
  BY UpsertedInv DEF RecordLine, ReaderKeeps
<1>2. /\ Line(s) \in EventIds /\ reader[s].next \in 1..Len(journal)
      /\ stored'[Line(s)] # "none"
  BY AtLine DEF RecordLine, Upserted, JInv, IntakeTypeOK
<1>3. reader' \in [Readers -> ReaderSet] /\ ReaderInv'
  <2>1. CASE Line(s) \in Outcomes
    <3>1. reader' = [reader EXCEPT ![s].at = "outcome"]
      BY <2>1 DEF RecordLine, LineStored
    <3>2. reader' \in [Readers -> ReaderSet]
      BY <3>1 DEF JInv, IntakeTypeOK, ReaderSet
    <3>3. ASSUME NEW r \in Readers, reader'[r].at \in {"line", "outcome"}
          PROVE  /\ reader'[r].next =< reader'[r].upto
                 /\ reader'[r].upto =< Len(journal')
                 /\ Ingested(reader[r].next - 1)'
                 /\ reader'[r].at = "outcome" =>
                      Line(r)' \in Outcomes \cap EventIds /\ stored'[Line(r)'] # "none"
      <4>1. CASE r # s
        <5>1. reader'[r] = reader[r]
          BY <3>1, <4>1 DEF JInv, IntakeTypeOK
        <5> QED
          BY <1>1, <3>3, <5>1, ReaderKept
      <4>2. CASE r = s
        <5>1. /\ reader'[s].next = reader[s].next /\ reader'[s].upto = reader[s].upto
              /\ journal' = journal /\ applied' = applied
          BY <3>1 DEF RecordLine, ReaderKeeps, JInv, IntakeTypeOK
        <5>2. /\ reader[s].next =< reader[s].upto /\ reader[s].upto =< Len(journal)
              /\ Ingested(reader[s].next - 1)
          BY DEF RecordLine, JInv, ReaderInv
        <5>3. PICK k \in Nat : k = reader[s].next - 1
          BY <1>2
        <5>4. Ingested(k)'
          <6>1. k =< Len(journal)
            BY <1>2, <5>3 DEF JInv, IntakeTypeOK
          <6> QED
            BY <1>1, <5>2, <5>3, <6>1, IngestedKept DEF JInv
        <5>5. Ingested(reader[s].next - 1)'
          BY <5>1, <5>3, <5>4 DEF Ingested
        <5>6. Line(s)' = Line(s)
          BY <5>1 DEF Line
        <5> QED
          BY <1>2, <2>1, <4>2, <5>1, <5>2, <5>5, <5>6
      <4> QED
        BY <4>1, <4>2
    <3> QED
      BY <3>2, <3>3 DEF ReaderInv, Ingested
  <2>2. CASE Line(s) \notin Outcomes
    BY <1>1, <1>2, <2>2, NextLineInv DEF RecordLine, LineStored, ReaderKeeps
  <2> QED
    BY <2>1, <2>2
<1>4. IntakeTypeOK'
  BY <1>1, <1>3 DEF RecordLine, ReaderKeeps, JInv, IntakeTypeOK, ReaderSet, StoredSet
<1> QED
  BY <1>1, <1>3, <1>4 DEF JInv

LEMMA ReaderStepInv ==
  ASSUME JInv, NEW s \in Readers, ReaderStep(s) \/ UpsertFails(s) \/ ReaderFails(s)
  PROVE  JInv'
<1> USE IntakeAssumption
<1>1. CASE ReadJournal(s)
  <2>1. Len(journal) \in Lines /\ 1 \in 1..MaxLines + 1
    BY DEF JInv, IntakeTypeOK, Lines
  <2>2. /\ reader' \in [Readers -> ReaderSet]
        /\ \A r \in Readers : r # s => reader'[r] = reader[r]
        /\ \/ /\ reader'[s] = [at |-> "line", upto |-> Len(journal), next |-> 1]
              /\ 1 =< Len(journal)
           \/ reader'[s].at = "after"
    BY <1>1, <2>1, ReaderGoesTyped DEF ReadJournal, JInv
  <2>3. Kept
    BY <1>1 DEF ReadJournal, ReaderKeeps, Kept, JInv, IntakeTypeOK
  <2>4. OwnInv'
    BY <1>1, <2>3, OwnInvKept DEF ReadJournal, ReaderKeeps
  <2>5. ASSUME NEW r \in Readers, reader'[r].at \in {"line", "outcome"}
        PROVE  /\ reader'[r].next =< reader'[r].upto
               /\ reader'[r].upto =< Len(journal')
               /\ Ingested(reader[r].next - 1)'
               /\ reader'[r].at = "outcome" =>
                    Line(r)' \in Outcomes \cap EventIds /\ stored'[Line(r)'] # "none"
    <3>1. CASE r # s
      BY <2>2, <2>3, <2>5, <3>1, ReaderKept
    <3>2. CASE r = s
      <4>1. reader'[s] = [at |-> "line", upto |-> Len(journal), next |-> 1]
            /\ 1 =< Len(journal) /\ Len(journal) \in Nat /\ journal' = journal
        BY <1>1, <2>1, <2>2, <2>5, <3>2 DEF ReadJournal, ReaderKeeps, Lines
      <4>2. Ingested(reader[s].next - 1)'
        BY <4>1 DEF Ingested
      <4> QED
        BY <3>2, <4>1, <4>2
    <3> QED
      BY <3>1, <3>2
  <2>6. ReaderInv'
    BY <2>5 DEF ReaderInv, Ingested
  <2>7. IntakeTypeOK'
    BY <1>1, <2>2 DEF ReadJournal, ReaderKeeps, JInv, IntakeTypeOK, ReaderSet
  <2> QED
    BY <2>4, <2>6, <2>7 DEF JInv
<1>2. CASE SkipLine(s)
  <2>1. Kept
    BY <1>2 DEF SkipLine, ReaderKeeps, Kept, JInv, IntakeTypeOK
  <2>2. reader' \in [Readers -> ReaderSet] /\ ReaderInv'
    BY <1>2, <2>1, NextLineInv DEF SkipLine, ReaderKeeps
  <2>3. IntakeTypeOK'
    BY <1>2, <2>2 DEF SkipLine, ReaderKeeps, JInv, IntakeTypeOK, ReaderSet
  <2>4. OwnInv'
    BY <1>2, <2>1, OwnInvKept DEF SkipLine, ReaderKeeps
  <2> QED
    BY <2>2, <2>3, <2>4 DEF JInv
<1>3. CASE RecordLine(s)
  BY <1>3, RecordLineInv
<1>4. CASE ApplyLine(s)
  <2>1. Line(s) \in Outcomes /\ Line(s) \in EventIds /\ stored[Line(s)] # "none"
    BY <1>4 DEF ApplyLine, JInv, ReaderInv
  <2>2. Kept
    BY <1>4 DEF ApplyLine, ReaderKeeps, Kept, JInv, IntakeTypeOK
  <2>3. reader' \in [Readers -> ReaderSet] /\ ReaderInv'
    BY <1>4, <2>1, <2>2, NextLineInv DEF ApplyLine, ReaderKeeps
  <2>4. IntakeTypeOK'
    BY <1>4, <2>1, <2>3 DEF ApplyLine, ReaderKeeps, JInv, IntakeTypeOK, ReaderSet
  <2>5. OwnInv'
    BY <1>4, <2>2, OwnInvKept DEF ApplyLine, ReaderKeeps
  <2> QED
    BY <2>3, <2>4, <2>5 DEF JInv
<1>5. CASE ScanEnds(s)
  <2>1. reader' \in [Readers -> ReaderSet]
    BY <1>5, NoReaderTyped DEF ScanEnds, JInv, IntakeTypeOK, ReaderSet
  <2>2. IntakeTypeOK'
    BY <1>5, <2>1 DEF ScanEnds, ReaderKeeps, JInv, IntakeTypeOK, ReaderSet
  <2>3. ReaderInv' /\ OwnInv'
    BY <1>5, QuietKept DEF ScanEnds, ReaderKeeps, NoReader, JInv, IntakeTypeOK
  <2> QED
    BY <2>2, <2>3 DEF JInv
<1>6. CASE UpsertFails(s)
  <2>1. Kept /\ stored' \in StoredSet /\ OwnInv'
    BY <1>6, UpsertedInv DEF UpsertFails, ReaderKeeps
  <2>2. failures' \in 0..MaxFailures
    BY <1>6 DEF UpsertFails, Failure, JInv, IntakeTypeOK
  <2>3. IntakeTypeOK'
    BY <1>6, <2>1, <2>2 DEF UpsertFails, ReaderKeeps, JInv, IntakeTypeOK, StoredSet
  <2>4. ReaderInv'
    BY <1>6, <2>1, ReaderInvKept DEF UpsertFails
  <2> QED
    BY <2>1, <2>3, <2>4 DEF JInv
<1>7. CASE ReaderFails(s)
  <2>1. reader' \in [Readers -> ReaderSet] /\ failures' \in 0..MaxFailures
    BY <1>7, NoReaderTyped DEF ReaderFails, Failure, JInv, IntakeTypeOK, ReaderSet
  <2>2. IntakeTypeOK'
    BY <1>7, <2>1 DEF ReaderFails, ReaderKeeps, JInv, IntakeTypeOK, ReaderSet
  <2>3. ReaderInv' /\ OwnInv'
    BY <1>7, QuietKept DEF ReaderFails, ReaderKeeps, NoReader, JInv, IntakeTypeOK
  <2> QED
    BY <2>2, <2>3 DEF JInv
<1> QED
  BY <1>1, <1>2, <1>3, <1>4, <1>5, <1>6, <1>7 DEF ReaderStep

LEMMA IntakeInvariant == IntakeSpec => []JInv
<1> USE IntakeAssumption
<1>1. IntakeInit => JInv
  <2> SUFFICES ASSUME IntakeInit PROVE JInv
    OBVIOUS
  <2>a. reader \in [Readers -> ReaderSet]
    BY NoReaderTyped DEF IntakeInit
  <2>b. hook \in [Hooks -> [at : {"none", "row"}, asks : BOOLEAN,
                            mark : EventIds \cup {NoMark}]]
    BY NoHookTyped DEF IntakeInit
  <2>c. /\ journal \in Seq(EventIds \cup {Broken}) /\ Len(journal) =< MaxLines
        /\ failures \in 0..MaxFailures
    BY DEF IntakeInit
  <2>1. IntakeTypeOK
    BY <2>a, <2>b, <2>c DEF IntakeInit, IntakeTypeOK, ReaderSet
  <2>2. ReaderInv
    BY DEF IntakeInit, ReaderInv, NoReader
  <2>3. OwnInv
    BY DEF IntakeInit, OwnInv
  <2> QED
    BY <2>1, <2>2, <2>3 DEF JInv
<1>2. JInv /\ [IntakeNext]_intakeVars => JInv'
  <2> SUFFICES ASSUME JInv, [IntakeNext]_intakeVars PROVE JInv'
    OBVIOUS
  <2>1. CASE IntakeNext
    BY <2>1, HookStepInv, AskStepInv, OutsideStepInv, ReaderStepInv DEF IntakeNext
  <2>2. CASE UNCHANGED intakeVars
    <3>1. IntakeTypeOK'
      BY <2>2 DEF intakeVars, JInv, IntakeTypeOK
    <3>2. ReaderInv' /\ OwnInv'
      BY <2>2, QuietKept DEF intakeVars
    <3> QED
      BY <3>1, <3>2 DEF JInv
  <2> QED
    BY <2>1, <2>2
<1> QED
  BY <1>1, <1>2, PTL DEF IntakeSpec

\* File, rows, hooks and scans keep their types, for any number of each.
THEOREM IntakeTypes == IntakeSpec => []IntakeTypeOK
BY IntakeInvariant, PTL DEF JInv

\* A row of the project vouches for every line before the first one with its
\* id, whatever scans overlap, fail or are lost in a crash.
THEOREM RowsVouch == IntakeSpec => []RecordedPrefix
<1>1. JInv => RecordedPrefix
  <2> SUFFICES ASSUME JInv, NEW i \in 1..Len(journal), journal[i] # Broken,
                      stored[journal[i]] = "own"
               PROVE  \E first \in 1..i : journal[first] = journal[i]
                                          /\ Ingested(first - 1)
    BY DEF RecordedPrefix
  <2>1. journal[i] \in EventIds /\ i \in Nat /\ Len(journal) \in Nat
    BY DEF JInv, IntakeTypeOK
  <2>2. PICK f \in Nat : FirstLine(journal[i], f)
    BY <2>1 DEF JInv, OwnInv
  <2>3. f =< i
    <3> SUFFICES ASSUME f > i PROVE FALSE
      BY <2>1
    <3>1. i \in 1..(f - 1)
      BY <2>1
    <3> QED
      BY <2>2, <3>1 DEF FirstLine
  <2> QED
    BY <2>1, <2>2, <2>3 DEF FirstLine
<1> QED
  BY <1>1, IntakeInvariant, PTL

(***************************************************************************)
(* How many scans run.  The startup claims the project without a look at    *)
(* the claim, so that a scan may run beside the one that has it; but the     *)
(* startup comes once, and a scan that ends gives up the claim of both.      *)
(***************************************************************************)
Busy == {s \in Readers : reader[s].at # "none"}

ScansInv ==
  /\ IsFiniteSet(Busy)
  /\ Cardinality(Busy) =< IF restarted THEN 1 ELSE 2
  /\ ~scanning => Cardinality(Busy) =< IF restarted THEN 0 ELSE 1

LEMMA SameScans ==
  ASSUME ScansInv, Busy' = Busy, UNCHANGED restarted, scanning' = scanning \/ scanning'
  PROVE  ScansInv'
BY DEF ScansInv

LEMMA ScanStarts ==
  ASSUME IntakeTypeOK, ScansInv, StartReader, scanning',
         \/ ~scanning /\ restarted' = restarted
         \/ restarted /\ ~restarted'
  PROVE  ScansInv'
<1> DEFINE new == CHOOSE s \in Readers : reader[s].at = "none"
<1>1. new \in Readers /\ reader[new].at = "none"  BY DEF StartReader
<1>2. reader' = [reader EXCEPT ![new].at = "before"]  BY DEF StartReader
<1> HIDE DEF new
<1>3. Busy' = Busy \cup {new} /\ new \notin Busy
  BY <1>1, <1>2 DEF Busy, IntakeTypeOK
<1>4. /\ IsFiniteSet(Busy') /\ Cardinality(Busy) \in Nat
      /\ Cardinality(Busy') = Cardinality(Busy) + 1
  BY <1>3, FS_AddElement, FS_CardinalityType DEF ScansInv
<1> QED BY <1>4 DEF ScansInv

LEMMA ScanStops ==
  ASSUME IntakeTypeOK, ScansInv, NEW s \in Readers, reader[s].at # "none",
         reader' = [reader EXCEPT ![s] = NoReader], UNCHANGED restarted
  PROVE  ScansInv'
<1>1. Busy' = Busy \ {s} /\ s \in Busy  BY DEF Busy, IntakeTypeOK, NoReader
<1>2. /\ IsFiniteSet(Busy') /\ Cardinality(Busy) \in Nat
      /\ Cardinality(Busy') = Cardinality(Busy) - 1
  BY <1>1, FS_RemoveElement, FS_CardinalityType DEF ScansInv
<1> QED BY <1>2 DEF ScansInv

\* A scan that goes on is still one.
LEMMA ScanGoesOn ==
  ASSUME IntakeTypeOK, NEW s \in Readers, reader[s].at # "none",
         \/ \E upto, next : ReaderGoes(s, upto, next)
         \/ reader' = [reader EXCEPT ![s].at = "outcome"]
         \/ reader' = reader
  PROVE  Busy' = Busy
<1>1. ASSUME NEW r, r.at # "none", reader' = [reader EXCEPT ![s] = r]
      PROVE  Busy' = Busy
  BY <1>1 DEF Busy, IntakeTypeOK
<1>2. CASE \E upto, next : ReaderGoes(s, upto, next)
  BY <1>1, <1>2 DEF ReaderGoes
<1>3. CASE reader' = [reader EXCEPT ![s].at = "outcome"]
  BY <1>3 DEF Busy, IntakeTypeOK
<1>4. CASE reader' = reader  BY <1>4 DEF Busy
<1> QED BY <1>2, <1>3, <1>4

LEMMA ScansKept == IntakeTypeOK /\ ScansInv /\ [IntakeNext]_intakeVars => ScansInv'
<1> SUFFICES ASSUME IntakeTypeOK, ScansInv, [IntakeNext]_intakeVars PROVE ScansInv'
  OBVIOUS
<1>1. ASSUME UNCHANGED <<reader, scanning, restarted>>  PROVE ScansInv'
  BY <1>1, SameScans DEF Busy
<1>2. CASE DebounceFires \/ UserScans
  BY <1>1, <1>2, ScanStarts DEF DebounceFires, UserScans, StartScan
<1>3. CASE StartScanFails
  BY <1>3, SameScans DEF StartScanFails, Busy
<1>4. ASSUME NEW newer \in BOOLEAN, StartupScans(newer)  PROVE ScansInv'
  <2>1. CASE newer  BY <1>4, <2>1, ScanStarts DEF StartupScans
  <2>2. CASE ~newer
    <3>1. Busy' = Busy /\ restarted /\ ~restarted' /\ scanning' = scanning
      BY <1>4, <2>2 DEF StartupScans, Busy
    <3>2. Cardinality(Busy) \in Nat  BY FS_CardinalityType DEF ScansInv
    <3> QED BY <3>1, <3>2 DEF ScansInv
  <2> QED BY <2>1, <2>2
<1>5. ASSUME NEW s \in Readers, ScanEnds(s) \/ ReaderFails(s)  PROVE ScansInv'
  BY <1>5, ScanStops DEF ScanEnds, ReaderFails, ReaderKeeps
<1>6. ASSUME NEW s \in Readers,
             \/ ReadJournal(s) \/ SkipLine(s) \/ RecordLine(s) \/ ApplyLine(s)
             \/ UpsertFails(s)
      PROVE  ScansInv'
  <2>1. reader[s].at # "none" /\ UNCHANGED <<scanning, restarted>>
    BY <1>6 DEF ReadJournal, SkipLine, RecordLine, ApplyLine, UpsertFails, ReaderKeeps
  <2>2. \/ \E upto, next : ReaderGoes(s, upto, next)
        \/ reader' = [reader EXCEPT ![s].at = "outcome"]
        \/ reader' = reader
    BY <1>6 DEF ReadJournal, SkipLine, RecordLine, ApplyLine, UpsertFails, NextLine,
                LineStored
  <2> QED BY <2>1, <2>2, ScanGoesOn, SameScans
<1>7. CASE CrashIntake
  <2>1. Busy' = {} /\ restarted'
    BY <1>7 DEF CrashIntake, Busy, NoReader
  <2> QED BY <2>1, FS_EmptySet DEF ScansInv
<1>8. ASSUME NEW h \in Hooks, HookDecides(h) \/ HookFails(h)
             \/ \E e \in EventIds, asks \in BOOLEAN : HookArrives(h, e, asks)
      PROVE  ScansInv'
  BY <1>1, <1>8 DEF HookDecides, HookFails, HookArrives
<1>9. CASE \/ \E l \in EventIds \cup {Broken} : AppendLine(l)
           \/ \E e \in EventIds : OtherRecords(e) \/ CooldownEnds(e)
           \/ UNCHANGED intakeVars
  BY <1>1, <1>9 DEF AppendLine, OtherRecords, CooldownEnds, intakeVars
<1> QED
  BY <1>2, <1>3, <1>4, <1>5, <1>6, <1>7, <1>8, <1>9 DEF IntakeNext, ReaderStep

\* Two scans of a project at once are the most, by the claim and by the startup,
\* however claims fail, scans fail and crashes come (startProjectScan,
\* StartupProjectScanService): more readers than two change nothing of the model.
THEOREM TwoReadersSuffice == IntakeSpec => [](Cardinality(Busy) =< 2)
<1>1. IntakeInit => ScansInv
  <2> SUFFICES ASSUME IntakeInit PROVE ScansInv
    OBVIOUS
  <2>1. Busy = {}  BY DEF IntakeInit, Busy, NoReader
  <2> QED BY <2>1, FS_EmptySet DEF ScansInv
<1>2. ScansInv => Cardinality(Busy) =< 2
  <2> SUFFICES ASSUME ScansInv PROVE Cardinality(Busy) =< 2
    OBVIOUS
  <2>1. Cardinality(Busy) \in Nat  BY FS_CardinalityType DEF ScansInv
  <2> QED BY <2>1 DEF ScansInv
<1> QED BY <1>1, <1>2, ScansKept, IntakeTypes, PTL DEF IntakeSpec

(***************************************************************************)
(* The two parts side by side: each of them behaves as it does alone, so     *)
(* that all of the above holds of MCLockAndJournal's behaviours too.         *)
(***************************************************************************)
\* A behaviour of the two parts is one of the lock (runExclusive) and one of the
\* intake (receive-hook and syncPluginEventJournal), whichever takes its steps.
THEOREM PartsImplementBoth == PartsSpec => Spec /\ IntakeSpec
<1>1. PartsInit => Init /\ IntakeInit
  BY DEF PartsInit
<1>2. [PartsNext]_vars => [Next]_lockVars /\ [IntakeNext]_intakeVars
  BY DEF PartsNext, vars
<1> QED
  BY <1>1, <1>2, PTL DEF PartsSpec, Spec, IntakeSpec

\* Both parts keep their types: the calls and their promises, and the file, rows,
\* hooks and scans of the intake.
THEOREM PartsAreTyped == PartsSpec => []PartsTypeOK
<1>1. TypeOK /\ IntakeTypeOK => PartsTypeOK
  BY DEF PartsTypeOK
<1> QED
  BY <1>1, PartsImplementBoth, LockTypeCorrect, IntakeTypes, PTL

\* What holds of the lock and of the intake alone holds of the two together.
THEOREM PartsAreSafe ==
  PartsSpec => /\ [](MutualExclusion /\ FirstComeFirstServed)
               /\ [](EntryWhileInFlight /\ TimedOutNeverWorks)
               /\ []RecordedPrefix /\ ImplementsMutex
BY PartsImplementBoth, LockExcludes, LockIsFair, LockLeavesNoEntry, TimeoutIsFinal,
   LockImplementsMutex, RowsVouch, PTL
=============================================================================
