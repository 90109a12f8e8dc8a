-------------------------- MODULE SlotResizeProofs --------------------------
(***************************************************************************)
(* Resizes, syncs, restores, startup and crashes, for any number of them and *)
(* of slots: what a resize undoes is all it did, its success leaves file,    *)
(* count and runtime at one number, the file goes on covering the count but  *)
(* for one named write, and the count changes as SlotTopology says.          *)
(***************************************************************************)
EXTENDS SlotResize, TLAPS

\* What a process at a step relies on, that has read prev and old, if the count is n, the file f and the
\* runtime r: what it has read of the count and has written itself is still
\* there.
Agrees(at, prev, old, n, f, r) ==
  /\ at \in Growing => prev = n /\ n < MaxSlots
  /\ at \in {"growProbe", "growRecord", "growReload", "growCommit"} =>
       f.windows = n + 1
  /\ at = "growCommit" => r \in {0, n + 1}
  /\ at = "shrinkCommit" => prev = n /\ n > 1
  /\ at \in Shrunk => prev = n + 1
  /\ at \in {"shrinkCheck", "shrinkReload"} => f.windows = n
  /\ at = "restoreCount" => f = old

Exclusive ==
  \A p, q \in Procs : act[p].at \in Locked /\ act[q].at \in Locked => p = q

IdleUnlessUp == server # "up" => \A p \in Procs : act[p] = Idle

IInv ==
  /\ TypeOK
  /\ Exclusive
  /\ IdleUnlessUp
  /\ \A p \in Procs :
       Agrees(act[p].at, act[p].prev, act[p].old, slotCount, file, runtime)

-----------------------------------------------------------------------------
\* A process that holds the lock relies on what nobody else changes, and one
\* that does not hold it relies on nothing.
LEMMA OnlyLockedRely ==
  ASSUME NEW at, NEW prev, NEW old, NEW n, NEW f, NEW r, at \notin Locked
  PROVE  Agrees(at, prev, old, n, f, r)
BY DEF Agrees, Locked, Growing, Shrunk

LEMMA IdleIsDoing == Idle \in Doings /\ Idle.at \notin Locked
<1>1. NoFile \in Files
  BY ResizeAssumption DEF NoFile, Files
<1>2. QED
  BY <1>1, ResizeAssumption DEF Idle, Doings, Locked, Growing, Shrunk

\* One process goes on: it takes the lock only if that is free, changes count
\* and file only under it, and makes the runtime stop or run the file.
LEMMA StepKeeps ==
  ASSUME IInv, NEW p \in Procs, NEW rec \in Doings,
         act[p] # Idle \/ server = "up",
         act' = [act EXCEPT ![p] = rec], server' = server,
         slotCount' \in 1..MaxSlots, file' \in Files,
         runtime' \in {runtime, 0, file.windows},
         projected' \in Tips, written' \in Tips \union {NoTips},
         rec.at \in Locked => act[p].at \in Locked \/ LockFree,
         \/ UNCHANGED <<slotCount, file>>
         \/ act[p].at \in Locked
         \/ LockFree,
         Agrees(rec.at, rec.prev, rec.old, slotCount', file', runtime')
  PROVE  IInv'
<1>1. TypeOK'
  <2>1. file.windows \in 0..MaxSlots
    BY DEF IInv, TypeOK, Files
  <2>2. act' \in [Procs -> Doings]
    BY DEF IInv, TypeOK
  <2>3. runtime' \in 0..MaxSlots
    BY <2>1, ResizeAssumption DEF IInv, TypeOK
  <2>4. QED
    BY <2>2, <2>3 DEF IInv, TypeOK
<1>2. server = "up"
  BY DEF IInv, IdleUnlessUp
<1>3. /\ act'[p] = rec
      /\ \A q \in Procs : q # p => act'[q] = act[q]
  BY DEF IInv, TypeOK
<1>4. Exclusive'
  BY <1>3 DEF IInv, Exclusive, LockFree
<1>5. ASSUME NEW q \in Procs
      PROVE  Agrees(act'[q].at, act'[q].prev, act'[q].old,
                    slotCount', file', runtime')
  <2>1. CASE q = p
    BY <1>3, <2>1
  <2>2. CASE q # p /\ act[q].at \notin Locked
    BY <1>3, <2>2, OnlyLockedRely
  <2>3. CASE q # p /\ act[q].at \in Locked
    <3>1. UNCHANGED <<slotCount, file>>
      BY <2>3 DEF IInv, Exclusive, LockFree
    <3>2. Agrees(act[q].at, act[q].prev, act[q].old, slotCount, file, runtime)
      BY DEF IInv
    <3>3. Agrees(act[q].at, act[q].prev, act[q].old, slotCount, file, runtime')
      BY <3>2 DEF Agrees
    <3>4. QED
      BY <1>3, <2>3, <3>1, <3>3
  <2>4. QED
    BY <2>1, <2>2, <2>3
<1>6. QED
  BY <1>1, <1>2, <1>4, <1>5 DEF IInv, IdleUnlessUp
-----------------------------------------------------------------------------
Steps == {"idle"} \union Locked \union Syncing \union Restoring

\* StepKeeps for a process that goes on with what it has read, ...
LEMMA GoesKeeps ==
  ASSUME IInv, NEW p \in Procs, NEW at \in Steps, act[p] # Idle, Goes(p, at),
         server' = server, slotCount' \in 1..MaxSlots, file' \in Files,
         runtime' \in {runtime, 0, file.windows},
         projected' \in Tips, written' \in Tips \union {NoTips},
         at \in Locked => act[p].at \in Locked \/ LockFree,
         \/ UNCHANGED <<slotCount, file>>
         \/ act[p].at \in Locked
         \/ LockFree,
         Agrees(at, act[p].prev, act[p].old, slotCount', file', runtime')
  PROVE  IInv'
<1> DEFINE rec == [act[p] EXCEPT !.at = at]
<1>1. act[p] \in Doings
  BY DEF IInv, TypeOK
<1>2. rec \in Doings
  BY <1>1 DEF Doings, Steps
<1>3. rec.at = at /\ rec.prev = act[p].prev /\ rec.old = act[p].old
  BY <1>1 DEF Doings
<1>4. act' = [act EXCEPT ![p] = rec]
  BY DEF Goes, Become
<1> HIDE DEF rec
<1>5. QED
  BY <1>2, <1>3, <1>4, StepKeeps

\* ... and for one that ends.
LEMMA EndKeeps ==
  ASSUME IInv, NEW p \in Procs, act[p] # Idle, Become(p, Idle),
         server' = server, slotCount' \in 1..MaxSlots, file' \in Files,
         runtime' \in {runtime, 0, file.windows},
         projected' \in Tips, written' \in Tips \union {NoTips},
         \/ UNCHANGED <<slotCount, file>>
         \/ act[p].at \in Locked
         \/ LockFree
  PROVE  IInv'
<1>1. Agrees(Idle.at, Idle.prev, Idle.old, slotCount', file', runtime')
  BY IdleIsDoing, OnlyLockedRely
<1>2. act' = [act EXCEPT ![p] = Idle]
  BY DEF Become
<1>3. QED
  BY <1>1, <1>2, IdleIsDoing, StepKeeps

-----------------------------------------------------------------------------
LEMMA InitHolds == Init => IInv
<1> SUFFICES ASSUME Init PROVE IInv
  OBVIOUS
<1>1. TypeOK
  BY IdleIsDoing, ResizeAssumption DEF Init, TypeOK, NoFile, Files
<1>2. \A p \in Procs : act[p] = Idle
  BY DEF Init
<1>3. QED
  BY <1>1, <1>2, IdleIsDoing, OnlyLockedRely DEF IInv, Exclusive, IdleUnlessUp

\* What every step of a process needs to know.
LEMMA Known ==
  ASSUME IInv, NEW p \in Procs
  PROVE  /\ act[p] \in Doings
         /\ act[p].prev \in 0..MaxSlots /\ act[p].old \in Files
         /\ act[p].tips \in Tips \union {NoTips}
         /\ slotCount \in 1..MaxSlots /\ file \in Files /\ MaxSlots \in Nat
         /\ runtime \in 0..MaxSlots /\ file.windows \in 0..MaxSlots
         /\ projected \in Tips /\ written \in Tips \union {NoTips}
         /\ Agrees(act[p].at, act[p].prev, act[p].old, slotCount, file, runtime)
BY ResizeAssumption DEF IInv, TypeOK, Doings, Files

LEMMA AtWork ==
  ASSUME NEW p \in Procs, act[p].at # "idle"
  PROVE  act[p] # Idle
BY DEF Idle

LEMMA ReadIsDoing ==
  ASSUME IInv, NEW at \in Steps, NEW old \in Files, NEW online \in BOOLEAN
  PROVE  Read(at, old, online) \in Doings
<1>1. slotCount \in 0..MaxSlots
  BY ResizeAssumption DEF IInv, TypeOK
<1>2. QED
  BY <1>1 DEF Read, Doings, Steps

LEMMA RenderedIsFile ==
  ASSUME NEW n \in 0..MaxSlots
  PROVE  Rendered(n) \in Files /\ Rendered(n).windows = n
BY DEF Rendered, Files

-----------------------------------------------------------------------------
LEMMA GrowKeeps ==
  ASSUME IInv, NEW p \in Procs, GrowStep(p)
  PROVE  IInv'
<1> USE Known
<1> DEFINE prev == act[p].prev
<1>1. CASE GrowStart(p)
  <2> DEFINE rec == Read("growWrite", file, FALSE)
  <2>1. rec \in Doings
    BY ReadIsDoing DEF Steps, Locked, Growing
  <2>2. /\ rec.at = "growWrite" /\ rec.prev = slotCount /\ rec.old = file
        /\ act' = [act EXCEPT ![p] = rec]
    BY <1>1 DEF GrowStart, Become, Read
  <2>3. Agrees(rec.at, rec.prev, rec.old, slotCount', file', runtime')
    BY <1>1, <2>2 DEF GrowStart, Agrees, Shrunk
  <2> HIDE DEF rec
  <2>4. QED
    BY <1>1, <2>1, <2>2, <2>3, StepKeeps DEF GrowStart, Starts
<1>2. CASE GrowWrite(p)
  <2>1. act[p] # Idle /\ act[p].at \in Locked
    BY <1>2, AtWork DEF GrowWrite, Locked, Growing
  <2>2. CASE file' = Rendered(prev + 1) /\ Goes(p, "growProbe")
    <3>1. prev = slotCount /\ slotCount < MaxSlots
      BY <1>2 DEF GrowWrite, Agrees, Growing
    <3>2. file' \in Files /\ file'.windows = slotCount + 1
      BY <2>2, <3>1, RenderedIsFile
    <3>3. Agrees("growProbe", prev, act[p].old, slotCount', file', runtime')
      BY <1>2, <3>1, <3>2 DEF GrowWrite, Agrees, Shrunk
    <3>4. "growProbe" \in Steps
      BY DEF Steps, Locked, Growing
    <3>5. QED
      BY <1>2, <2>1, <2>2, <3>2, <3>3, <3>4, GoesKeeps DEF GrowWrite
  <2>3. CASE UNCHANGED file /\ Become(p, Idle)
    BY <1>2, <2>1, <2>3, EndKeeps DEF GrowWrite
  <2>4. QED
    BY <1>2, <2>2, <2>3 DEF GrowWrite
<1>3. CASE GrowProbe(p)
  <2>1. act[p] # Idle /\ act[p].at \in Locked
    BY <1>3, AtWork DEF GrowProbe, Locked, Growing
  <2>2. PICK at \in {"growReload", "growRecord"} : Goes(p, at)
    BY <1>3 DEF GrowProbe
  <2>3. Agrees(at, prev, act[p].old, slotCount', file', runtime') /\ at \in Steps
    BY <1>3 DEF GrowProbe, Agrees, Shrunk, Growing, Steps, Locked
  <2>4. QED
    BY <1>3, <2>1, <2>2, <2>3, GoesKeeps DEF GrowProbe
<1>4. CASE GrowRecord(p)
  <2>1. act[p] # Idle /\ act[p].at \in Locked
    BY <1>4, AtWork DEF GrowRecord, Locked, Growing
  <2>2. prev = slotCount /\ slotCount < MaxSlots
    BY <1>4 DEF GrowRecord, Agrees, Growing
  <2>3. CASE slotCount' = prev + 1 /\ Become(p, Idle)
    <3>1. slotCount' \in 1..MaxSlots
      BY <2>2, <2>3
    <3>2. QED
      BY <1>4, <2>1, <2>3, <3>1, EndKeeps DEF GrowRecord
  <2>4. CASE UNCHANGED slotCount /\ Goes(p, "growRestore")
    <3>1. /\ Agrees("growRestore", prev, act[p].old, slotCount', file', runtime')
          /\ "growRestore" \in Steps
      BY <1>4, <2>2, <2>4 DEF GrowRecord, Agrees, Shrunk, Growing, Steps, Locked
    <3>2. QED
      BY <1>4, <2>1, <2>4, <3>1, GoesKeeps DEF GrowRecord
  <2>5. QED
    BY <1>4, <2>3, <2>4 DEF GrowRecord
<1>5. CASE GrowReload(p)
  <2>1. act[p] # Idle /\ act[p].at \in Locked
    BY <1>5, AtWork DEF GrowReload, Locked, Growing
  <2>2. /\ prev = slotCount /\ slotCount < MaxSlots
        /\ file.windows = slotCount + 1
    BY <1>5 DEF GrowReload, Agrees, Growing
  <2>3. runtime' \in {runtime, file.windows}
    BY <1>5 DEF GrowReload, Published, Unpublished
  <2>4. CASE Published /\ Goes(p, "growCommit")
    <3>1. /\ Agrees("growCommit", prev, act[p].old, slotCount', file', runtime')
          /\ "growCommit" \in Steps
      BY <1>5, <2>2, <2>4
      DEF GrowReload, Published, Agrees, Shrunk, Growing, Steps, Locked
    <3>2. QED
      BY <1>5, <2>1, <2>3, <2>4, <3>1, GoesKeeps DEF GrowReload
  <2>5. CASE Unpublished /\ Goes(p, "growRestore")
    <3>1. /\ Agrees("growRestore", prev, act[p].old, slotCount', file', runtime')
          /\ "growRestore" \in Steps
      BY <1>5, <2>2 DEF GrowReload, Agrees, Shrunk, Growing, Steps, Locked
    <3>2. QED
      BY <1>5, <2>1, <2>3, <2>5, <3>1, GoesKeeps DEF GrowReload
  <2>6. QED
    BY <1>5, <2>4, <2>5 DEF GrowReload
<1>6. CASE GrowCommit(p)
  <2>1. act[p] # Idle /\ act[p].at \in Locked
    BY <1>6, AtWork DEF GrowCommit, Locked, Growing
  <2>2. prev = slotCount /\ slotCount < MaxSlots
    BY <1>6 DEF GrowCommit, Agrees, Growing
  <2>3. CASE slotCount' = prev + 1 /\ Goes(p, "growWait")
    <3>1. slotCount' \in 1..MaxSlots
      BY <2>2, <2>3
    <3>2. /\ Agrees("growWait", prev, act[p].old, slotCount', file', runtime')
          /\ "growWait" \in Steps
      BY DEF Agrees, Shrunk, Growing, Steps, Locked
    <3>3. QED
      BY <1>6, <2>1, <2>3, <3>1, <3>2, GoesKeeps DEF GrowCommit
  <2>4. CASE UNCHANGED slotCount /\ Become(p, Idle)
    BY <1>6, <2>1, <2>4, EndKeeps DEF GrowCommit
  <2>5. QED
    BY <1>6, <2>3, <2>4 DEF GrowCommit
<1>7. CASE GrowEnds(p)
  BY <1>7, AtWork, EndKeeps DEF GrowEnds
<1>8. CASE GrowRestore(p)
  <2>1. act[p] # Idle /\ act[p].at \in Locked
    BY <1>8, AtWork DEF GrowRestore, Locked, Growing
  <2>2. QED
    BY <1>8, <2>1, EndKeeps DEF GrowRestore
<1>9. QED
  BY <1>1, <1>2, <1>3, <1>4, <1>5, <1>6, <1>7, <1>8 DEF GrowStep

-----------------------------------------------------------------------------
LEMMA ShrinkKeeps ==
  ASSUME IInv, NEW p \in Procs, ShrinkStep(p)
  PROVE  IInv'
<1> USE Known
<1> DEFINE prev == act[p].prev
<1>1. CASE ShrinkStart(p)
  <2>1. PICK online \in {FALSE, runtime # 0} :
          Become(p, Read("shrinkCommit", file, online))
    BY <1>1 DEF ShrinkStart
  <2> DEFINE rec == Read("shrinkCommit", file, online)
  <2>2. rec \in Doings
    BY ReadIsDoing DEF Steps, Locked
  <2>3. /\ rec.at = "shrinkCommit" /\ rec.prev = slotCount /\ rec.old = file
        /\ act' = [act EXCEPT ![p] = rec]
    BY <2>1 DEF Become, Read
  <2>4. Agrees(rec.at, rec.prev, rec.old, slotCount', file', runtime')
    BY <1>1, <2>3 DEF ShrinkStart, Agrees, Growing, Shrunk
  <2> HIDE DEF rec
  <2>5. QED
    BY <1>1, <2>2, <2>3, <2>4, StepKeeps DEF ShrinkStart, Starts
<1>2. CASE ShrinkCommit(p)
  <2>1. act[p] # Idle /\ act[p].at \in Locked
    BY <1>2, AtWork DEF ShrinkCommit, Locked
  <2>2. prev = slotCount /\ slotCount > 1
    BY <1>2 DEF ShrinkCommit, Agrees
  <2>3. CASE slotCount' = prev - 1 /\ Goes(p, "shrinkWrite")
    <3>1. slotCount' \in 1..MaxSlots /\ prev = slotCount' + 1
      BY <2>2, <2>3
    <3>2. /\ Agrees("shrinkWrite", prev, act[p].old, slotCount', file', runtime')
          /\ "shrinkWrite" \in Steps
      BY <3>1 DEF Agrees, Shrunk, Growing, Steps, Locked
    <3>3. QED
      BY <1>2, <2>1, <2>3, <3>1, <3>2, GoesKeeps DEF ShrinkCommit
  <2>4. CASE UNCHANGED slotCount /\ Become(p, Idle)
    BY <1>2, <2>1, <2>4, EndKeeps DEF ShrinkCommit
  <2>5. QED
    BY <1>2, <2>3, <2>4 DEF ShrinkCommit
<1>3. CASE ShrinkWrite(p)
  <2>1. act[p] # Idle /\ act[p].at \in Locked
    BY <1>3, AtWork DEF ShrinkWrite, Locked, Shrunk
  <2>2. prev = slotCount + 1
    BY <1>3 DEF ShrinkWrite, Agrees, Shrunk
  <2>3. CASE /\ file' = Rendered(prev - 1)
             /\ Goes(p, "shrinkCheck") \/ Become(p, Idle)
    <3>1. file' \in Files /\ file'.windows = slotCount
      BY <2>2, <2>3, RenderedIsFile
    <3>2. CASE Goes(p, "shrinkCheck")
      <4>1. /\ Agrees("shrinkCheck", prev, act[p].old, slotCount', file', runtime')
            /\ "shrinkCheck" \in Steps
        BY <1>3, <2>2, <3>1 DEF ShrinkWrite, Agrees, Shrunk, Growing, Steps, Locked
      <4>2. QED
        BY <1>3, <2>1, <3>1, <3>2, <4>1, GoesKeeps DEF ShrinkWrite
    <3>3. CASE Become(p, Idle)
      BY <1>3, <2>1, <3>1, <3>3, EndKeeps DEF ShrinkWrite
    <3>4. QED
      BY <2>3, <3>2, <3>3
  <2>4. CASE UNCHANGED file /\ Goes(p, "restoreFile")
    <3>1. /\ Agrees("restoreFile", prev, act[p].old, slotCount', file', runtime')
          /\ "restoreFile" \in Steps
      BY <1>3, <2>2 DEF ShrinkWrite, Agrees, Shrunk, Growing, Steps, Locked
    <3>2. QED
      BY <1>3, <2>1, <2>4, <3>1, GoesKeeps DEF ShrinkWrite
  <2>5. QED
    BY <1>3, <2>3, <2>4 DEF ShrinkWrite
<1>4. CASE ShrinkCheck(p)
  <2>1. act[p] # Idle /\ act[p].at \in Locked
    BY <1>4, AtWork DEF ShrinkCheck, Locked, Shrunk
  <2>2. CASE Become(p, Idle)
    BY <1>4, <2>1, <2>2, EndKeeps DEF ShrinkCheck
  <2>3. ASSUME NEW at \in {"restoreFile", "shrinkReload"}, Goes(p, at)
        PROVE  IInv'
    <3>1. /\ Agrees(at, prev, act[p].old, slotCount', file', runtime')
          /\ at \in Steps
      BY <1>4 DEF ShrinkCheck, Agrees, Shrunk, Growing, Steps, Locked
    <3>2. QED
      BY <1>4, <2>1, <2>3, <3>1, GoesKeeps DEF ShrinkCheck
  <2>4. QED
    BY <1>4, <2>2, <2>3 DEF ShrinkCheck
<1>5. CASE ShrinkReload(p)
  <2>1. act[p] # Idle /\ act[p].at \in Locked
    BY <1>5, AtWork DEF ShrinkReload, Locked, Shrunk
  <2>2. runtime' \in {runtime, file.windows}
    BY <1>5 DEF ShrinkReload, Published, Unpublished
  <2>3. CASE Become(p, Idle)
    BY <1>5, <2>1, <2>2, <2>3, EndKeeps DEF ShrinkReload
  <2>4. CASE Goes(p, "restoreFile")
    <3>1. /\ Agrees("restoreFile", prev, act[p].old, slotCount', file', runtime')
          /\ "restoreFile" \in Steps
      BY <1>5 DEF ShrinkReload, Agrees, Shrunk, Growing, Steps, Locked
    <3>2. QED
      BY <1>5, <2>1, <2>2, <2>4, <3>1, GoesKeeps DEF ShrinkReload
  <2>5. QED
    BY <1>5, <2>3, <2>4 DEF ShrinkReload
<1>6. CASE RestoreFile(p)
  <2>1. act[p] # Idle /\ act[p].at \in Locked
    BY <1>6, AtWork DEF RestoreFile, Locked, Shrunk
  <2>2. CASE file' = act[p].old /\ Goes(p, "restoreCount")
    <3>1. /\ Agrees("restoreCount", prev, act[p].old, slotCount', file', runtime')
          /\ "restoreCount" \in Steps
      BY <1>6, <2>2 DEF RestoreFile, Agrees, Shrunk, Growing, Steps, Locked
    <3>2. QED
      BY <1>6, <2>1, <2>2, <3>1, GoesKeeps DEF RestoreFile
  <2>3. CASE UNCHANGED file /\ Become(p, Idle)
    BY <1>6, <2>1, <2>3, EndKeeps DEF RestoreFile
  <2>4. QED
    BY <1>6, <2>2, <2>3 DEF RestoreFile
<1>7. CASE RestoreCount(p)
  <2>1. act[p] # Idle /\ act[p].at \in Locked
    BY <1>7, AtWork DEF RestoreCount, Locked, Shrunk
  <2>2. slotCount' \in 1..MaxSlots
    BY <1>7 DEF RestoreCount, Agrees, Shrunk
  <2>3. QED
    BY <1>7, <2>1, <2>2, EndKeeps DEF RestoreCount
<1>8. QED
  BY <1>1, <1>2, <1>3, <1>4, <1>5, <1>6, <1>7 DEF ShrinkStep

-----------------------------------------------------------------------------
\* Syncs and restores rely on nothing: they change the file when nobody holds
\* the lock.
LEMMA SyncKeeps ==
  ASSUME IInv, NEW p \in Procs, SyncStep(p)
  PROVE  IInv'
<1> USE Known
<1>1. CASE SyncStart(p)
  <2> DEFINE rec == Read("syncTips", NoFile, FALSE)
  <2>1. rec \in Doings
    BY ReadIsDoing, IdleIsDoing DEF Steps, Syncing, Idle, Doings
  <2>2. rec.at \notin Locked /\ act' = [act EXCEPT ![p] = rec]
    BY <1>1 DEF SyncStart, Become, Read, Locked, Growing, Shrunk
  <2>3. Agrees(rec.at, rec.prev, rec.old, slotCount', file', runtime')
    BY <2>2, OnlyLockedRely
  <2> HIDE DEF rec
  <2>4. QED
    BY <1>1, <2>1, <2>2, <2>3, StepKeeps DEF SyncStart, Starts
<1>2. CASE SyncTips(p)
  <2>1. act[p] # Idle
    BY <1>2, AtWork DEF SyncTips
  <2> DEFINE rec == [act[p] EXCEPT !.at = "syncWrite", !.tips = projected]
  <2>2. CASE Become(p, Idle)
    BY <1>2, <2>1, <2>2, EndKeeps DEF SyncTips
  <2>3. CASE Become(p, rec)
    <3>1. rec \in Doings
      BY DEF Doings, Syncing
    <3>2. rec.at \notin Locked
      BY DEF Doings, Locked, Growing, Shrunk
    <3>3. Agrees(rec.at, rec.prev, rec.old, slotCount', file', runtime')
      BY <3>2, OnlyLockedRely
    <3>4. act' = [act EXCEPT ![p] = rec]
      BY <2>3 DEF Become
    <3> HIDE DEF rec
    <3>5. QED
      BY <1>2, <2>1, <3>1, <3>2, <3>3, <3>4, StepKeeps DEF SyncTips
  <2>4. QED
    BY <1>2, <2>2, <2>3 DEF SyncTips
<1>3. CASE SyncWrite(p)
  <2>1. act[p] # Idle
    BY <1>3, AtWork DEF SyncWrite
  <2>2. [windows |-> act[p].prev, tips |-> act[p].tips] \in Files
    BY DEF Files
  <2>3. file' \in Files /\ written' \in Tips \union {NoTips}
    BY <1>3, <2>2 DEF SyncWrite
  <2>4. QED
    BY <1>3, <2>1, <2>3, EndKeeps DEF SyncWrite
<1>4. QED
  BY <1>1, <1>2, <1>3 DEF SyncStep

LEMMA RestoreKeeps ==
  ASSUME IInv, NEW p \in Procs, RestoreStep(p)
  PROVE  IInv'
<1> USE Known
<1>1. CASE RestoreStart(p)
  <2> DEFINE rec == Read("launchTips", NoFile, FALSE)
  <2>1. rec \in Doings
    BY ReadIsDoing, IdleIsDoing DEF Steps, Restoring, Idle, Doings
  <2>2. rec.at \notin Locked /\ act' = [act EXCEPT ![p] = rec]
    BY <1>1 DEF RestoreStart, Become, Read, Locked, Growing, Shrunk
  <2>3. Agrees(rec.at, rec.prev, rec.old, slotCount', file', runtime')
    BY <2>2, OnlyLockedRely
  <2> HIDE DEF rec
  <2>4. QED
    BY <1>1, <2>1, <2>2, <2>3, StepKeeps DEF RestoreStart, Starts
<1>2. CASE RestoreTips(p)
  <2>1. act[p] # Idle
    BY <1>2, AtWork DEF RestoreTips
  <2> DEFINE rec == [act[p] EXCEPT !.at = "launchWrite", !.tips = projected]
  <2>2. rec \in Doings
    BY DEF Doings, Restoring
  <2>3. rec.at \notin Locked
    BY DEF Doings, Locked, Growing, Shrunk
  <2>4. Agrees(rec.at, rec.prev, rec.old, slotCount', file', runtime')
    BY <2>3, OnlyLockedRely
  <2>5. act' = [act EXCEPT ![p] = rec]
    BY <1>2 DEF RestoreTips, Become
  <2> HIDE DEF rec
  <2>6. QED
    BY <1>2, <2>1, <2>2, <2>3, <2>4, <2>5, StepKeeps DEF RestoreTips
<1>3. CASE RestoreWrite(p)
  <2>1. act[p] # Idle
    BY <1>3, AtWork DEF RestoreWrite
  <2>2. CASE UNCHANGED file /\ Become(p, Idle)
    BY <1>3, <2>1, <2>2, EndKeeps DEF RestoreWrite
  <2>3. CASE /\ file' = [windows |-> act[p].prev, tips |-> act[p].tips]
             /\ Goes(p, "launchRun")
    <3>1. file' \in Files
      BY <2>3 DEF Files
    <3>2. "launchRun" \in Steps /\ "launchRun" \notin Locked
      BY DEF Steps, Restoring, Locked, Growing, Shrunk
    <3>3. Agrees("launchRun", act[p].prev, act[p].old, slotCount', file', runtime')
      BY <3>2, OnlyLockedRely
    <3>4. QED
      BY <1>3, <2>1, <2>3, <3>1, <3>2, <3>3, GoesKeeps DEF RestoreWrite
  <2>4. QED
    BY <1>3, <2>2, <2>3 DEF RestoreWrite
<1>4. CASE RestoreLaunch(p)
  <2>1. runtime' \in {runtime, file.windows}
    BY <1>4 DEF RestoreLaunch, Launched
  <2>2. QED
    BY <1>4, <2>1, AtWork, EndKeeps DEF RestoreLaunch
<1>5. QED
  BY <1>1, <1>2, <1>3, <1>4 DEF RestoreStep

-----------------------------------------------------------------------------
\* What happens to the server and around it: no process is at work, or each
\* goes on relying on what it relied on.
LEMMA ServerKeeps ==
  ASSUME IInv,
         StartupWrite \/ StartupLaunch \/ RuntimeStops \/ TipsChange \/ Crash
  PROVE  IInv'
<1>1. /\ slotCount \in 1..MaxSlots /\ file \in Files /\ MaxSlots \in Nat
      /\ file.windows \in 0..MaxSlots /\ runtime \in 0..MaxSlots
  BY ResizeAssumption DEF IInv, TypeOK, Files
<1>2. ASSUME act' = act, server # "up", TypeOK'
      PROVE  IInv'
  <2>1. \A p \in Procs : act[p].at \notin Locked
    BY <1>2, IdleIsDoing DEF IInv, IdleUnlessUp
  <2>2. \A p \in Procs :
          Agrees(act[p].at, act[p].prev, act[p].old, slotCount', file', runtime')
    BY <2>1, OnlyLockedRely
  <2>3. QED
    BY <1>2, <2>1, <2>2 DEF IInv, IdleUnlessUp, Exclusive
<1>3. CASE StartupWrite
  <2>1. [windows |-> slotCount, tips |-> projected] \in Files
    BY <1>1 DEF Files, IInv, TypeOK
  <2>2. TypeOK'
    BY <1>3, <2>1 DEF StartupWrite, IInv, TypeOK
  <2>3. QED
    BY <1>2, <1>3, <2>2 DEF StartupWrite
<1>4. CASE StartupLaunch
  <2>1. TypeOK'
    BY <1>1, <1>4 DEF StartupLaunch, Launched, IInv, TypeOK
  <2>2. QED
    BY <1>2, <1>4, <2>1 DEF StartupLaunch
<1>5. CASE RuntimeStops
  <2>1. TypeOK'
    BY <1>1, <1>5 DEF RuntimeStops, IInv, TypeOK
  <2>2. ASSUME NEW p \in Procs
        PROVE  Agrees(act[p].at, act[p].prev, act[p].old, slotCount, file, runtime')
    BY <1>5 DEF RuntimeStops, IInv, Agrees
  <2>3. QED
    BY <1>5, <2>1, <2>2 DEF RuntimeStops, IInv, IdleUnlessUp, Exclusive
<1>6. CASE TipsChange
  <2>1. TypeOK'
    BY <1>6 DEF TipsChange, IInv, TypeOK
  <2>2. QED
    BY <1>6, <2>1 DEF TipsChange, IInv, IdleUnlessUp, Exclusive
<1>7. CASE Crash
  <2>1. TypeOK'
    BY <1>7, IdleIsDoing DEF Crash, IInv, TypeOK
  <2>2. \A p \in Procs : act'[p] = Idle
    BY <1>7 DEF Crash
  <2>3. QED
    BY <2>1, <2>2, IdleIsDoing, OnlyLockedRely DEF IInv, IdleUnlessUp, Exclusive
<1>8. QED
  BY <1>3, <1>4, <1>5, <1>6, <1>7

LEMMA NextKeepsIInv == IInv /\ [Next]_vars => IInv'
<1> SUFFICES ASSUME IInv, [Next]_vars PROVE IInv'
  OBVIOUS
<1>1. CASE \E p \in Procs :
             GrowStep(p) \/ ShrinkStep(p) \/ SyncStep(p) \/ RestoreStep(p)
  BY <1>1, GrowKeeps, ShrinkKeeps, SyncKeeps, RestoreKeeps
<1>2. CASE StartupWrite \/ StartupLaunch \/ RuntimeStops \/ TipsChange \/ Crash
  BY <1>2, ServerKeeps
<1>3. CASE UNCHANGED vars
  BY <1>3 DEF vars, IInv, TypeOK, Exclusive, IdleUnlessUp
<1>4. QED
  BY <1>1, <1>2, <1>3 DEF Next

LEMMA AlwaysIInv == Spec => []IInv
BY InitHolds, NextKeepsIInv, PTL DEF Spec

\* Count, file, runtime, tips and processes keep their types; the count stays
\* between one and the maximum whatever fails.
THEOREM ResizeTypeCorrect == Spec => []TypeOK
<1>1. IInv => TypeOK
  BY DEF IInv
<1>2. QED
  BY <1>1, AlwaysIInv, PTL

\* What a failed resize still has to write back is all there is to undo.
THEOREM UndoIsComplete == Spec => []RestoreSuffices
<1>1. ASSUME IInv
      PROVE  RestoreSuffices
  <2>1. ASSUME NEW p \in Procs
        PROVE  /\ act[p].at = "growRestore" => slotCount = act[p].prev
               /\ act[p].at \in {"restoreFile", "restoreCount"} =>
                    slotCount = act[p].prev - 1
               /\ act[p].at = "restoreCount" => file = act[p].old
    <3>1. Agrees(act[p].at, act[p].prev, act[p].old, slotCount, file, runtime)
          /\ slotCount \in Nat
      BY <1>1, Known
    <3>2. QED
      BY <3>1 DEF Agrees, Growing, Shrunk
  <2>2. QED
    BY <2>1 DEF RestoreSuffices
<1>2. QED
  BY <1>1, AlwaysIInv, PTL

-----------------------------------------------------------------------------
StepOf(p) == GrowStep(p) \/ ShrinkStep(p) \/ SyncStep(p) \/ RestoreStep(p)

\* Each step is of a process that is at it, ...
LEMMA StepIsAt ==
  ASSUME NEW p \in Procs
  PROVE  /\ GrowStart(p) => act[p].at = "idle"
         /\ GrowWrite(p) => act[p].at = "growWrite"
         /\ GrowProbe(p) => act[p].at = "growProbe"
         /\ GrowRecord(p) => act[p].at = "growRecord"
         /\ GrowReload(p) => act[p].at = "growReload"
         /\ GrowCommit(p) => act[p].at = "growCommit"
         /\ GrowEnds(p) => act[p].at = "growWait"
         /\ GrowRestore(p) => act[p].at = "growRestore"
         /\ ShrinkStart(p) => act[p].at = "idle"
         /\ ShrinkCommit(p) => act[p].at = "shrinkCommit"
         /\ ShrinkWrite(p) => act[p].at = "shrinkWrite"
         /\ ShrinkCheck(p) => act[p].at = "shrinkCheck"
         /\ ShrinkReload(p) => act[p].at = "shrinkReload"
         /\ RestoreFile(p) => act[p].at = "restoreFile"
         /\ RestoreCount(p) => act[p].at = "restoreCount"
         /\ SyncStart(p) => act[p].at = "idle"
         /\ SyncTips(p) => act[p].at = "syncTips"
         /\ SyncWrite(p) => act[p].at = "syncWrite"
         /\ RestoreStart(p) => act[p].at = "idle"
         /\ RestoreTips(p) => act[p].at = "launchTips"
         /\ RestoreWrite(p) => act[p].at = "launchWrite"
         /\ RestoreLaunch(p) => act[p].at = "launchRun"
<1>1. Starts(p) => act[p].at = "idle"
  BY DEF Starts, Idle
<1>2. QED
  BY <1>1 DEF GrowStart, GrowWrite, GrowProbe, GrowRecord,
     GrowReload, GrowCommit, GrowEnds, GrowRestore,
     ShrinkStart, ShrinkCommit, ShrinkWrite, ShrinkCheck,
     ShrinkReload, RestoreFile, RestoreCount, SyncStart,
     SyncTips, SyncWrite, RestoreStart, RestoreTips,
     RestoreWrite, RestoreLaunch

\* ... and changes what that process does and no other.
LEMMA StepIsOwn ==
  ASSUME NEW p \in Procs, StepOf(p)
  PROVE  \E rec : Become(p, rec)
<1>1. CASE GrowStep(p)
  BY <1>1 DEF GrowStep, Goes, GrowStart, GrowWrite, GrowProbe, GrowRecord,
     GrowReload, GrowCommit, GrowEnds, GrowRestore
<1>2. CASE ShrinkStep(p)
  BY <1>2 DEF ShrinkStep, Goes, ShrinkStart, ShrinkCommit, ShrinkWrite, ShrinkCheck,
     ShrinkReload, RestoreFile, RestoreCount
<1>3. CASE SyncStep(p)
  BY <1>3 DEF SyncStep, SyncStart, SyncTips, SyncWrite
<1>4. CASE RestoreStep(p)
  BY <1>4 DEF RestoreStep, Goes, RestoreStart, RestoreTips, RestoreWrite,
     RestoreLaunch
<1>5. QED
  BY <1>1, <1>2, <1>3, <1>4 DEF StepOf

\* Nobody changes count and file under the holder of the lock.
LEMMA Undisturbed ==
  ASSUME IInv, NEW p \in Procs, act[p].at \in Locked,
         NEW q \in Procs, q # p, StepOf(q)
  PROVE  UNCHANGED <<slotCount, file>> /\ act'[p] = act[p]
<1>1. act[q].at \notin Locked /\ ~LockFree
  BY DEF IInv, Exclusive, LockFree
<1>2. PICK rec : act' = [act EXCEPT ![q] = rec]
  BY StepIsOwn DEF Become
<1>3. act'[p] = act[p]
  BY <1>2 DEF IInv, TypeOK
<1>4. ~GrowStep(q)
  BY <1>1, StepIsAt DEF GrowStep, GrowStart, Locked, Growing
<1>5. ~ShrinkStep(q)
  BY <1>1, StepIsAt DEF ShrinkStep, ShrinkStart, Locked, Shrunk
<1>6. ASSUME SyncStep(q) \/ RestoreStep(q)
      PROVE  UNCHANGED <<slotCount, file>>
  <2>1. CASE SyncStep(q)
    BY <1>1, <2>1 DEF SyncStep, SyncStart, SyncTips, SyncWrite
  <2>2. CASE RestoreStep(q)
    BY <1>1, <2>2 DEF RestoreStep, RestoreStart, RestoreTips, RestoreWrite,
       RestoreLaunch
  <2>3. QED
    BY <1>6, <2>1, <2>2
<1>7. QED
  BY <1>3, <1>4, <1>5, <1>6 DEF StepOf

ServerStep ==
  StartupWrite \/ StartupLaunch \/ RuntimeStops \/ TipsChange \/ Crash

LEMMA UndisturbedByServer ==
  ASSUME IInv, NEW p \in Procs, act[p].at \in Locked, ServerStep
  PROVE  /\ UNCHANGED <<slotCount, file>>
         /\ act'[p] # act[p] => server' # "up"
<1>1. server = "up"
  BY IdleIsDoing DEF IInv, IdleUnlessUp
<1>2. QED
  BY <1>1 DEF ServerStep, StartupWrite, StartupLaunch, RuntimeStops, TipsChange,
     Crash

\* A resize that answers success leaves count, file and runtime at one number.
THEOREM SuccessMeansAgreement == Spec => SuccessAgrees
<1>1. ASSUME IInv, [Next]_vars, NEW p \in Procs, Succeeds(p)
      PROVE  /\ file'.windows = slotCount'
             /\ act[p].at \in {"growCommit", "shrinkReload"} =>
                  runtime' \in {0, slotCount'}
  <2> USE <1>1
  <2>1. /\ act[p].at \in {"growRecord", "growCommit", "shrinkWrite", "shrinkReload"}
        /\ act[p].at \in Locked
    BY DEF Succeeds, Locked, Growing, Shrunk
  <2>2. act[p] # Idle
    BY <2>1, AtWork
  <2>3. /\ Agrees(act[p].at, act[p].prev, act[p].old, slotCount, file, runtime)
        /\ slotCount \in 1..MaxSlots /\ MaxSlots \in Nat
        /\ act[p].prev \in 0..MaxSlots
    BY Known
  <2>4. StepOf(p)
    <3>1. CASE ServerStep
      BY <2>1, <2>2, <3>1, UndisturbedByServer DEF Succeeds
    <3>2. CASE \E q \in Procs : q # p /\ StepOf(q)
      BY <2>1, <2>2, <3>2, Undisturbed DEF Succeeds
    <3>3. CASE UNCHANGED vars
      BY <2>1, <2>2, <3>3 DEF Succeeds, vars
    <3>4. QED
      BY <3>1, <3>2, <3>3 DEF Next, StepOf, ServerStep
  <2>5. CASE act[p].at = "growRecord"
    <3>1. GrowRecord(p)
      BY <2>4, <2>5, StepIsAt
      DEF StepOf, GrowStep, ShrinkStep, SyncStep, RestoreStep
    <3>2. QED
      BY <2>3, <2>5, <3>1 DEF GrowRecord, Succeeds, Agrees, Growing
  <2>6. CASE act[p].at = "growCommit"
    <3>1. GrowCommit(p)
      BY <2>4, <2>6, StepIsAt
      DEF StepOf, GrowStep, ShrinkStep, SyncStep, RestoreStep
    <3>2. QED
      BY <2>3, <2>6, <3>1 DEF GrowCommit, Succeeds, Agrees, Growing
  <2>7. CASE act[p].at = "shrinkWrite"
    <3>1. ShrinkWrite(p)
      BY <2>4, <2>7, StepIsAt
      DEF StepOf, GrowStep, ShrinkStep, SyncStep, RestoreStep
    <3>2. file' = Rendered(act[p].prev - 1) /\ slotCount' = slotCount
      BY <2>7, <3>1 DEF ShrinkWrite, Succeeds
    <3>3. QED
      BY <2>3, <2>7, <3>2 DEF Agrees, Shrunk, Rendered
  <2>8. CASE act[p].at = "shrinkReload"
    <3>1. ShrinkReload(p)
      BY <2>4, <2>8, StepIsAt
      DEF StepOf, GrowStep, ShrinkStep, SyncStep, RestoreStep
    <3>2. ~Goes(p, "restoreFile")
      <4>1. SUFFICES ASSUME Goes(p, "restoreFile") PROVE act'[p] # Idle
        BY <2>8 DEF Succeeds
      <4>2. act'[p].at = "restoreFile"
        BY <4>1 DEF Goes, Become, IInv, TypeOK, Doings
      <4>3. QED
        BY <4>2 DEF Idle
    <3>3. Published /\ UNCHANGED <<slotCount, file>>
      BY <3>1, <3>2 DEF ShrinkReload
    <3>4. QED
      BY <2>3, <2>8, <3>3 DEF Published, Agrees
  <2>9. QED
    BY <2>1, <2>5, <2>6, <2>7, <2>8
<1>2. IInv /\ [Next]_vars =>
        [\A p \in Procs : Succeeds(p) =>
           /\ file'.windows = slotCount'
           /\ act[p].at \in {"growCommit", "shrinkReload"} =>
                runtime' \in {0, slotCount'}]_vars
  BY <1>1
<1>3. QED
  BY <1>2, AlwaysIInv, PTL DEF Spec, SuccessAgrees

-----------------------------------------------------------------------------
OldCovers(p) == act[p].at \in Locked => ~Drifts(act[p].old, act[p].prev)

\* A step of a process that keeps what it has read, or reads what covers, or
\* holds no lock afterwards, leaves the texts that may be put back covering.
LEMMA OldStillCovers ==
  ASSUME IInv, NEW p \in Procs, NEW rec, Become(p, rec), Covered,
         rec.at \in Locked => ~Drifts(rec.old, rec.prev)
  PROVE  \A q \in Procs : OldCovers(q)'
<1>1. act'[p] = rec /\ \A q \in Procs : q # p => act'[q] = act[q]
  BY DEF Become, IInv, TypeOK
<1>2. QED
  BY <1>1 DEF OldCovers, Covered, Drifts, Exists

\* The same for the holder of the lock that goes on with what it has read, ...
LEMMA GoingOnCovers ==
  ASSUME IInv, NEW p \in Procs, NEW at, Goes(p, at), act[p].at \in Locked, Covered
  PROVE  \A q \in Procs : OldCovers(q)'
<1> DEFINE rec == [act[p] EXCEPT !.at = at]
<1>1. rec.old = act[p].old /\ rec.prev = act[p].prev
  BY Known DEF Doings
<1>2. ~Drifts(rec.old, rec.prev)
  BY <1>1 DEF Covered
<1>3. Become(p, rec)
  BY DEF Goes
<1> HIDE DEF rec
<1>4. QED
  BY <1>2, <1>3, OldStillCovers

\* ... and for a process that ends.
LEMMA IdleCovers ==
  ASSUME IInv, NEW p \in Procs, Become(p, Idle), Covered
  PROVE  \A q \in Procs : OldCovers(q)'
BY IdleIsDoing, OldStillCovers

\* A grow writes the window before it records the slot and puts back what
\* covered the old count.
LEMMA GrowCovers ==
  ASSUME IInv, NEW p \in Procs, GrowStep(p), Covered
  PROVE  Covered'
<1> USE Known
<1>1. ~Drifts(file, slotCount) /\ OldCovers(p)
  BY DEF Covered, OldCovers
<1>2. ~Drifts(file', slotCount')
  <2>1. CASE GrowWrite(p)
    BY <1>1, <2>1 DEF GrowWrite, Agrees, Growing, Rendered, Drifts, Exists
  <2>2. CASE GrowRecord(p)
    BY <1>1, <2>2 DEF GrowRecord, Agrees, Growing, Drifts, Exists
  <2>3. CASE GrowCommit(p)
    BY <1>1, <2>3 DEF GrowCommit, Agrees, Growing, Drifts, Exists
  <2>4. CASE GrowRestore(p)
    BY <1>1, <2>4
    DEF GrowRestore, OldCovers, Agrees, Locked, Growing, Drifts, Exists
  <2>5. CASE GrowStart(p) \/ GrowProbe(p) \/ GrowReload(p) \/ GrowEnds(p)
    BY <1>1, <2>5 DEF GrowStart, GrowProbe, GrowReload, GrowEnds, Drifts, Exists
  <2>6. QED
    BY <2>1, <2>2, <2>3, <2>4, <2>5 DEF GrowStep
<1>3. \A q \in Procs : OldCovers(q)'
  <2>1. CASE GrowStart(p)
    <3> DEFINE rec == Read("growWrite", file, FALSE)
    <3>1. Become(p, rec) /\ rec.old = file /\ rec.prev = slotCount
      BY <2>1 DEF GrowStart, Read
    <3> HIDE DEF rec
    <3>2. QED
      BY <1>1, <3>1, OldStillCovers
  <2>2. CASE ~GrowStart(p)
    <3>1. act[p].at \in Locked
      BY <2>2, StepIsAt DEF GrowStep, Locked, Growing
    <3>2. Become(p, Idle) \/ \E at : Goes(p, at)
      BY <2>2 DEF GrowStep, GrowWrite, GrowProbe, GrowRecord, GrowReload,
         GrowCommit, GrowEnds, GrowRestore
    <3>3. QED
      BY <3>1, <3>2, IdleCovers, GoingOnCovers
  <2>3. QED
    BY <2>1, <2>2
<1>4. QED
  BY <1>2, <1>3 DEF Covered, OldCovers

\* A shrink takes the slot from the count before the window from the file, and
\* gives the window back before the slot.
LEMMA ShrinkCovers ==
  ASSUME IInv, NEW p \in Procs, ShrinkStep(p), Covered
  PROVE  Covered'
<1> USE Known
<1>1. ~Drifts(file, slotCount) /\ OldCovers(p)
  BY DEF Covered, OldCovers
<1>2. ~Drifts(file', slotCount')
  <2>1. CASE ShrinkCommit(p)
    BY <1>1, <2>1 DEF ShrinkCommit, Agrees, Drifts, Exists
  <2>2. CASE ShrinkWrite(p)
    <3>1. act[p].prev = slotCount + 1 /\ slotCount' = slotCount
      BY <2>2 DEF ShrinkWrite, Agrees, Shrunk
    <3>2. file' = Rendered(act[p].prev - 1) \/ file' = file
      BY <2>2 DEF ShrinkWrite
    <3>3. QED
      BY <1>1, <3>1, <3>2 DEF Rendered, Drifts, Exists
  <2>3. CASE RestoreFile(p)
    <3>1. act[p].prev = slotCount + 1 /\ act[p].at \in Locked
      BY <2>3 DEF RestoreFile, Agrees, Locked, Shrunk
    <3>2. file' \in {act[p].old, file} /\ slotCount' = slotCount
      BY <2>3 DEF RestoreFile
    <3>3. QED
      BY <1>1, <3>1, <3>2 DEF OldCovers, Drifts, Exists, Files
  <2>4. CASE RestoreCount(p)
    <3>1. file' = act[p].old /\ act[p].prev = slotCount + 1
      BY <2>4 DEF RestoreCount, Agrees, Shrunk
    <3>2. slotCount' \in {act[p].prev, slotCount} /\ act[p].at \in Locked
      BY <2>4 DEF RestoreCount, Locked, Shrunk
    <3>3. QED
      BY <1>1, <3>1, <3>2 DEF OldCovers, Drifts, Exists, Files
  <2>5. CASE ShrinkStart(p) \/ ShrinkCheck(p) \/ ShrinkReload(p)
    BY <1>1, <2>5 DEF ShrinkStart, ShrinkCheck, ShrinkReload, Drifts, Exists
  <2>6. QED
    BY <2>1, <2>2, <2>3, <2>4, <2>5 DEF ShrinkStep
<1>3. \A q \in Procs : OldCovers(q)'
  <2>1. CASE ShrinkStart(p)
    <3>1. PICK online : Become(p, Read("shrinkCommit", file, online))
      BY <2>1 DEF ShrinkStart
    <3> DEFINE rec == Read("shrinkCommit", file, online)
    <3>2. Become(p, rec) /\ rec.old = file /\ rec.prev = slotCount
      BY <3>1 DEF Read
    <3> HIDE DEF rec
    <3>3. QED
      BY <1>1, <3>2, OldStillCovers
  <2>2. CASE ~ShrinkStart(p)
    <3>1. act[p].at \in Locked
      BY <2>2, StepIsAt DEF ShrinkStep, Locked, Shrunk
    <3>2. Become(p, Idle) \/ \E at : Goes(p, at)
      BY <2>2 DEF ShrinkStep, ShrinkCommit, ShrinkWrite, ShrinkCheck, ShrinkReload,
         RestoreFile, RestoreCount
    <3>3. QED
      BY <3>1, <3>2, IdleCovers, GoingOnCovers
  <2>3. QED
    BY <2>1, <2>2
<1>4. QED
  BY <1>2, <1>3 DEF Covered, OldCovers

\* Syncs and restores never hold the lock from one step to the next.
LEMMA OutsiderStaysOutside ==
  ASSUME IInv, NEW p \in Procs, SyncStep(p) \/ RestoreStep(p)
  PROVE  /\ \E rec : Become(p, rec) /\ rec.at \notin Locked
         /\ act[p].at \notin Locked /\ UNCHANGED slotCount
<1> USE Known
<1>1. CASE SyncStep(p)
  <2> SUFFICES \E rec : Become(p, rec) /\ rec.at \notin Locked
    BY <1>1, StepIsAt DEF SyncStep, SyncStart, SyncTips, SyncWrite,
       Locked, Growing, Shrunk
  <2>1. CASE SyncStart(p)
    <3>1. Read("syncTips", NoFile, FALSE).at \notin Locked
      BY DEF Read, Locked, Growing, Shrunk
    <3>2. QED
      BY <2>1, <3>1 DEF SyncStart
  <2>2. CASE SyncTips(p)
    <3>1. [act[p] EXCEPT !.at = "syncWrite", !.tips = projected].at \notin Locked
      BY DEF Doings, Locked, Growing, Shrunk
    <3>2. QED
      BY <2>2, <3>1, IdleIsDoing DEF SyncTips
  <2>3. CASE SyncWrite(p)
    BY <2>3, IdleIsDoing DEF SyncWrite
  <2>4. QED
    BY <1>1, <2>1, <2>2, <2>3 DEF SyncStep
<1>2. CASE RestoreStep(p)
  <2> SUFFICES \E rec : Become(p, rec) /\ rec.at \notin Locked
    BY <1>2, StepIsAt DEF RestoreStep, RestoreStart, RestoreTips, RestoreWrite,
       RestoreLaunch, Locked, Growing, Shrunk
  <2>1. CASE RestoreStart(p)
    <3>1. Read("launchTips", NoFile, FALSE).at \notin Locked
      BY DEF Read, Locked, Growing, Shrunk
    <3>2. QED
      BY <2>1, <3>1 DEF RestoreStart
  <2>2. CASE RestoreTips(p)
    <3>1. [act[p] EXCEPT !.at = "launchWrite", !.tips = projected].at \notin Locked
      BY DEF Doings, Locked, Growing, Shrunk
    <3>2. QED
      BY <2>2, <3>1 DEF RestoreTips
  <2>3. CASE RestoreWrite(p)
    <3>1. [act[p] EXCEPT !.at = "launchRun"].at \notin Locked
      BY DEF Doings, Locked, Growing, Shrunk
    <3>2. QED
      BY <2>3, <3>1, IdleIsDoing DEF RestoreWrite, Goes
  <2>4. CASE RestoreLaunch(p)
    BY <2>4, IdleIsDoing DEF RestoreLaunch
  <2>5. QED
    BY <1>2, <2>1, <2>2, <2>3, <2>4 DEF RestoreStep
<1>3. QED
  BY <1>1, <1>2

\* A write of what was read before does no harm unless the count has grown
\* since.
LEMMA SyncCovers ==
  ASSUME IInv, NEW p \in Procs, SyncStep(p), Covered, ~WritesStale(p)
  PROVE  Covered'
<1> USE Known
<1>1. PICK rec : Become(p, rec) /\ rec.at \notin Locked
  BY OutsiderStaysOutside
<1>2. \A q \in Procs : OldCovers(q)'
  BY <1>1, OldStillCovers
<1>3. ~Drifts(file, slotCount)
  BY DEF Covered
<1>4. ~Drifts(file', slotCount')
  <2>1. CASE SyncStart(p) \/ SyncTips(p)
    BY <1>3, <2>1 DEF SyncStart, SyncTips
  <2>2. CASE SyncWrite(p)
    <3>1. act'[p] # act[p]
      BY <2>2, AtWork DEF SyncWrite, Become, IInv, TypeOK
    <3>2. act[p].prev >= slotCount
      BY <2>2, <3>1 DEF SyncWrite, WritesStale
    <3>3. QED
      BY <1>3, <2>2, <3>2 DEF SyncWrite, Drifts, Exists
  <2>3. QED
    BY <2>1, <2>2 DEF SyncStep
<1>5. QED
  BY <1>2, <1>4 DEF Covered, OldCovers

LEMMA RestoreCovers ==
  ASSUME IInv, NEW p \in Procs, RestoreStep(p), Covered, ~WritesStale(p)
  PROVE  Covered'
<1> USE Known
<1>1. PICK rec : Become(p, rec) /\ rec.at \notin Locked
  BY OutsiderStaysOutside
<1>2. \A q \in Procs : OldCovers(q)'
  BY <1>1, OldStillCovers
<1>3. ~Drifts(file, slotCount)
  BY DEF Covered
<1>4. ~Drifts(file', slotCount')
  <2>1. CASE RestoreStart(p) \/ RestoreTips(p) \/ RestoreLaunch(p)
    BY <1>3, <2>1 DEF RestoreStart, RestoreTips, RestoreLaunch
  <2>2. CASE RestoreWrite(p)
    <3>1. act'[p].at # "launchWrite"
      BY <2>2 DEF RestoreWrite, Goes, Become, IInv, TypeOK, Doings, Idle
    <3>2. act[p].prev >= slotCount
      BY <2>2, <3>1 DEF RestoreWrite, WritesStale
    <3>3. QED
      BY <1>3, <2>2, <3>2 DEF RestoreWrite, Drifts, Exists
  <2>3. QED
    BY <2>1, <2>2 DEF RestoreStep
<1>5. QED
  BY <1>2, <1>4 DEF Covered, OldCovers

LEMMA ServerCovers ==
  ASSUME IInv, ServerStep, Covered
  PROVE  Covered'
<1>1. ~Drifts(file', slotCount')
  <2>1. ~Drifts(file, slotCount)
    BY DEF Covered
  <2>2. slotCount \in Nat
    BY ResizeAssumption DEF IInv, TypeOK
  <2>3. QED
    BY <2>1, <2>2 DEF ServerStep, StartupWrite, StartupLaunch, RuntimeStops,
       TipsChange, Crash, Drifts
<1>2. act' = act \/ \A p \in Procs : act'[p].at \notin Locked
  BY IdleIsDoing
  DEF ServerStep, StartupWrite, StartupLaunch, RuntimeStops, TipsChange, Crash
<1>3. QED
  BY <1>1, <1>2 DEF Covered

\* The file goes on covering the count through every failure and crash but for
\* the write of a count that was read before a grow.
THEOREM CoverageKept == Spec => CoverKept
<1>1. ASSUME IInv, [Next]_vars, Covered, \A p \in Procs : ~WritesStale(p)
      PROVE  Covered'
  <2>1. CASE ServerStep
    BY <1>1, <2>1, ServerCovers
  <2>2. CASE \E p \in Procs : StepOf(p)
    BY <1>1, <2>2, GrowCovers, ShrinkCovers, SyncCovers, RestoreCovers DEF StepOf
  <2>3. CASE UNCHANGED vars
    BY <1>1, <2>3 DEF vars, Covered, Drifts, Exists
  <2>4. QED
    BY <1>1, <2>1, <2>2, <2>3 DEF Next, StepOf, ServerStep
<1>2. IInv /\ [Next]_vars =>
        [Covered => Covered' \/ \E p \in Procs : WritesStale(p)]_vars
  BY <1>1
<1>3. QED
  BY <1>2, AlwaysIInv, PTL DEF Spec, CoverKept

-----------------------------------------------------------------------------
\* The phase is that of the process that holds the lock.
PhaseAt(at) ==
  IF at \in Growing THEN "grow"
  ELSE IF at = "growWait" THEN "grown"
  ELSE IF at = "shrinkCommit" THEN "shrink"
  ELSE IF at \in Shrunk THEN "shrunk"
  ELSE "none"

LEMMA NoHolderNoPhase == LockFree => Phase = "none"
BY DEF LockFree, Phase, Locked, Growing, Shrunk

LEMMA PhaseOfHolder ==
  ASSUME Exclusive, NEW p \in Procs, act[p].at \in Locked
  PROVE  Phase = PhaseAt(act[p].at)
<1>1. \A q \in Procs : act[q].at \in Locked => q = p
  BY DEF Exclusive
<1>2. QED
  BY <1>1 DEF Phase, PhaseAt, Locked, Growing, Shrunk

LEMMA NoHolderNoPhaseNext == LockFree' => Phase' = "none"
BY DEF LockFree, Phase, Locked, Growing, Shrunk

\* After a step of the holder, or of one that takes the lock, the phase is
\* that of the step it has come to; after one of anybody else it is the same.
LEMMA PhaseFollows ==
  ASSUME IInv, IInv', NEW p \in Procs, NEW rec, Become(p, rec)
  PROVE  /\ act[p].at \in Locked \/ LockFree => Phase' = PhaseAt(rec.at)
         /\ act[p].at \notin Locked /\ rec.at \notin Locked => Phase' = Phase
<1>1. act'[p] = rec /\ \A q \in Procs : q # p => act'[q] = act[q]
  BY DEF Become, IInv, TypeOK
<1>2. CASE rec.at \in Locked
  <2>1. \A q \in Procs : act'[q].at \in Locked => q = p
    BY <1>1, <1>2 DEF IInv, Exclusive
  <2>2. Phase' = PhaseAt(rec.at)
    BY <1>1, <1>2, <2>1 DEF Phase, PhaseAt, Locked, Growing, Shrunk
  <2>3. QED
    BY <1>2, <2>2
<1>3. CASE rec.at \notin Locked
  <2>1. PhaseAt(rec.at) = "none"
    BY <1>3 DEF PhaseAt, Locked, Growing, Shrunk
  <2>2. CASE act[p].at \in Locked \/ LockFree
    <3>1. LockFree'
      BY <1>1, <1>3, <2>2 DEF LockFree, IInv, Exclusive
    <3>2. Phase' = "none"
      BY <3>1, NoHolderNoPhaseNext
    <3>3. act[p].at \notin Locked => Phase = "none"
      BY <2>2, NoHolderNoPhase
    <3>4. QED
      BY <2>1, <3>2, <3>3
  <2>3. CASE act[p].at \notin Locked /\ ~LockFree
    <3>1. PICK q \in Procs : act[q].at \in Locked
      BY <2>3 DEF LockFree
    <3>2. act'[q] = act[q]
      BY <1>1, <2>3, <3>1
    <3>3. Phase = PhaseAt(act[q].at)
      BY <3>1, PhaseOfHolder DEF IInv
    <3>4. \A s \in Procs : act'[s].at \in Locked => s = q
      BY <3>1, <3>2 DEF IInv, Exclusive
    <3>5. Phase' = PhaseAt(act'[q].at)
      BY <3>1, <3>2, <3>4 DEF Phase, PhaseAt, Locked, Growing, Shrunk
    <3>6. QED
      BY <2>3, <3>2, <3>3, <3>5
  <2>4. QED
    BY <2>2, <2>3
<1>4. QED
  BY <1>2, <1>3

LEMMA HolderMoves ==
  ASSUME IInv, IInv', NEW p \in Procs, act[p].at \in Locked
  PROVE  /\ Phase = PhaseAt(act[p].at)
         /\ Become(p, Idle) => Phase' = "none"
         /\ \A at : Goes(p, at) => Phase' = PhaseAt(at)
<1>1. Phase = PhaseAt(act[p].at)
  BY PhaseOfHolder DEF IInv
<1>2. Become(p, Idle) => Phase' = "none"
  <2>1. PhaseAt(Idle.at) = "none"
    BY DEF Idle, PhaseAt, Growing, Shrunk
  <2>2. QED
    BY <2>1, PhaseFollows
<1>3. ASSUME NEW at, Goes(p, at)
      PROVE  Phase' = PhaseAt(at)
  <2> DEFINE rec == [act[p] EXCEPT !.at = at]
  <2>1. rec.at = at
    BY Known DEF Doings
  <2>2. Become(p, rec)
    BY <1>3 DEF Goes
  <2> HIDE DEF rec
  <2>3. QED
    BY <2>1, <2>2, PhaseFollows
<1>4. QED
  BY <1>1, <1>2, <1>3

LEMMA GrowIsTopology ==
  ASSUME IInv, IInv', NEW p \in Procs, GrowStep(p)
  PROVE  [Topology!Next]_(Topology!vars)
<1> USE Known DEF Topology!Next, Topology!vars
<1>1. CASE GrowStart(p)
  <2> DEFINE rec == Read("growWrite", file, FALSE)
  <2>1. Become(p, rec) /\ PhaseAt(rec.at) = "grow"
    BY <1>1 DEF GrowStart, Read, PhaseAt, Growing
  <2> HIDE DEF rec
  <2>2. Phase = "none" /\ Phase' = "grow"
    BY <1>1, <2>1, PhaseFollows, NoHolderNoPhase DEF GrowStart
  <2>3. QED
    BY <1>1, <2>2 DEF GrowStart, Topology!StartGrow
<1>2. CASE GrowWrite(p) \/ GrowProbe(p) \/ GrowReload(p) \/ GrowRestore(p)
  <2>1. act[p].at \in Locked /\ PhaseAt(act[p].at) = "grow"
    BY <1>2, StepIsAt DEF Locked, Growing, PhaseAt
  <2>2. slotCount' = slotCount
    BY <1>2 DEF GrowWrite, GrowProbe, GrowReload, GrowRestore
  <2>3. Become(p, Idle) \/ \E at \in Growing : Goes(p, at)
    BY <1>2 DEF GrowWrite, GrowProbe, GrowReload, GrowRestore, Growing
  <2>4. Phase = "grow" /\ Phase' \in {"grow", "none"}
    BY <2>1, <2>3, HolderMoves DEF PhaseAt
  <2>5. QED
    BY <2>2, <2>4 DEF Topology!Leave
<1>3. CASE GrowRecord(p)
  <2>1. act[p].at \in Locked /\ PhaseAt(act[p].at) = "grow"
    BY <1>3, StepIsAt DEF Locked, Growing, PhaseAt
  <2>2. CASE slotCount' = act[p].prev + 1 /\ Become(p, Idle)
    <3>1. slotCount' = slotCount + 1
      BY <1>3, <2>2 DEF GrowRecord, Agrees, Growing
    <3>2. Phase = "grow" /\ Phase' = "none"
      BY <2>1, <2>2, HolderMoves
    <3>3. QED
      BY <3>1, <3>2 DEF Topology!Grow
  <2>3. CASE UNCHANGED slotCount /\ Goes(p, "growRestore")
    <3>1. PhaseAt("growRestore") = "grow"
      BY DEF PhaseAt, Growing
    <3>2. QED
      BY <2>1, <2>3, <3>1, HolderMoves
  <2>4. QED
    BY <1>3, <2>2, <2>3 DEF GrowRecord
<1>4. CASE GrowCommit(p)
  <2>1. act[p].at \in Locked /\ PhaseAt(act[p].at) = "grow"
    BY <1>4, StepIsAt DEF Locked, Growing, PhaseAt
  <2>2. CASE slotCount' = act[p].prev + 1 /\ Goes(p, "growWait")
    <3>1. slotCount' = slotCount + 1
      BY <1>4, <2>2 DEF GrowCommit, Agrees, Growing
    <3>2. PhaseAt("growWait") = "grown"
      BY DEF PhaseAt, Growing
    <3>3. Phase = "grow" /\ Phase' = "grown"
      BY <2>1, <2>2, <3>2, HolderMoves
    <3>4. QED
      BY <3>1, <3>3 DEF Topology!Grow
  <2>3. CASE UNCHANGED slotCount /\ Become(p, Idle)
    BY <2>1, <2>3, HolderMoves DEF Topology!Leave
  <2>4. QED
    BY <1>4, <2>2, <2>3 DEF GrowCommit
<1>5. CASE GrowEnds(p)
  <2>1. act[p].at \in Locked /\ PhaseAt(act[p].at) = "grown"
    BY <1>5, StepIsAt DEF Locked, Growing, PhaseAt
  <2>2. QED
    BY <1>5, <2>1, HolderMoves DEF GrowEnds, Topology!Leave
<1>6. QED
  BY <1>1, <1>2, <1>3, <1>4, <1>5 DEF GrowStep

LEMMA ShrinkIsTopology ==
  ASSUME IInv, IInv', NEW p \in Procs, ShrinkStep(p)
  PROVE  [Topology!Next]_(Topology!vars)
<1> USE Known DEF Topology!Next, Topology!vars
<1>1. CASE ShrinkStart(p)
  <2>1. PICK online : Become(p, Read("shrinkCommit", file, online))
    BY <1>1 DEF ShrinkStart
  <2> DEFINE rec == Read("shrinkCommit", file, online)
  <2>2. Become(p, rec) /\ PhaseAt(rec.at) = "shrink"
    BY <2>1 DEF Read, PhaseAt, Growing
  <2> HIDE DEF rec
  <2>3. Phase = "none" /\ Phase' = "shrink"
    BY <1>1, <2>2, PhaseFollows, NoHolderNoPhase DEF ShrinkStart
  <2>4. QED
    BY <1>1, <2>3 DEF ShrinkStart, Topology!StartShrink
<1>2. CASE ShrinkCommit(p)
  <2>1. act[p].at \in Locked /\ PhaseAt(act[p].at) = "shrink"
    BY <1>2, StepIsAt DEF Locked, Growing, PhaseAt
  <2>2. CASE slotCount' = act[p].prev - 1 /\ Goes(p, "shrinkWrite")
    <3>1. slotCount' = slotCount - 1
      BY <1>2, <2>2 DEF ShrinkCommit, Agrees
    <3>2. PhaseAt("shrinkWrite") = "shrunk"
      BY DEF PhaseAt, Growing, Shrunk
    <3>3. Phase = "shrink" /\ Phase' = "shrunk"
      BY <2>1, <2>2, <3>2, HolderMoves
    <3>4. QED
      BY <3>1, <3>3 DEF Topology!Shrink
  <2>3. CASE UNCHANGED slotCount /\ Become(p, Idle)
    BY <2>1, <2>3, HolderMoves DEF Topology!Leave
  <2>4. QED
    BY <1>2, <2>2, <2>3 DEF ShrinkCommit
<1>3. CASE ShrinkWrite(p) \/ ShrinkCheck(p) \/ ShrinkReload(p) \/ RestoreFile(p)
  <2>1. act[p].at \in Locked /\ PhaseAt(act[p].at) = "shrunk"
    BY <1>3, StepIsAt DEF Locked, Growing, Shrunk, PhaseAt
  <2>2. slotCount' = slotCount
    BY <1>3 DEF ShrinkWrite, ShrinkCheck, ShrinkReload, RestoreFile
  <2>3. Become(p, Idle) \/ \E at \in Shrunk : Goes(p, at)
    BY <1>3 DEF ShrinkWrite, ShrinkCheck, ShrinkReload, RestoreFile, Shrunk
  <2>4. \A at \in Shrunk : PhaseAt(at) = "shrunk"
    BY DEF PhaseAt, Growing, Shrunk
  <2>5. Phase = "shrunk" /\ Phase' \in {"shrunk", "none"}
    BY <2>1, <2>3, <2>4, HolderMoves
  <2>6. QED
    BY <2>2, <2>5 DEF Topology!Leave
<1>4. CASE RestoreCount(p)
  <2>1. act[p].at \in Locked /\ PhaseAt(act[p].at) = "shrunk"
    BY <1>4, StepIsAt DEF Locked, Growing, Shrunk, PhaseAt
  <2>2. slotCount' \in {slotCount, slotCount + 1}
    BY <1>4 DEF RestoreCount, Agrees, Shrunk
  <2>3. Phase = "shrunk" /\ Phase' = "none"
    BY <1>4, <2>1, HolderMoves DEF RestoreCount
  <2>4. QED
    BY <2>2, <2>3 DEF Topology!EndShrink
<1>5. QED
  BY <1>1, <1>2, <1>3, <1>4 DEF ShrinkStep

\* The count changes by one, between one and the maximum, by one resize at a
\* time, as SlotTopology says.
THEOREM ResizeImplementsTopology == Spec => ImplementsTopology
<1>1. ASSUME Init
      PROVE  Topology!Init
  <2>1. LockFree
    BY <1>1, IdleIsDoing DEF Init, LockFree
  <2>2. QED
    BY <1>1, <2>1, NoHolderNoPhase DEF Init, Topology!Init
<1>2. ASSUME IInv, IInv', [Next]_vars
      PROVE  [Topology!Next]_(Topology!vars)
  <2>1. CASE \E p \in Procs : GrowStep(p) \/ ShrinkStep(p)
    BY <1>2, <2>1, GrowIsTopology, ShrinkIsTopology
  <2>2. ASSUME NEW p \in Procs, SyncStep(p) \/ RestoreStep(p)
        PROVE  [Topology!Next]_(Topology!vars)
    <3>1. PICK rec : Become(p, rec) /\ rec.at \notin Locked
      BY <1>2, <2>2, OutsiderStaysOutside
    <3>2. act[p].at \notin Locked /\ UNCHANGED slotCount
      BY <1>2, <2>2, OutsiderStaysOutside
    <3>3. Phase' = Phase
      BY <1>2, <3>1, <3>2, PhaseFollows
    <3>4. QED
      BY <3>2, <3>3 DEF Topology!vars
  <2>3. CASE ServerStep /\ act' = act
    <3>1. Phase' = Phase
      BY <2>3 DEF Phase
    <3>2. UNCHANGED slotCount
      BY <2>3 DEF ServerStep, StartupWrite, StartupLaunch, RuntimeStops, TipsChange,
         Crash
    <3>3. QED
      BY <3>1, <3>2 DEF Topology!vars
  <2>4. CASE Crash
    <3>1. LockFree'
      BY <2>4, IdleIsDoing DEF Crash, LockFree
    <3>2. Phase' = "none" /\ UNCHANGED slotCount
      BY <2>4, <3>1, NoHolderNoPhaseNext DEF Crash
    <3>3. QED
      BY <3>2 DEF Topology!vars, Topology!Next, Topology!Leave
  <2>5. CASE UNCHANGED vars
    BY <2>5 DEF vars, Phase, Topology!vars
  <2>6. StartupWrite \/ StartupLaunch \/ RuntimeStops \/ TipsChange
          => ServerStep /\ act' = act
    BY DEF ServerStep, StartupWrite, StartupLaunch, RuntimeStops, TipsChange
  <2>7. QED
    BY <1>2, <2>1, <2>2, <2>3, <2>4, <2>5, <2>6 DEF Next
<1>3. QED
  BY <1>1, <1>2, AlwaysIInv, PTL DEF Spec, ImplementsTopology, Topology!Spec
=============================================================================
