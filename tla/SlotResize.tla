----------------------------- MODULE SlotResize -----------------------------
(***************************************************************************)
(* The three places that know how many slots a project has: the column      *)
(* project.slotCount, the managed file .ccb/ccb.config, and the ccbd that   *)
(* runs.  SlotResizeService changes them one after the other, under the     *)
(* project's lock, and undoes by hand what was done when a later step       *)
(* fails.  The sync of the slot tips and the start of the ccbd write the    *)
(* same file; they hold the lock while they write, not while they read.     *)
(*                                                                         *)
(* Of the file the model keeps its windows, one per slot, and its tips.     *)
(* Any write may fail and any step may be the last before a crash.          *)
(***************************************************************************)
EXTENDS Naturals

CONSTANTS
  MaxSlots,  \* MAX_PROJECT_SLOT_COUNT
  Procs,     \* concurrent resizes, syncs and restores
  Tips,      \* what the bindings may ask the sidebar to show
  NoTips     \* no tips section; nothing remembered

ASSUME ResizeAssumption == MaxSlots \in Nat \ {0} /\ NoTips \notin Tips

Files == [windows : 0..MaxSlots, tips : Tips \union {NoTips}]
NoFile == [windows |-> 0, tips |-> NoTips]
Exists(f) == f.windows # 0

VARIABLES
  slotCount,  \* project.slotCount
  file,       \* .ccb/ccb.config
  runtime,    \* the slots the ccbd runs, 0 when it does not run
  projected,  \* what the bindings ask the sidebar to show now
  written,    \* lastWrittenTipHashes
  server,     \* whether the server is up, down, or starts this project
  act         \* what each process is doing and what it has read

vars == <<slotCount, file, runtime, projected, written, server, act>>

Growing == {"growWrite", "growProbe", "growReload", "growRecord", "growCommit",
            "growRestore"}
Shrunk == {"shrinkWrite", "shrinkCheck", "shrinkReload", "restoreFile",
           "restoreCount"}
Locked == Growing \union {"growWait", "shrinkCommit"} \union Shrunk
Syncing == {"syncTips", "syncWrite"}
Restoring == {"launchTips", "launchWrite", "launchRun"}

Idle == [at |-> "idle", prev |-> 0, old |-> NoFile, tips |-> NoTips,
         online |-> FALSE]

Doings == [at : {"idle"} \union Locked \union Syncing \union Restoring,
           prev : 0..MaxSlots, old : Files, tips : Tips \union {NoTips},
           online : BOOLEAN]

TypeOK ==
  /\ slotCount \in 1..MaxSlots
  /\ file \in Files
  /\ runtime \in 0..MaxSlots
  /\ projected \in Tips
  /\ written \in Tips \union {NoTips}
  /\ server \in {"down", "launch", "up"}
  /\ act \in [Procs -> Doings]

Init ==
  /\ slotCount \in 1..MaxSlots
  /\ file = NoFile
  /\ runtime = 0
  /\ projected \in Tips
  /\ written = NoTips
  /\ server = "up"
  /\ act = [p \in Procs |-> Idle]

-----------------------------------------------------------------------------
\* The lock of ConfigLock: who is in a step under it holds it.

\* Mutant of LockFree: who waits for a new slot has let go of the lock.
LockFreeEarly == \A p \in Procs : act[p].at \notin Growing \union Shrunk

LockFree == \A p \in Procs : act[p].at \notin Locked

Become(p, rec) == act' = [act EXCEPT ![p] = rec]
Goes(p, at) == Become(p, [act[p] EXCEPT !.at = at])
Starts(p) == act[p] = Idle /\ server = "up"

\* A process that has read the count just now.
Read(at, old, online) ==
  [at |-> at, prev |-> slotCount, old |-> old, tips |-> NoTips, online |-> online]

\* renderProjectConfig gives the writer no tips.
Rendered(n) == [windows |-> n, tips |-> NoTips]

\* ccb reload: published, the ccbd runs what the file says.  Rejected, failed
\* or timed out, it may have come that far or not.
Published == runtime # 0 /\ runtime' = file.windows
Unpublished == UNCHANGED runtime \/ Published

-----------------------------------------------------------------------------
(* SlotResizeService.grow: file, runtime, count.                             *)

\* Mutant of GrowStart: the maximum is not checked.
GrowPastMaximum(p) ==
  /\ Starts(p)
  /\ LockFree
  /\ Become(p, Read("growWrite", file, FALSE))
  /\ UNCHANGED <<slotCount, file, runtime, projected, written, server>>

GrowStart(p) ==
  /\ Starts(p)
  /\ LockFree
  /\ slotCount < MaxSlots
  /\ Become(p, Read("growWrite", file, FALSE))
  /\ UNCHANGED <<slotCount, file, runtime, projected, written, server>>

\* What fails to be written leaves the file as it was.
GrowWrite(p) ==
  /\ act[p].at = "growWrite"
  /\ \/ file' = Rendered(act[p].prev + 1) /\ Goes(p, "growProbe")
     \/ UNCHANGED file /\ Become(p, Idle)
  /\ UNCHANGED <<slotCount, runtime, projected, written, server>>

\* A ccbd that runs may still not answer the ping.
GrowProbe(p) ==
  /\ act[p].at = "growProbe"
  /\ \/ runtime # 0 /\ Goes(p, "growReload")
     \/ Goes(p, "growRecord")
  /\ UNCHANGED <<slotCount, file, runtime, projected, written, server>>

\* Offline: the count is all that is left to do.
GrowRecord(p) ==
  /\ act[p].at = "growRecord"
  /\ \/ slotCount' = act[p].prev + 1 /\ Become(p, Idle)
     \/ UNCHANGED slotCount /\ Goes(p, "growRestore")
  /\ UNCHANGED <<file, runtime, projected, written, server>>

GrowReload(p) ==
  /\ act[p].at = "growReload"
  /\ \/ Published /\ Goes(p, "growCommit")
     \/ Unpublished /\ Goes(p, "growRestore")
  /\ UNCHANGED <<slotCount, file, projected, written, server>>

\* An update that throws here is caught by nobody.
GrowCommit(p) ==
  /\ act[p].at = "growCommit"
  /\ \/ slotCount' = act[p].prev + 1 /\ Goes(p, "growWait")
     \/ UNCHANGED slotCount /\ Become(p, Idle)
  /\ UNCHANGED <<file, runtime, projected, written, server>>

\* The slot becomes active, or the wait for it times out.
GrowEnds(p) ==
  /\ act[p].at = "growWait"
  /\ Become(p, Idle)
  /\ UNCHANGED <<slotCount, file, runtime, projected, written, server>>

\* The old text is written back, or that fails as well.
GrowRestore(p) ==
  /\ act[p].at = "growRestore"
  /\ file' \in {act[p].old, file}
  /\ Become(p, Idle)
  /\ UNCHANGED <<slotCount, runtime, projected, written, server>>

-----------------------------------------------------------------------------
(* SlotResizeService.shrink: count, file, runtime.  Whether the tail slot is *)
(* clear is SlotDispatch's matter.                                           *)
ShrinkStart(p) ==
  /\ Starts(p)
  /\ LockFree
  /\ slotCount > 1
  /\ \E online \in {FALSE, runtime # 0} :
       Become(p, Read("shrinkCommit", file, online))
  /\ UNCHANGED <<slotCount, file, runtime, projected, written, server>>

ShrinkCommit(p) ==
  /\ act[p].at = "shrinkCommit"
  /\ \/ slotCount' = act[p].prev - 1 /\ Goes(p, "shrinkWrite")
     \/ UNCHANGED slotCount /\ Become(p, Idle)
  /\ UNCHANGED <<file, runtime, projected, written, server>>

ShrinkWrite(p) ==
  /\ act[p].at = "shrinkWrite"
  /\ \/ /\ file' = Rendered(act[p].prev - 1)
        /\ IF act[p].online THEN Goes(p, "shrinkCheck") ELSE Become(p, Idle)
     \/ UNCHANGED file /\ Goes(p, "restoreFile")
  /\ UNCHANGED <<slotCount, runtime, projected, written, server>>

\* A job has come to the slot, or none has; or the question throws.
ShrinkCheck(p) ==
  /\ act[p].at = "shrinkCheck"
  /\ \/ runtime # 0 /\ (Goes(p, "restoreFile") \/ Goes(p, "shrinkReload"))
     \/ Become(p, Idle)
  /\ UNCHANGED <<slotCount, file, runtime, projected, written, server>>

ShrinkReload(p) ==
  /\ act[p].at = "shrinkReload"
  /\ \/ Published /\ Become(p, Idle)
     \/ Unpublished /\ Goes(p, "restoreFile")
  /\ UNCHANGED <<slotCount, file, projected, written, server>>

\* Mutant of RestoreFile: the count goes back first.
RestoreCountFirst(p) ==
  /\ act[p].at = "restoreFile"
  /\ \/ slotCount' = act[p].prev /\ Goes(p, "restoreCount")
     \/ UNCHANGED slotCount /\ Become(p, Idle)
  /\ UNCHANGED <<file, runtime, projected, written, server>>

\* restoreProject: what throws ends it.
RestoreFile(p) ==
  /\ act[p].at = "restoreFile"
  /\ \/ file' = act[p].old /\ Goes(p, "restoreCount")
     \/ UNCHANGED file /\ Become(p, Idle)
  /\ UNCHANGED <<slotCount, runtime, projected, written, server>>

RestoreCount(p) ==
  /\ act[p].at = "restoreCount"
  /\ slotCount' \in {act[p].prev, slotCount}
  /\ Become(p, Idle)
  /\ UNCHANGED <<file, runtime, projected, written, server>>

-----------------------------------------------------------------------------
(* syncSlotTips: a lock of its own keeps syncs apart; the count and the tips *)
(* are read before the managed file's lock is asked for.                     *)
SyncStart(p) ==
  /\ Starts(p)
  /\ \A q \in Procs : act[q].at \notin Syncing
  /\ Become(p, Read("syncTips", NoFile, FALSE))
  /\ UNCHANGED <<slotCount, file, runtime, projected, written, server>>

\* Tips that were written last are not written again.
SyncTips(p) ==
  /\ act[p].at = "syncTips"
  /\ Become(p, IF written = projected THEN Idle
               ELSE [act[p] EXCEPT !.at = "syncWrite", !.tips = projected])
  /\ UNCHANGED <<slotCount, file, runtime, projected, written, server>>

\* Mutant of SyncWrite: the lock is not asked for.
SyncWriteUnlocked(p) ==
  /\ act[p].at = "syncWrite"
  /\ \/ /\ file' = [windows |-> act[p].prev, tips |-> act[p].tips]
        /\ written' = act[p].tips
     \/ UNCHANGED <<file, written>>
  /\ Become(p, Idle)
  /\ UNCHANGED <<slotCount, runtime, projected, server>>

SyncWrite(p) ==
  /\ act[p].at = "syncWrite"
  /\ LockFree
  /\ \/ /\ file' = [windows |-> act[p].prev, tips |-> act[p].tips]
        /\ written' = act[p].tips
     \/ UNCHANGED <<file, written>>
  /\ Become(p, Idle)
  /\ UNCHANGED <<slotCount, runtime, projected, server>>

-----------------------------------------------------------------------------
(* The ccbd of the project (external): started, it runs what the file says.  *)
(* One that runs already may go on as it is.                                 *)
Launched == runtime' \in {file.windows, runtime} \ {0}

RuntimeStops ==
  /\ runtime # 0
  /\ runtime' = 0
  /\ UNCHANGED <<slotCount, file, projected, written, server, act>>

\* ProjectCcbdManager.confirmRestore, which a user asks for: it writes the
\* file whatever is in it.
RestoreStart(p) ==
  /\ Starts(p)
  /\ Become(p, Read("launchTips", NoFile, FALSE))
  /\ UNCHANGED <<slotCount, file, runtime, projected, written, server>>

RestoreTips(p) ==
  /\ act[p].at = "launchTips"
  /\ Become(p, [act[p] EXCEPT !.at = "launchWrite", !.tips = projected])
  /\ UNCHANGED <<slotCount, file, runtime, projected, written, server>>

RestoreWrite(p) ==
  /\ act[p].at = "launchWrite"
  /\ LockFree
  /\ \/ /\ file' = [windows |-> act[p].prev, tips |-> act[p].tips]
        /\ Goes(p, "launchRun")
     \/ UNCHANGED file /\ Become(p, Idle)
  /\ UNCHANGED <<slotCount, runtime, projected, written, server>>

RestoreLaunch(p) ==
  /\ act[p].at = "launchRun"
  /\ Launched \/ UNCHANGED runtime
  /\ Become(p, Idle)
  /\ UNCHANGED <<slotCount, file, projected, written, server>>

\* A file that lacks windows of the project is drift; windows beyond them are
\* not looked at.
Drifts(f, n) == Exists(f) /\ f.windows < n

\* recoverOnStartup, before the server takes requests: blocked by drift, or
\* the file is written and the ccbd started.
StartupWrite ==
  /\ server = "down"
  /\ \/ Drifts(file, slotCount) /\ server' = "up" /\ UNCHANGED file
     \/ /\ ~Drifts(file, slotCount)
        /\ \/ /\ file' = [windows |-> slotCount, tips |-> projected]
              /\ server' = "launch"
           \/ UNCHANGED file /\ server' = "up"
  /\ UNCHANGED <<slotCount, runtime, projected, written, act>>

StartupLaunch ==
  /\ server = "launch"
  /\ Launched \/ UNCHANGED runtime
  /\ server' = "up"
  /\ UNCHANGED <<slotCount, file, projected, written, act>>

Crash ==
  /\ server' = "down"
  /\ written' = NoTips
  /\ act' = [p \in Procs |-> Idle]
  /\ UNCHANGED <<slotCount, file, runtime, projected>>

\* Requirements are bound and released, and their tips change.
TipsChange ==
  /\ projected' \in Tips
  /\ UNCHANGED <<slotCount, file, runtime, written, server, act>>

-----------------------------------------------------------------------------
GrowStep(p) ==
  \/ GrowStart(p) \/ GrowWrite(p) \/ GrowProbe(p) \/ GrowRecord(p)
  \/ GrowReload(p) \/ GrowCommit(p) \/ GrowEnds(p) \/ GrowRestore(p)

ShrinkStep(p) ==
  \/ ShrinkStart(p) \/ ShrinkCommit(p) \/ ShrinkWrite(p) \/ ShrinkCheck(p)
  \/ ShrinkReload(p) \/ RestoreFile(p) \/ RestoreCount(p)

SyncStep(p) == SyncStart(p) \/ SyncTips(p) \/ SyncWrite(p)

RestoreStep(p) ==
  \/ RestoreStart(p) \/ RestoreTips(p) \/ RestoreWrite(p) \/ RestoreLaunch(p)

Next ==
  \/ \E p \in Procs : GrowStep(p) \/ ShrinkStep(p) \/ SyncStep(p) \/ RestoreStep(p)
  \/ StartupWrite \/ StartupLaunch
  \/ RuntimeStops \/ TipsChange \/ Crash

Spec == Init /\ [][Next]_vars

-----------------------------------------------------------------------------
\* Whatever has failed, the writes that a resize still has to undo are all
\* there is to undo: with them file and count are what they were before.
RestoreSuffices ==
  \A p \in Procs :
    /\ act[p].at = "growRestore" => slotCount = act[p].prev
    /\ act[p].at \in {"restoreFile", "restoreCount"} =>
         slotCount = act[p].prev - 1
    /\ act[p].at = "restoreCount" => file = act[p].old

Succeeds(p) ==
  \/ act[p].at \in {"growRecord", "growCommit"} /\ slotCount' # slotCount
  \/ act[p].at = "shrinkWrite" /\ file' # file /\ act'[p] = Idle
  \/ act[p].at = "shrinkReload" /\ act'[p] = Idle /\ server' = "up"

\* A resize that answers success leaves file and count at the same number,
\* and so the ccbd it has reloaded, unless that has stopped since.
SuccessAgrees ==
  [][\A p \in Procs : Succeeds(p) =>
       /\ file'.windows = slotCount'
       /\ act[p].at \in {"growCommit", "shrinkReload"} =>
            runtime' \in {0, slotCount'}]_vars

\* The file has a window for every slot, and so has the text that a resize
\* would put back: the next startup is not blocked.
Covered ==
  /\ ~Drifts(file, slotCount)
  /\ \A p \in Procs : act[p].at \in Locked => ~Drifts(act[p].old, act[p].prev)

WritesStale(p) ==
  /\ act[p].at \in {"syncWrite", "launchWrite"}
  /\ act[p].prev < slotCount
  /\ act'[p] # act[p]

\* The order of the writes is such that a crash or a failure between any two
\* of them leaves the file covering the count: the one thing that does not is
\* a write that brings a count read before a grow.
CoverKept == [][Covered => Covered' \/ \E p \in Procs : WritesStale(p)]_vars

Phase ==
  LET Under(steps) == \E p \in Procs : act[p].at \in steps
  IN  CASE Under(Growing) -> "grow"
        [] Under({"growWait"}) -> "grown"
        [] Under({"shrinkCommit"}) -> "shrink"
        [] Under(Shrunk) -> "shrunk"
        [] OTHER -> "none"

\* To whoever sees the count only, a resize is what SlotTopology says.
Topology == INSTANCE SlotTopology WITH phase <- Phase

ImplementsTopology == Topology!Spec
=============================================================================
