---------------------------- MODULE MCSlotResize ----------------------------
(* Three processes on a project of at most three slots, whose bindings ask   *)
(* for one of two tips; and what the contract says of syncs and restores.     *)
EXTENDS SlotResize, TLC

Symmetry == Permutations(Procs) \union Permutations(Tips)

-----------------------------------------------------------------------------
\* slot-topology-resize-contract.md:47-49, syncs and restores "either run
\* inside the lock or wait briefly before touching slot-dependent state": the
\* file that they leave has a window for every slot.
RestFileCovers ==
  server = "up" /\ (\A p \in Procs : act[p] = Idle) => ~Drifts(file, slotCount)
=============================================================================
