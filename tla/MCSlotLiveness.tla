--------------------------- MODULE MCSlotLiveness ---------------------------
(* Progress: one process besides the worker, two slots that may come and go.  *)
EXTENDS SlotDispatch
=============================================================================
