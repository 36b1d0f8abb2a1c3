---------------------------- MODULE MCStoreInit ----------------------------
(* StoreInit on small instances. *)
EXTENDS StoreInit, TLC

\* Between the table of the rebuild and its rename the process must not stop.
Rebuilding == {"copy", "drop", "rename"}
OutsideRebuild == OpenSteps \ (Rebuilding \union {"stopped", "ready"})
=============================================================================
