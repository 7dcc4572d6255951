----------------------------- MODULE MCWorkspace -----------------------------
(***************************************************************************)
(* Workspace on a small instance: a sample workspace of seven deliveries   *)
(* (two normal, one duplicate, one of each defect, one late) in a warehouse *)
(* of MaxEvents deliveries and MaxRuns runs, which batches of up to        *)
(* MaxBatch deliveries fill.  Nothing is left out of the state, and the    *)
(* only bounds are those of the code, scaled down.                         *)
(***************************************************************************)
EXTENDS WorkspaceLedger
=============================================================================
