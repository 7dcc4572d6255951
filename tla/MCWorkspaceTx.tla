---------------------------- MODULE MCWorkspaceTx ----------------------------
(***************************************************************************)
(* WorkspaceTx on a small instance: every request from every committed     *)
(* state, with a fault after every statement.  A sample of four deliveries *)
(* leaves room for an invalid batch of two with its corrections, and for   *)
(* two more runs.                                                          *)
(***************************************************************************)
EXTENDS WorkspaceTx
=============================================================================
