----------------------------- MODULE MCExecutor -----------------------------
(* Executor for TLC: its constants are sets of model values.                 *)
EXTENDS Executor
=============================================================================
