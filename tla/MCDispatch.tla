----------------------------- MODULE MCDispatch -----------------------------
(* Dispatch for TLC: its constants are sets of model values.                 *)
EXTENDS Dispatch
=============================================================================
