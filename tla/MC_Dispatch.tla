----------------------------- MODULE MC_Dispatch -----------------------------
(* Model checking Dispatch. *)
EXTENDS Dispatch, TLC

=============================================================================
