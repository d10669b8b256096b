----------------------------- MODULE MC_SenderHand -----------------------------
(***************************************************************************)
(* SenderHand for TLC: the values of Hiro's answers and of replays are given  *)
(* in the configurations as they are.                                       *)
(***************************************************************************)
EXTENDS SenderHand, TLC
================================================================================
