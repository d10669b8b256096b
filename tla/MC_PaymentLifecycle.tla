-------------------------- MODULE MC_PaymentLifecycle --------------------------
(* PaymentLifecycle for TLC: payment ids are interchangeable. *)
EXTENDS PaymentLifecycle, TLC

PaymentSymmetry == Permutations(Payments)
================================================================================
