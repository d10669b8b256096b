----------------------------- MODULE MC_Settlement -----------------------------
(* Settlement for TLC: two requests with a payment-identifier for the same
   payload, and for different payloads (its put may fail, as if there were none). *)
EXTENDS Settlement, TLC

CONSTANTS r1, r2

TwoIdents == {[r \in Requests |-> 1], r1 :> 1 @@ r2 :> 2}
NoIdents == {[r \in Requests |-> 0]}
================================================================================
