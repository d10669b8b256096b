----------------------------- MODULE MC_ApiKeys -----------------------------
(* Small instances of ApiKeys. *)
EXTENDS ApiKeys, TLC

CONSTANTS r1, r2
TwoRequests == {r1, r2}
AnyRequest == Permutations(TwoRequests)
=============================================================================
