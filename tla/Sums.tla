-------------------------------- MODULE Sums --------------------------------
(***************************************************************************)
(* The sum of natural numbers over a finite set, as the number of units    *)
(* there are, each counted beside the element it belongs to. This is a     *)
(* fold of addition in a form that can be reasoned about (Sums_proofs).    *)
(***************************************************************************)
EXTENDS Naturals, FiniteSets

Units(f, S) == UNION {{x} \X (1..f[x]) : x \in S}
SumOf(f, S) == Cardinality(Units(f, S))
=============================================================================
