-------------------------------- MODULE Sums --------------------------------
(***************************************************************************)
(* The sum of the natural numbers f[x] over a finite set, as the number of *)
(* pairs <<x, i>> with i in 1..f[x].  Written without recursion, so that   *)
(* the theorems on finite sets apply to it.                                *)
(***************************************************************************)
EXTENDS Integers, FiniteSets

\* What a sum counts.
Units(S, f) == UNION {{x} \X (1..f[x]) : x \in S}

SumOver(S, f) == Cardinality(Units(S, f))
=============================================================================
