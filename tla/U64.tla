-------------------------------- MODULE U64 --------------------------------
(***************************************************************************)
(* The width of the program's integers.  The largest u64 is a constant, so *)
(* that TLC can use a small one and the proofs any.                        *)
(***************************************************************************)
EXTENDS Integers

CONSTANT MaxU64

ASSUME MaxU64Assumption == MaxU64 \in Nat \ {0}

U64 == 0..MaxU64

\* u64::saturating_sub
saturating_sub(a, b) == IF a < b THEN 0 ELSE a - b
=============================================================================
