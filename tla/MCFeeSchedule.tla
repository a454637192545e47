--------------------------- MODULE MCFeeSchedule ---------------------------
(***************************************************************************)
(* Instances of FeeSchedule.                                               *)
(***************************************************************************)
EXTENDS FeeSchedule

rate(n, d) == [numerator |-> n, denominator |-> d]

\* No product of check_withdrawal overflows with these and MaxU64 = 255.
SmallFees == {rate(0, 0), rate(1, 10), rate(3, 20), rate(9, 40), rate(1, 1),
              rate(2, 1)}

\* 4-bit integers: with 1/15 in force, 15/15 overflows the 8-bit product.
WideFees == {rate(1, 15), rate(15, 15)}
=============================================================================
