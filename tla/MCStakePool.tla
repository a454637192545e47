---------------------------- MODULE MCStakePool ----------------------------
(***************************************************************************)
(* Instances of StakePool for TLC.  Rent is one lamport, and so is the     *)
(* minimum delegation: two lamports make a stake account.                  *)
(***************************************************************************)
EXTENDS StakePool

rate(n, d) == [numerator |-> n, denominator |-> d]

NoFees == {rate(0, 1)}
SomeFees == {rate(0, 1), rate(1, 2)}

\* A fully active stake, one with a lamport too many, and one that was
\* delegated in this epoch; and one that is not delegated.
DepositedStakes ==
    {Stake(3, 2, "past", "never"), Stake(4, 2, "past", "never"), Stake(2, 1, "now", "never"),
     Initialized(2)}
=============================================================================
