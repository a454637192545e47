------------------------------ MODULE MCBigVec ------------------------------
(***************************************************************************)
(* BigVec for TLC: accounts with room for three to five records, some with *)
(* bytes left over.  The validators are interchangeable.                   *)
(***************************************************************************)
EXTENDS BigVec, TLC

Symmetry == Permutations(Votes)
=============================================================================
