--------------------------- MODULE MCWsolSession ---------------------------
(***************************************************************************)
(* Instances of WsolSession for TLC: two users, a session of one of them,  *)
(* a token account that costs two lamports of rent.                        *)
(***************************************************************************)
EXTENDS WsolPool

CONSTANTS u1, u2, key1

rate(n, d) == [numerator |-> n, denominator |-> d]

SomeFees == {rate(0, 1), rate(1, 2)}

OneSession == [s \in {key1} |-> u1]
=============================================================================
