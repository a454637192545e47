-------------------------------- MODULE Fee --------------------------------
(***************************************************************************)
(* Fee rates and the two-epoch delay of program/src/state.rs: `Fee`,       *)
(* `FeeType` and `FutureEpoch`.  Everything here is an operator on values; *)
(* the fields that hold these values are state of FeeSchedule.             *)
(***************************************************************************)
EXTENDS U64

CONSTANT BaselineDenominator   \* WITHDRAWAL_BASELINE_FEE is 1/BaselineDenominator

ASSUME BaselineAssumption == BaselineDenominator \in 1..MaxU64

\* (2^w)^2 - 1 when MaxU64 is 2^w - 1: the width of the products.
MaxU128 == (MaxU64 + 1) * (MaxU64 + 1) - 1

Fee == [numerator : U64, denominator : U64]

WITHDRAWAL_BASELINE_FEE == [numerator |-> 1, denominator |-> BaselineDenominator]

MAX_WITHDRAWAL_FEE_INCREASE == [numerator |-> 3, denominator |-> 2]

\* Fee::apply: the amount taken from amt, rounded up.  With 64-bit operands
\* the sum fits in 128 bits, so the checked operations never fail.
apply(fee, amt) ==
    IF fee.denominator = 0
    THEN 0
    ELSE (amt * fee.numerator + fee.denominator - 1) \div fee.denominator

\* FeeType::check_too_high for the fees that are rates.
check_too_high(fee) == fee.numerator > fee.denominator

(***************************************************************************)
(* Rust orders Option with None below every Some(n), as -1 is below every  *)
(* natural number, so `<` compares the two sides of check_withdrawal.      *)
(***************************************************************************)
None == -1

checked_mul(a, b) == IF a * b > MaxU128 THEN None ELSE a * b

\* The fee the increase is measured from.
BaseFee(old) ==
    IF old.denominator = 0 \/ old.numerator = 0 THEN WITHDRAWAL_BASELINE_FEE ELSE old

\* Mutant: the denominator of the allowed increase is forgotten.
Mutant_check_withdrawal(new, old) ==
    LET base == BaseFee(old)
    IN  ~(base.numerator * new.denominator * MAX_WITHDRAWAL_FEE_INCREASE.numerator
             < new.numerator * base.denominator)

\* Fee::check_withdrawal returns Ok.  The first product of each side is of two
\* u64 and cannot overflow; the second one may, and yields None.
check_withdrawal(new, old) ==
    LET base     == BaseFee(old)
        allowed  == checked_mul(base.numerator * new.denominator,
                                MAX_WITHDRAWAL_FEE_INCREASE.numerator)
        proposed == checked_mul(new.numerator * base.denominator,
                                MAX_WITHDRAWAL_FEE_INCREASE.denominator)
    IN  ~(allowed < proposed)

(***************************************************************************)
(* FutureEpoch: a value, and how many updates of the pool it still waits   *)
(* for.  When nothing is set, value is kept at a fee that means nothing.   *)
(***************************************************************************)
ZeroFee == [numerator |-> 0, denominator |-> 0]

FutureEpoch == [waits : 0..2, value : Fee]

NoFutureEpoch == [waits |-> 0, value |-> ZeroFee]

FutureEpochNew(value) == [waits |-> 2, value |-> value]

update_epoch(future) ==
    IF future.waits = 2 THEN [future EXCEPT !.waits = 1] ELSE NoFutureEpoch

\* FutureEpoch::get, with the current value when nothing is ready.
GetOrKeep(future, current) == IF future.waits = 1 THEN future.value ELSE current
=============================================================================
