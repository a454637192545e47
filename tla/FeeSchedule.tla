---------------------------- MODULE FeeSchedule ----------------------------
(***************************************************************************)
(* The fee fields of the StakePool account and the instructions that       *)
(* change them: SetFee, which announces the delayed fees and sets the      *)
(* others at once, and the part of UpdateStakePoolBalance that rolls the   *)
(* announced fees forward at the first update of an epoch.  The variables  *)
(* announced and changed are history: no guard reads them.                 *)
(***************************************************************************)
EXTENDS Fee

CONSTANTS
    FeeInputs,     \* the rates a manager may ask for
    ManagedFees,   \* the fees a manager sets; the others keep their first rate
    MaxEpoch       \* bound: no epoch after this one

DelayedFees == {"epoch", "stake_withdrawal", "sol_withdrawal"}
WithdrawalFees == {"stake_withdrawal", "sol_withdrawal"}
DirectFees == {"sol_deposit", "stake_deposit"}
FeeNames == DelayedFees \cup DirectFees

ASSUME FeeInputsAssumption == FeeInputs \subseteq Fee /\ ManagedFees \subseteq FeeNames
ASSUME MaxEpochAssumption == MaxEpoch \in Nat

\* The rates SetFee and Initialize accept.
Rates == {fee \in FeeInputs : ~check_too_high(fee)}

VARIABLES
    epoch,               \* Clock::epoch
    last_update_epoch,   \* StakePool::last_update_epoch
    fees,                \* the rates in force
    next_fees,           \* next_epoch_fee, next_stake_withdrawal_fee, next_sol_withdrawal_fee
    announced,           \* history: when the pending value of a delayed fee was set
    changed              \* history: when a delayed fee last took a new value

feeVars == <<fees, next_fees, announced, changed>>
vars == <<epoch, last_update_epoch, fees, next_fees, announced, changed>>

\* Initialize refuses rates above 100%, gives both withdrawal fees and both
\* deposit fees the same rate, and schedules nothing.
InitFees ==
    /\ \E epoch_fee, withdrawal_fee, deposit_fee \in Rates :
           fees = [k \in FeeNames |->
                      CASE k = "epoch" -> epoch_fee
                        [] k \in WithdrawalFees -> withdrawal_fee
                        [] k \in DirectFees -> deposit_fee]
    /\ next_fees = [k \in DelayedFees |-> NoFutureEpoch]
    /\ announced = [k \in DelayedFees |-> epoch]
    /\ changed = [k \in DelayedFees |-> epoch]

Init ==
    /\ epoch = 0
    /\ last_update_epoch = epoch
    /\ InitFees

\* Mutant: the increase is measured from the pending rate.
Mutant_AnnounceFee(k, fee) ==
    /\ k \in WithdrawalFees =>
           check_withdrawal(fee, IF next_fees[k].waits # 0 THEN next_fees[k].value ELSE fees[k])
    /\ next_fees' = [next_fees EXCEPT ![k] = FutureEpochNew(fee)]
    /\ announced' = [announced EXCEPT ![k] = epoch]
    /\ UNCHANGED <<fees, changed>>

\* StakePool::update_fee for a rate that is announced.
AnnounceFee(k, fee) ==
    /\ k \in WithdrawalFees => check_withdrawal(fee, fees[k])
    /\ next_fees' = [next_fees EXCEPT ![k] = FutureEpochNew(fee)]
    /\ announced' = [announced EXCEPT ![k] = epoch]
    /\ UNCHANGED <<fees, changed>>

\* StakePool::update_fee for a rate that takes effect at once.
ReplaceFee(k, fee) ==
    /\ fees' = [fees EXCEPT ![k] = fee]
    /\ UNCHANGED <<next_fees, announced, changed>>

\* Mutant: check_too_high is forgotten.
Mutant_SetFee(k, fee) ==
    /\ k \in DelayedFees => ~(last_update_epoch < epoch)
    /\ IF k \in DelayedFees THEN AnnounceFee(k, fee) ELSE ReplaceFee(k, fee)
    /\ UNCHANGED <<epoch, last_update_epoch>>

\* SetFee: can_only_change_next_epoch asks for an up-to-date pool.
SetFee(k, fee) ==
    /\ k \in DelayedFees => ~(last_update_epoch < epoch)
    /\ fee \in Rates
    /\ IF k \in DelayedFees THEN AnnounceFee(k, fee) ELSE ReplaceFee(k, fee)
    /\ UNCHANGED <<epoch, last_update_epoch>>

\* The first UpdateStakePoolBalance of an epoch: get, then update_epoch.
RollFees ==
    /\ fees' = [k \in FeeNames |->
                   IF k \in DelayedFees THEN GetOrKeep(next_fees[k], fees[k]) ELSE fees[k]]
    /\ next_fees' = [k \in DelayedFees |-> update_epoch(next_fees[k])]
    /\ changed' = [k \in DelayedFees |->
                      IF fees'[k] # fees[k] THEN epoch ELSE changed[k]]
    /\ UNCHANGED announced

\* Mutant: the fees roll at every update, not at the first one of an epoch.
Mutant_UpdateFees == RollFees

\* What UpdateStakePoolBalance does to these fields: nothing when the pool
\* was already updated in this epoch.
UpdateFees ==
    IF last_update_epoch < epoch THEN RollFees ELSE UNCHANGED feeVars

UpdateStakePoolBalance ==
    /\ UpdateFees
    /\ last_update_epoch' = epoch
    /\ UNCHANGED epoch

AdvanceEpoch ==
    /\ epoch < MaxEpoch
    /\ epoch' = epoch + 1
    /\ UNCHANGED <<last_update_epoch, feeVars>>

Next ==
    \/ \E k \in ManagedFees, fee \in FeeInputs : SetFee(k, fee)
    \/ UpdateStakePoolBalance
    \/ AdvanceEpoch

Spec == Init /\ [][Next]_vars
-----------------------------------------------------------------------------
\* Types, and no rate above 100%.
FeeTypeOK ==
    /\ epoch \in 0..MaxEpoch
    /\ last_update_epoch \in 0..epoch
    /\ fees \in [FeeNames -> Rates]
    /\ next_fees \in [DelayedFees -> FutureEpoch]
    /\ \A k \in DelayedFees : next_fees[k].waits # 0 => next_fees[k].value \in Rates
    /\ announced \in [DelayedFees -> 0..epoch]
    /\ changed \in [DelayedFees -> 0..epoch]

\* new is at most 3/2 of the fee the increase is measured from.
WithinIncrease(new, old) ==
    LET base == BaseFee(old)
    IN  new.numerator * base.denominator * 2 <= base.numerator * new.denominator * 3

\* No withdrawal fee rises by more than MAX_WITHDRAWAL_FEE_INCREASE when it
\* changes, whatever was announced in between (lib.rs: "Maximum factor by
\* which a withdrawal fee can be increased per epoch").
IncreaseCapped ==
    [][\A k \in WithdrawalFees :
          fees'[k] # fees[k] => WithinIncrease(fees'[k], fees[k])]_vars

\* A delayed fee changes only when the value was announced two epochs earlier,
\* and then not again for two epochs: users always have a whole epoch at the
\* old rate after an announcement (FutureEpoch::Two, then One).
NoticeGiven ==
    [][\A k \in DelayedFees :
          fees'[k] # fees[k] => /\ epoch >= announced[k] + 2
                                /\ epoch >= changed[k] + 2]_vars

\* The rate in force has not moved since the pending one was checked against
\* it, so that check still holds when the pending rate is applied.
PendingStillCapped ==
    \A k \in WithdrawalFees :
        next_fees[k].waits # 0 => WithinIncrease(next_fees[k].value, fees[k])

\* A pending rate was announced in an epoch the pool was updated in, has waited
\* one update for each it no longer waits for, and is younger than the rate in
\* force: what makes NoticeGiven inductive.
PendingAge ==
    \A k \in DelayedFees :
        /\ next_fees[k].waits = 2 => announced[k] <= last_update_epoch
        /\ next_fees[k].waits = 1 => announced[k] + 1 <= last_update_epoch
        /\ next_fees[k].waits # 0 => changed[k] <= announced[k]

\* The right-hand product of check_withdrawal fits in 128 bits.
NoOverflow ==
    \A new \in FeeInputs, old \in FeeInputs :
        new.numerator * BaseFee(old).denominator * 2 <= MaxU128
=============================================================================
