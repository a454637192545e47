------------------------- MODULE FeeSchedule_proofs -------------------------
(***************************************************************************)
(* What the fee schedule guarantees for every set of rates, every integer  *)
(* width and every number of epochs.                                       *)
(***************************************************************************)
EXTENDS FeeSchedule, TLAPS

\* A rate that SetFee or Initialize accepts is a Fee.
LEMMA RatesAreFees == Rates \subseteq Fee
  BY FeeInputsAssumption DEF Rates

\* The fee fields keep their types and no rate exceeds 100%: SetFee checks
\* what it announces, and RollFees only moves announced rates into force.
THEOREM FeeTypes == Spec => []FeeTypeOK
<1> USE DEF FeeNames, DelayedFees, DirectFees, WithdrawalFees
<1>1. Init => FeeTypeOK
  <2> SUFFICES ASSUME Init PROVE FeeTypeOK
    OBVIOUS
  <2>1. fees \in [FeeNames -> Rates]
    BY Zenon DEF Init, InitFees
  <2>2. NoFutureEpoch \in FutureEpoch
    BY MaxU64Assumption, BaselineAssumption DEF NoFutureEpoch, FutureEpoch, ZeroFee, Fee, U64
  <2>3. QED
    BY <2>1, <2>2, MaxEpochAssumption DEF Init, InitFees, FeeTypeOK, NoFutureEpoch
<1>2. FeeTypeOK /\ [Next]_vars => FeeTypeOK'
  <2> SUFFICES ASSUME FeeTypeOK, [Next]_vars PROVE FeeTypeOK'
    OBVIOUS
  <2> USE DEF FeeTypeOK
  <2>1. ASSUME NEW k \in ManagedFees, NEW fee \in FeeInputs, SetFee(k, fee)
        PROVE  FeeTypeOK'
    <3>1. k \in FeeNames /\ fee \in Rates /\ fee \in Fee
      BY <2>1, FeeInputsAssumption DEF SetFee
    <3>2. FutureEpochNew(fee) \in FutureEpoch /\ FutureEpochNew(fee).value = fee
      BY <3>1 DEF FutureEpochNew, FutureEpoch
    <3>3. CASE k \in DelayedFees
      BY <2>1, <3>1, <3>2, <3>3, MaxEpochAssumption DEF SetFee, AnnounceFee
    <3>4. CASE k \notin DelayedFees
      BY <2>1, <3>1, <3>4, MaxEpochAssumption DEF SetFee, ReplaceFee
    <3>5. QED
      BY <3>3, <3>4
  <2>2. CASE UpdateStakePoolBalance
    <3>1. CASE last_update_epoch < epoch
      <4>1. RollFees /\ last_update_epoch' = epoch /\ epoch' = epoch
        BY <2>2, <3>1 DEF UpdateStakePoolBalance, UpdateFees
      <4>2. fees' \in [FeeNames -> Rates]
        BY <4>1 DEF RollFees, GetOrKeep
      <4>3. ASSUME NEW k \in DelayedFees
            PROVE  /\ update_epoch(next_fees[k]) \in FutureEpoch
                   /\ update_epoch(next_fees[k]).waits # 0
                         => update_epoch(next_fees[k]).value \in Rates
        BY <4>3, MaxU64Assumption, BaselineAssumption DEF update_epoch, FutureEpoch, NoFutureEpoch, ZeroFee, Fee, U64
      <4>4. changed' \in [DelayedFees -> 0..epoch]
        BY <4>1 DEF RollFees
      <4>5. QED
        BY <4>1, <4>2, <4>3, <4>4 DEF RollFees
    <3>2. CASE ~(last_update_epoch < epoch)
      BY <2>2, <3>2 DEF UpdateStakePoolBalance, UpdateFees, feeVars
    <3>3. QED
      BY <3>1, <3>2
  <2>3. CASE AdvanceEpoch
    BY <2>3, MaxEpochAssumption DEF AdvanceEpoch, feeVars
  <2>4. CASE UNCHANGED vars
    BY <2>4 DEF vars
  <2>5. QED
    BY <2>1, <2>2, <2>3, <2>4 DEF Next
<1>3. QED
  BY <1>1, <1>2, PTL DEF Spec

\* When the right-hand product cannot overflow, check_withdrawal accepts a fee
\* only if it is within the increase; an overflow of the left one refuses it.
LEMMA CheckIsSound ==
  ASSUME NoOverflow, NEW new \in FeeInputs, NEW old \in FeeInputs,
         check_withdrawal(new, old)
  PROVE  WithinIncrease(new, old)
<1> DEFINE base == BaseFee(old)
           allowed == base.numerator * new.denominator
           proposed == new.numerator * base.denominator
<1>1. new \in Fee /\ base \in Fee
  BY FeeInputsAssumption, MaxU64Assumption, BaselineAssumption DEF BaseFee, Fee, U64, WITHDRAWAL_BASELINE_FEE
<1>2. allowed \in Nat /\ proposed \in Nat
  <2>1. /\ base.numerator \in Nat /\ new.denominator \in Nat
        /\ new.numerator \in Nat /\ base.denominator \in Nat
    BY <1>1, MaxU64Assumption, BaselineAssumption DEF Fee, U64
  <2>2. ASSUME NEW a \in Nat, NEW b \in Nat PROVE a * b \in Nat
    OBVIOUS
  <2>3. QED
    BY <2>1, <2>2
<1>3. proposed * 2 <= MaxU128
  BY DEF NoOverflow
<1>4. ~(checked_mul(allowed, 3) < checked_mul(proposed, 2))
  BY DEF check_withdrawal, MAX_WITHDRAWAL_FEE_INCREASE
<1>5. MaxU128 \in Int
  BY MaxU64Assumption, BaselineAssumption DEF MaxU128
<1> HIDE DEF allowed, proposed
<1>6. proposed * 2 <= allowed * 3
  BY <1>2, <1>3, <1>4, <1>5 DEF checked_mul, None
<1>7. QED
  BY <1>6 DEF WithinIncrease, allowed, proposed

\* The rate in force does not move while a rate waits, so a pending rate stays
\* within the increase it was checked for when SetFee accepted it.
THEOREM PendingCapped == ASSUME NoOverflow PROVE Spec => []PendingStillCapped
<1> USE DEF FeeNames, DelayedFees, DirectFees, WithdrawalFees
<1>1. Init => PendingStillCapped
  BY DEF Init, InitFees, PendingStillCapped, NoFutureEpoch
<1>2. FeeTypeOK /\ PendingStillCapped /\ [Next]_vars => PendingStillCapped'
  <2> SUFFICES ASSUME FeeTypeOK, PendingStillCapped, [Next]_vars,
                      NEW w \in WithdrawalFees, next_fees'[w].waits # 0
               PROVE  WithinIncrease(next_fees'[w].value, fees'[w])
    BY DEF PendingStillCapped
  <2>0. fees[w] \in FeeInputs
    BY DEF FeeTypeOK, Rates
  <2>1. ASSUME NEW k \in ManagedFees, NEW fee \in FeeInputs, SetFee(k, fee)
        PROVE  WithinIncrease(next_fees'[w].value, fees'[w])
    <3>1. CASE k = w
      <4>1. /\ check_withdrawal(fee, fees[w]) /\ fees' = fees
            /\ next_fees'[w] = FutureEpochNew(fee)
        BY <2>1, <3>1 DEF SetFee, AnnounceFee, FeeTypeOK
      <4>2. QED
        BY <4>1, <2>0, CheckIsSound DEF FutureEpochNew
    <3>2. CASE k # w
      BY <2>1, <3>2, FeeInputsAssumption
         DEF SetFee, AnnounceFee, ReplaceFee, FeeTypeOK, PendingStillCapped
    <3>3. QED
      BY <3>1, <3>2
  <2>2. CASE UpdateStakePoolBalance
    <3>1. CASE last_update_epoch < epoch
      <4>1. /\ next_fees'[w] = update_epoch(next_fees[w])
            /\ fees'[w] = GetOrKeep(next_fees[w], fees[w])
        BY <2>2, <3>1 DEF UpdateStakePoolBalance, UpdateFees, RollFees
      <4>2. /\ next_fees[w].waits = 2
            /\ next_fees'[w].value = next_fees[w].value
        BY <4>1 DEF update_epoch, FeeTypeOK, FutureEpoch, NoFutureEpoch
      <4>3. QED
        BY <4>1, <4>2 DEF GetOrKeep, PendingStillCapped
    <3>2. CASE ~(last_update_epoch < epoch)
      BY <2>2, <3>2 DEF UpdateStakePoolBalance, UpdateFees, feeVars, PendingStillCapped
    <3>3. QED
      BY <3>1, <3>2
  <2>3. CASE AdvanceEpoch
    BY <2>3 DEF AdvanceEpoch, feeVars, PendingStillCapped
  <2>4. CASE UNCHANGED vars
    BY <2>4 DEF vars, PendingStillCapped
  <2>5. QED
    BY <2>1, <2>2, <2>3, <2>4 DEF Next
<1>3. QED
  BY <1>1, <1>2, FeeTypes, PTL DEF Spec

\* No withdrawal fee rises by more than 3/2 in one change, for every set of
\* rates whose products fit: the promise of MAX_WITHDRAWAL_FEE_INCREASE.
THEOREM FeeIncreaseCapped == ASSUME NoOverflow PROVE Spec => IncreaseCapped
<1> USE DEF FeeNames, DelayedFees, DirectFees, WithdrawalFees
<1>1. FeeTypeOK /\ PendingStillCapped /\ [Next]_vars
        => [\A k \in WithdrawalFees :
               fees'[k] # fees[k] => WithinIncrease(fees'[k], fees[k])]_vars
  <2> SUFFICES ASSUME FeeTypeOK, PendingStillCapped, Next,
                      NEW w \in WithdrawalFees, fees'[w] # fees[w]
               PROVE  WithinIncrease(fees'[w], fees[w])
    BY DEF vars
  <2>1. ASSUME NEW k \in ManagedFees, NEW fee \in FeeInputs, SetFee(k, fee)
        PROVE  FALSE
    BY <2>1 DEF SetFee, AnnounceFee, ReplaceFee, FeeTypeOK
  <2>2. CASE UpdateStakePoolBalance
    <3>1. fees'[w] = GetOrKeep(next_fees[w], fees[w])
      BY <2>2 DEF UpdateStakePoolBalance, UpdateFees, RollFees, feeVars
    <3>2. QED
      BY <3>1 DEF GetOrKeep, PendingStillCapped
  <2>3. CASE AdvanceEpoch
    BY <2>3 DEF AdvanceEpoch, feeVars
  <2>4. QED
    BY <2>1, <2>2, <2>3 DEF Next
<1>2. QED
  BY <1>1, FeeTypes, PendingCapped, PTL DEF Spec, IncreaseCapped

\* A pending rate is as old as the updates it has waited for say.
LEMMA PendingAges == Spec => []PendingAge
<1> USE DEF FeeNames, DelayedFees, DirectFees, WithdrawalFees
<1>1. Init => PendingAge
  BY DEF Init, InitFees, PendingAge, NoFutureEpoch
<1>2. FeeTypeOK /\ PendingAge /\ [Next]_vars => PendingAge'
  <2> SUFFICES ASSUME FeeTypeOK, PendingAge, [Next]_vars PROVE PendingAge'
    OBVIOUS
  <2>1. ASSUME NEW k \in ManagedFees, NEW fee \in FeeInputs, SetFee(k, fee)
        PROVE  PendingAge'
    <3>1. CASE k \in DelayedFees
      BY <2>1, <3>1, MaxEpochAssumption
         DEF SetFee, AnnounceFee, FutureEpochNew, PendingAge, FeeTypeOK
    <3>2. CASE k \notin DelayedFees
      BY <2>1, <3>2 DEF SetFee, ReplaceFee, PendingAge
    <3>3. QED
      BY <3>1, <3>2
  <2>2. CASE UpdateStakePoolBalance
    <3>1. CASE last_update_epoch < epoch
      <4>1. RollFees /\ last_update_epoch' = epoch
        BY <2>2, <3>1 DEF UpdateStakePoolBalance, UpdateFees
      <4> SUFFICES ASSUME NEW k \in DelayedFees, next_fees'[k].waits # 0
                   PROVE  /\ next_fees'[k].waits = 1
                          /\ announced'[k] + 1 <= last_update_epoch'
                          /\ changed'[k] <= announced'[k]
        BY DEF PendingAge
      <4>2. next_fees[k].waits = 2 /\ next_fees'[k].waits = 1
        BY <4>1 DEF RollFees, update_epoch, NoFutureEpoch, FeeTypeOK, FutureEpoch
      <4>3. fees'[k] = fees[k]
        BY <4>1, <4>2 DEF RollFees, GetOrKeep
      <4>4. announced'[k] = announced[k] /\ changed'[k] = changed[k]
        BY <4>1, <4>3 DEF RollFees
      <4>5. QED
        BY <3>1, <4>1, <4>2, <4>4, MaxEpochAssumption DEF PendingAge, FeeTypeOK
    <3>2. CASE ~(last_update_epoch < epoch)
      BY <2>2, <3>2, MaxEpochAssumption
         DEF UpdateStakePoolBalance, UpdateFees, feeVars, PendingAge, FeeTypeOK
    <3>3. QED
      BY <3>1, <3>2
  <2>3. CASE AdvanceEpoch
    BY <2>3 DEF AdvanceEpoch, feeVars, PendingAge
  <2>4. CASE UNCHANGED vars
    BY <2>4 DEF vars, PendingAge
  <2>5. QED
    BY <2>1, <2>2, <2>3, <2>4 DEF Next
<1>3. QED
  BY <1>1, <1>2, FeeTypes, PTL DEF Spec

\* A delayed fee changes only two epochs after SetFee announced the new rate,
\* and at least two epochs after its previous change.
THEOREM FeeNoticeGiven == Spec => NoticeGiven
<1> USE DEF FeeNames, DelayedFees, DirectFees, WithdrawalFees
<1>1. FeeTypeOK /\ PendingAge /\ [Next]_vars
        => [\A k \in DelayedFees :
               fees'[k] # fees[k] => /\ epoch >= announced[k] + 2
                                     /\ epoch >= changed[k] + 2]_vars
  <2> SUFFICES ASSUME FeeTypeOK, PendingAge, Next,
                      NEW d \in DelayedFees, fees'[d] # fees[d]
               PROVE  epoch >= announced[d] + 2 /\ epoch >= changed[d] + 2
    BY DEF vars
  <2>1. ASSUME NEW k \in ManagedFees, NEW fee \in FeeInputs, SetFee(k, fee)
        PROVE  FALSE
    BY <2>1 DEF SetFee, AnnounceFee, ReplaceFee, FeeTypeOK
  <2>2. CASE UpdateStakePoolBalance
    <3>1. last_update_epoch < epoch /\ next_fees[d].waits = 1
      BY <2>2 DEF UpdateStakePoolBalance, UpdateFees, RollFees, feeVars, GetOrKeep
    <3>2. QED
      BY <3>1, MaxEpochAssumption DEF PendingAge, FeeTypeOK
  <2>3. CASE AdvanceEpoch
    BY <2>3 DEF AdvanceEpoch, feeVars
  <2>4. QED
    BY <2>1, <2>2, <2>3 DEF Next
<1>2. QED
  BY <1>1, FeeTypes, PendingAges, PTL DEF Spec, NoticeGiven
=============================================================================
