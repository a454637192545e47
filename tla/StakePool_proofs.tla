------------------------- MODULE StakePool_proofs -------------------------
(***************************************************************************)
(* The theorems about StakePool, for any number of validators, any amounts *)
(* and any width of the integers.                                          *)
(***************************************************************************)
EXTENDS StakePool_staker, StakePool_users

-----------------------------------------------------------------------------
(***************************************************************************)
(* The theorems.                                                           *)
(***************************************************************************)
\* Every step preserves the inductive invariant.
LEMMA NextIInv == IInv /\ [Next]_vars => IInv'
<1> SUFFICES ASSUME IInv, [Next]_vars PROVE IInv'
  OBVIOUS
<1>1. /\ StakeAmounts \subseteq U64 /\ DepositAmounts \subseteq U64
      /\ WithdrawAmounts \subseteq U64 /\ Preferable \subseteq Validators
  BY PoolAssumption
<1>2. CASE Staker
  BY <1>1, <1>2, AddValidatorToPoolIInv, RemoveValidatorFromPoolIInv, IncreaseValidatorStakeIInv,
     DecreaseValidatorStakeIInv, SetPreferredIInv DEF Staker
<1>3. CASE Updates
  BY <1>3, UpdateValidatorListBalanceIInv, UpdateStakePoolBalanceIInv, CleanupIInv DEF Updates
<1>4. CASE Users
  BY <1>1, <1>4, DepositSolIInv, DepositStakeIInv, WithdrawReserveIInv, WithdrawStakeIInv DEF Users
<1>5. CASE Environment
  BY <1>5, EnvironmentIInv
<1>6. CASE UNCHANGED vars
  BY <1>6, StutterIInv
<1> QED
  BY <1>2, <1>3, <1>4, <1>5, <1>6 DEF Next

\* The inductive invariant: every instruction, and everything that happens around
\* the pool, keeps the accounts sound, the records covered and the pool solvent.
THEOREM Inductive == Spec => []IInv
  BY InitIInv, NextIInv, PTL DEF Spec

\* The fields of every account stay in the range of their types, and the reserve
\* stays rent exempt, whatever instructions run.
THEOREM TypeCorrect == Spec => []TypeOK
<1>1. IInv => TypeOK
  BY DEF IInv
<1> QED
  BY Inductive, <1>1, PTL

\* No record of the validator list ever claims more than its stake account holds.
THEOREM RecordsAlwaysCovered == Spec => []RecordsCovered
<1>1. IInv => RecordsCovered
  BY DEF IInv
<1> QED
  BY Inductive, <1>1, PTL

\* total_lamports is covered by the reserve and the records at every moment, so
\* that UpdateStakePoolBalance never finds less than it.
THEOREM AlwaysSolvent == Spec => []Solvent
<1>1. IInv => Solvent
  BY DEF IInv
<1> QED
  BY Inductive, <1>1, PTL

\* pool_token_supply never falls below the supply of the mint.
THEOREM SupplyAlwaysCovers == Spec => []SupplyCoversMint
<1>1. IInv => SupplyCoversMint
  BY DEF IInv
<1> QED
  BY Inductive, <1>1, PTL

-----------------------------------------------------------------------------
(***************************************************************************)
(* The price.  It only moves when tokens are minted or burnt or the total  *)
(* is recomputed; each of these rounds in favour of the pool, and the      *)
(* recomputed total is not below the old one because the pool is solvent.  *)
(***************************************************************************)
NotCheaper ==
    pool_token_supply > 0 /\ pool_token_supply' > 0 =>
        total_lamports' * pool_token_supply >= total_lamports * pool_token_supply'

\* A step that leaves total_lamports and pool_token_supply alone.
LEMMA PriceSame ==
    ASSUME IInv, UNCHANGED <<total_lamports, pool_token_supply>>
    PROVE  NotCheaper
<1>1. total_lamports \in Nat /\ pool_token_supply \in Nat
  BY MaxU64Assumption DEF IInv, TypeOK, U64
<1>2. total_lamports * pool_token_supply \in Nat
  BY <1>1, MulMono
<1> QED
  BY <1>2 DEF NotCheaper

\* Deposits mint no more tokens than the lamports pay for.
LEMMA PriceDeposit ==
    ASSUME IInv, NEW lamports \in U64, MintTokens(TokensFor(lamports), lamports)
    PROVE  NotCheaper
<1>1. total_lamports \in Nat /\ pool_token_supply \in Nat /\ lamports \in Nat
  BY MaxU64Assumption DEF IInv, TypeOK, U64
<1>2. /\ total_lamports' = total_lamports + lamports
      /\ pool_token_supply' = pool_token_supply
             + calc_pool_tokens_for_deposit(total_lamports, pool_token_supply, lamports)
  BY DEF MintTokens, TokensFor
<1> QED
  BY <1>1, <1>2, DepositFair DEF NotCheaper

\* An update finds at least total_lamports, and mints a fee out of the rewards.
LEMMA PriceUpdate ==
    ASSUME IInv, NEW epoch_fee \in PoolFees, NEW fee_valid \in BOOLEAN,
           UpdateStakePoolBalance(epoch_fee, fee_valid)
    PROVE  NotCheaper
<1> DEFINE reward == saturating_sub(Backed, total_lamports)
           full   == calc_epoch_fee_amount(total_lamports, pool_token_supply, epoch_fee, reward)
           fee    == IF fee_valid THEN full ELSE 0
           sum    == (total_lamports + reward) * pool_token_supply
<1>1. /\ total_lamports \in Nat /\ pool_token_supply \in Nat /\ mint \in Nat
      /\ mint <= pool_token_supply
  BY MaxU64Assumption DEF IInv, TypeOK, SupplyCoversMint, U64
<1>2. Backed \in Nat /\ total_lamports <= Backed
  BY MaxU64Assumption DEF IInv, Solvent, Backing, Backed, minimum_reserve_lamports,
     UpdateStakePoolBalance, U64
<1>3. reward \in Nat /\ total_lamports + reward = Backed
  BY <1>1, <1>2 DEF saturating_sub
<1>4. total_lamports' = total_lamports + reward /\ pool_token_supply' = mint + fee
  BY <1>3 DEF UpdateStakePoolBalance, SupplyAfter
<1> HIDE DEF reward
<1>5. full \in Nat /\ (sum >= total_lamports * (pool_token_supply + full) \/ pool_token_supply = 0)
  BY <1>1, <1>3, EpochFeeFair, PoolFeesAssumption
<1> HIDE DEF full
<1>6. fee \in Nat /\ fee <= full
  BY <1>5
<1> HIDE DEF fee
<1>7. /\ mint + fee <= pool_token_supply + full
      /\ mint + fee \in Nat /\ pool_token_supply + full \in Nat
  BY <1>1, <1>5, <1>6
<1>8. /\ total_lamports * (mint + fee) <= total_lamports * (pool_token_supply + full)
      /\ total_lamports * (mint + fee) \in Nat /\ total_lamports * (pool_token_supply + full) \in Nat
      /\ sum \in Nat
  <2>1. total_lamports * (mint + fee) <= total_lamports * (pool_token_supply + full)
    BY <1>1, <1>7, MulMono
  <2> QED
    BY <1>1, <1>3, <1>7, <2>1, MulMono
<1> HIDE DEF sum
<1>9. pool_token_supply > 0 => sum >= total_lamports * (mint + fee)
  BY <1>1, <1>5, <1>8
<1> QED
  BY <1>4, <1>9 DEF NotCheaper, sum

\* Withdrawals pay no more than the burnt tokens are worth.
LEMMA PriceWithdraw ==
    ASSUME IInv, NEW pool_tokens \in U64, NEW fee \in PoolFees, NEW fee_exempt \in BOOLEAN,
           \/ WithdrawSol(pool_tokens, fee, fee_exempt)
           \/ WithdrawStakeFromReserve(pool_tokens, fee, fee_exempt)
           \/ \E v \in Validators : WithdrawStake(v, pool_tokens, fee, fee_exempt)
    PROVE  NotCheaper
<1> DEFINE burnt == Burnt(pool_tokens, fee, fee_exempt)
           worth == LamportsFor(burnt)
<1>1. worth \in Nat /\ total_lamports \in U64
  BY WorthNat DEF IInv, TypeOK
<1>2. pool_tokens <= mint
  BY SMTT(30) DEF WithdrawSol, WithdrawStakeFromReserve, WithdrawStake
<1>3. \/ BurnTokens(burnt, worth)
      \/ \E v \in Validators : vstake[v].lamports <= worth /\ BurnTokens(burnt, vstake[v].lamports)
  <2>1. ASSUME NEW v \in Validators, WithdrawWhole(v, worth)
        PROVE  vstake[v].lamports <= worth
    BY <1>1, <2>1, MaxU64Assumption DEF WithdrawWhole, IInv, TypeOK, Account, U64
  <2> HIDE DEF worth
  <2> QED
    BY <2>1 DEF WithdrawSol, WithdrawStakeFromReserve, WithdrawStake, worth
<1> HIDE DEF worth
<1>4. PICK l \in Nat : l <= worth /\ BurnTokens(burnt, l)
  BY <1>1, <1>3, MaxU64Assumption DEF IInv, TypeOK, Account, U64
<1>5. l \in U64
  BY <1>1, <1>4, MaxU64Assumption DEF BurnTokens, U64
<1>6. total_lamports' * pool_token_supply >= total_lamports * pool_token_supply'
  BY <1>2, <1>4, <1>5, BurnTokensStep DEF worth
<1> QED
  BY <1>6 DEF NotCheaper

\* No step makes a token cheaper.
LEMMA NextPrice == IInv /\ [Next]_vars => NotCheaper
<1> SUFFICES ASSUME IInv, [Next]_vars PROVE NotCheaper
  OBVIOUS
<1>1. /\ DepositAmounts \subseteq U64 /\ WithdrawAmounts \subseteq U64
      /\ \A user \in UserStakes : user.lamports \in U64
  BY PoolAssumption, UserStakesAssumption DEF Account
<1>2. CASE Staker
  <2>1. UNCHANGED pool
    BY <1>2 DEF Staker, AddValidatorToPool, RemoveValidatorFromPool, IncreaseValidatorStake,
           DecreaseValidatorStake, SetPreferredDeposit, SetPreferredWithdraw
  <2> QED
    BY <2>1, PriceSame, Zenon DEF pool
<1>3. CASE Updates
  <2>1. ASSUME NEW v \in Validators, NEW no_merge \in BOOLEAN, UpdateValidatorListBalance(v, no_merge)
        PROVE  UNCHANGED pool
    BY <2>1, Zenon DEF UpdateValidatorListBalance
  <2>2. ASSUME NEW writable \in BOOLEAN, CleanupRemovedValidatorEntries(writable)
        PROVE  UNCHANGED pool
    BY <2>2, Zenon DEF CleanupRemovedValidatorEntries
  <2> QED
    BY <1>3, <2>1, <2>2, PriceSame, PriceUpdate, Zenon DEF Updates, pool
<1>4. CASE Users
  <2>1. ASSUME NEW lamports \in DepositAmounts, NEW fee \in PoolFees, DepositSol(lamports, fee)
        PROVE  NotCheaper
    BY <1>1, <2>1, PriceDeposit, SMTT(30) DEF DepositSol
  <2>2. ASSUME NEW v \in Validators, NEW user \in UserStakes, NEW fee \in PoolFees,
               NEW sol_fee \in PoolFees, DepositStake(v, user, fee, sol_fee)
        PROVE  NotCheaper
    BY <1>1, <2>2, PriceDeposit DEF DepositStake
  <2> QED
    BY <1>1, <1>4, <2>1, <2>2, PriceWithdraw DEF Users
<1>5. CASE Environment
  <2>1. UNCHANGED <<total_lamports, pool_token_supply>>
    BY <1>5 DEF Environment, AdvanceEpoch, PayReward, EndRewards, Donate, DestroyTokens,
           ForceDestake, DeactivateDelinquent, pool
  <2> QED
    BY <2>1, PriceSame, Zenon
<1>6. CASE UNCHANGED vars
  BY <1>6, PriceSame DEF vars, pool
<1> QED
  BY <1>2, <1>3, <1>4, <1>5, <1>6 DEF Next

\* What a pool token is worth, total_lamports / pool_token_supply, never falls.
THEOREM PriceMonotone == Spec => PriceNeverFalls
<1>1. IInv /\ [Next]_vars => [NotCheaper]_vars
  BY NextPrice
<1> QED
  BY Inductive, <1>1, PTL DEF Spec, PriceNeverFalls, NotCheaper

-----------------------------------------------------------------------------
\* Init and every step keep a pool that is up to date priced on fresh records.
LEMMA NextFresh == IInv /\ PricedOnFreshRecords /\ [Next]_vars => PricedOnFreshRecords'
<1> SUFFICES ASSUME IInv, PricedOnFreshRecords, [Next]_vars PROVE PricedOnFreshRecords'
  OBVIOUS
<1> USE DEF PricedOnFreshRecords, Listed, pool, list
<1>0. status \in [Validators -> Statuses] /\ record_updated \in [Validators -> BOOLEAN]
  BY DEF IInv, TypeOK
<1>1. CASE Staker
  <2>1. ASSUME NEW v \in Validators, AddValidatorToPool(v)
        PROVE  PricedOnFreshRecords'
    BY <1>0, <2>1 DEF AddValidatorToPool
  <2>2. ASSUME NEW v \in Validators, RemoveValidatorFromPool(v)
        PROVE  PricedOnFreshRecords'
    BY <1>0, <2>2 DEF RemoveValidatorFromPool
  <2>3. ASSUME NEW v \in Validators, NEW lamports, NEW additional,
               IncreaseValidatorStake(v, lamports, additional)
        PROVE  PricedOnFreshRecords'
    BY <2>3 DEF IncreaseValidatorStake
  <2>4. ASSUME NEW v \in Validators, NEW lamports, NEW kind, DecreaseValidatorStake(v, lamports, kind)
        PROVE  PricedOnFreshRecords'
    <3>1. UNCHANGED <<pool_updated, status, record_updated>>
      BY <2>4 DEF DecreaseValidatorStake
    <3> QED
      BY <3>1, SMTT(30)
  <2>5. ASSUME NEW v, SetPreferredDeposit(v) \/ SetPreferredWithdraw(v)
        PROVE  PricedOnFreshRecords'
    BY <2>5, Zenon DEF SetPreferredDeposit, SetPreferredWithdraw
  <2> HIDE DEF PricedOnFreshRecords
  <2> QED
    BY <1>1, <2>1, <2>2, <2>3, <2>4, <2>5 DEF Staker
<1>2. CASE Updates
  <2>1. ASSUME NEW v \in Validators, NEW no_merge \in BOOLEAN, UpdateValidatorListBalance(v, no_merge)
        PROVE  PricedOnFreshRecords'
    <3>1. /\ record_updated' = [record_updated EXCEPT ![v] = TRUE] /\ UNCHANGED pool
          /\ \E s : status' = [status EXCEPT ![v] = s]
      <4> HIDE DEF PricedOnFreshRecords, Listed, pool, list
      <4> QED
        BY <2>1, Zenon DEF UpdateValidatorListBalance
    <3>2. UNCHANGED pool_updated
      BY <3>1
    <3>3. ASSUME pool_updated, NEW w \in Validators, status'[w] # "Unlisted"
          PROVE  record_updated'[w]
      <4>1. CASE w = v
        BY <1>0, <3>1, <4>1
      <4>2. CASE w # v
        BY <1>0, <3>1, <3>3, <4>2
      <4> QED
        BY <4>1, <4>2
    <3> QED
      BY <3>2, <3>3
  <2>2. ASSUME NEW fee \in PoolFees, NEW fee_valid \in BOOLEAN, UpdateStakePoolBalance(fee, fee_valid)
        PROVE  PricedOnFreshRecords'
    <3>1. RecordsAreFresh /\ UNCHANGED list
      <4> HIDE DEF PricedOnFreshRecords, Listed, pool, list
      <4> QED
        BY <2>2, Zenon DEF UpdateStakePoolBalance
    <3> QED
      BY <3>1 DEF RecordsAreFresh
  <2>3. ASSUME NEW writable \in BOOLEAN, CleanupRemovedValidatorEntries(writable)
        PROVE  PricedOnFreshRecords'
    BY <1>0, <2>3 DEF CleanupRemovedValidatorEntries
  <2> HIDE DEF PricedOnFreshRecords
  <2> QED
    BY <1>2, <2>1, <2>2, <2>3, Zenon DEF Updates
<1>3. CASE Users
  <2>0. ASSUME UNCHANGED <<pool_updated, record_updated>>,
               \A w \in Validators : status'[w] # "Unlisted" => status[w] # "Unlisted"
        PROVE  PricedOnFreshRecords'
    BY <2>0
  <2> HIDE DEF PricedOnFreshRecords
  <2>1. ASSUME NEW lamports, NEW fee, DepositSol(lamports, fee)
        PROVE  PricedOnFreshRecords'
    BY <2>0, <2>1, Zenon DEF DepositSol, MintTokens
  <2>2. ASSUME NEW v, NEW user, NEW fee, NEW sol_fee, DepositStake(v, user, fee, sol_fee)
        PROVE  PricedOnFreshRecords'
    BY <2>0, <2>2, Zenon DEF DepositStake, MintTokens
  <2>3. ASSUME NEW pool_tokens, NEW fee, NEW fee_exempt, WithdrawSol(pool_tokens, fee, fee_exempt)
        PROVE  PricedOnFreshRecords'
    BY <2>0, <2>3, Zenon DEF WithdrawSol, BurnTokens
  <2>4. ASSUME NEW pool_tokens, NEW fee, NEW fee_exempt,
               WithdrawStakeFromReserve(pool_tokens, fee, fee_exempt)
        PROVE  PricedOnFreshRecords'
    BY <2>0, <2>4, Zenon DEF WithdrawStakeFromReserve, BurnTokens
  <2>5. ASSUME NEW v \in Validators, NEW pool_tokens, NEW fee, NEW fee_exempt,
               WithdrawStake(v, pool_tokens, fee, fee_exempt)
        PROVE  PricedOnFreshRecords'
    <3>1. UNCHANGED <<pool_updated, record_updated>>
      BY <2>5, Zenon DEF WithdrawStake, BurnTokens
    <3>2. /\ status[v] = "Active"
          /\ status' = status \/ status' = [status EXCEPT ![v] = "ReadyForRemoval"]
      <4>1. PICK worth : WithdrawActive(v, worth) \/ WithdrawTransient(v, worth) \/ WithdrawWhole(v, worth)
        BY <2>5, Zenon DEF WithdrawStake
      <4>2. CASE WithdrawActive(v, worth)
        BY <4>2, Zenon DEF WithdrawActive
      <4>3. CASE WithdrawTransient(v, worth)
        BY <4>3, Zenon DEF WithdrawTransient
      <4>4. CASE WithdrawWhole(v, worth)
        BY <4>4, Zenon DEF WithdrawWhole
      <4> QED
        BY <4>1, <4>2, <4>3, <4>4, Zenon
    <3> QED
      BY <1>0, <2>0, <3>1, <3>2
  <2> QED
    BY <1>3, <2>1, <2>2, <2>3, <2>4, <2>5, Zenon DEF Users
<1>4. CASE Environment
  BY <1>4, Zenon DEF Environment, AdvanceEpoch, PayReward, EndRewards, Donate, DestroyTokens,
         ForceDestake, DeactivateDelinquent
<1>5. CASE UNCHANGED vars
  BY <1>5 DEF vars
<1> QED
  BY <1>1, <1>2, <1>3, <1>4, <1>5 DEF Next

\* When StakePool::last_update_epoch is the current epoch, so is that of every
\* record: deposits and withdrawals, which ask for the first, are priced on
\* records of this epoch only.
THEOREM AlwaysPricedOnFreshRecords == Spec => []PricedOnFreshRecords
<1>1. Init => PricedOnFreshRecords
  BY DEF Init, PricedOnFreshRecords, Listed
<1> QED
  BY Inductive, NextFresh, <1>1, PTL DEF Spec
=============================================================================
