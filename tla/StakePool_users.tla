-------------------------- MODULE StakePool_users --------------------------
(***************************************************************************)
(* The users' instructions, and what happens around the pool, preserve the *)
(* inductive invariant.                                                    *)
(***************************************************************************)
EXTENDS StakePool_lemmas

\* No fee is larger than what it is taken from.
LEMMA PoolFeeBound ==
    ASSUME NEW fee \in PoolFees, NEW amt \in Nat
    PROVE  apply(fee, amt) \in Nat /\ apply(fee, amt) <= amt
  BY ApplyBound, PoolFeesAssumption

\* What MintTokens does to the fields of the pool.
LEMMA MintTokensStep ==
    ASSUME IInv, NEW lamports \in U64, MintTokens(TokensFor(lamports), lamports)
    PROVE  /\ total_lamports' \in U64 /\ pool_token_supply' \in U64 /\ mint' \in U64
           /\ total_lamports' = total_lamports + lamports
           /\ pool_updated' = pool_updated
           /\ SupplyCoversMint'
<1> USE MaxU64Assumption
<1>1. total_lamports \in Nat /\ pool_token_supply \in Nat /\ mint \in Nat /\ lamports \in Nat
  BY DEF IInv, TypeOK, U64
<1>2. TokensFor(lamports) \in Nat
  BY <1>1, DepositFair DEF TokensFor
<1> QED
  BY <1>1, <1>2 DEF MintTokens, IInv, SupplyCoversMint

\* process_deposit_sol: the reserve gains what total_lamports gains.
LEMMA DepositSolIInv ==
    ASSUME IInv, NEW lamports \in U64, NEW fee \in PoolFees, DepositSol(lamports, fee)
    PROVE  IInv'
<1> USE MaxU64Assumption, StakeProgramAssumption, PoolAssumption
<1>1. /\ reserve' = reserve + lamports /\ reserve' \in U64
      /\ MintTokens(TokensFor(lamports), lamports)
      /\ UNCHANGED <<preferred, list, vstake, tstake, rewarding>>
  BY DEF DepositSol
<1>2. TypeOK' /\ SupplyCoversMint' /\ total_lamports' = total_lamports + lamports
  <2>1. reserve' \in RentExempt..MaxU64
    BY <1>1 DEF IInv, TypeOK, U64
  <2> QED
    BY <1>1, <2>1, MintTokensStep DEF IInv, TypeOK, preferred, list
<1>3. AccountsSound' /\ RecordsCovered' /\ Departed'
  BY <1>1 DEF IInv, AccountsSound, RecordsCovered, Departed, list
<1>4. Solvent'
  BY <1>1, <1>2, SolventReserve DEF IInv, TypeOK, list, U64
<1> QED
  BY <1>2, <1>3, <1>4 DEF IInv

\* process_deposit_stake: the record and the reserve gain it.
LEMMA DepositStakeIInv ==
    ASSUME IInv, NEW v \in Validators, NEW user \in UserStakes,
           NEW fee \in PoolFees, NEW sol_fee \in PoolFees, DepositStake(v, user, fee, sol_fee)
    PROVE  IInv'
<1> USE MaxU64Assumption, StakeProgramAssumption, PoolAssumption
<1> DEFINE merged == Merged(vstake[v], user)
           gained == MergedStake(vstake[v], user)
           sol    == user.lamports - gained
           new    == WithLamports(merged, merged.lamports - sol)
<1>1. /\ vstake[v].state = "stake" /\ CanMerge(vstake[v], user) /\ status[v] = "Active"
      /\ reserve' = reserve + sol /\ reserve' \in U64
      /\ vstake' = [vstake EXCEPT ![v] = new]
      /\ active' = [active EXCEPT ![v] = merged.lamports - sol]
      /\ MintTokens(TokensFor(user.lamports), user.lamports)
      /\ UNCHANGED <<preferred, status, transient, record_updated, tstake, rewarding>>
  BY DEF DepositStake
<1>2. /\ vstake[v] \in SoundAccount /\ vstake[v].lamports \in Nat
      /\ vstake[v].stake + RentExempt <= vstake[v].lamports /\ vstake[v].stake \in Nat
      /\ active[v] \in Nat /\ active[v] <= vstake[v].lamports
      /\ reserve \in Nat /\ reserve >= RentExempt /\ transient[v] \in U64
  BY <1>1 DEF IInv, TypeOK, AccountsSound, RecordsCovered, SoundAccount, Account, U64
<1>3. user \in SoundAccount /\ user.lamports \in U64 /\ user.lamports \in Nat
  BY UserStakesAssumption DEF SoundAccount, Account, U64
<1>4. /\ merged \in SoundAccount /\ merged.lamports = vstake[v].lamports + user.lamports
      /\ merged.state = "stake" /\ gained \in Nat /\ gained <= user.lamports
      /\ merged.stake = vstake[v].stake + gained
      /\ merged.lamports \in U64
  BY <1>1, <1>2, <1>3, SoundMerged DEF SoundAccount, Account
<1> HIDE DEF merged, gained
<1>5. /\ merged.lamports - sol = vstake[v].lamports + gained
      /\ merged.lamports - sol \in U64 /\ sol \in Nat
  BY <1>2, <1>3, <1>4 DEF U64
<1>6. new \in SoundAccount /\ new.lamports = merged.lamports - sol /\ new.state = "stake"
  BY <1>2, <1>4, <1>5 DEF WithLamports, SoundAccount, Account
<1> HIDE DEF new, sol
<1>7. AccountsSound'
  BY <1>1, <1>6 DEF IInv, AccountsSound
<1>8. TypeOK' /\ SupplyCoversMint' /\ total_lamports' = total_lamports + user.lamports
  <2>1. reserve' \in RentExempt..MaxU64
    BY <1>1, <1>2, <1>5 DEF U64
  <2> QED
    BY <1>1, <1>3, <1>5, <1>7, <2>1, MintTokensStep, SoundInAccount
       DEF IInv, TypeOK, AccountsSound, preferred
<1>9. RecordsCovered' /\ Departed'
  BY <1>1, <1>5, <1>6 DEF IInv, TypeOK, RecordsCovered, Departed, AccountsSound, U64
<1>10. Solvent'
  <2>1. transient' = [transient EXCEPT ![v] = transient[v]]
    BY <1>1 DEF IInv, TypeOK
  <2>2. /\ total_lamports' \in Nat /\ total_lamports \in Nat /\ reserve' \in Nat
        /\ transient[v] \in Nat
    BY <1>8, <1>2 DEF IInv, TypeOK, U64
  <2>3. total_lamports' - total_lamports = user.lamports /\ reserve' - reserve = sol
    BY <1>1, <1>2, <1>3, <1>5, <1>8, <2>2
  <2>4. user.lamports <= sol + ((merged.lamports - sol) - active[v]) + (transient[v] - transient[v])
    BY <1>2, <1>3, <1>4, <1>5, <2>2 DEF sol
  <2>5. total_lamports' - total_lamports
            <= (reserve' - reserve) + ((merged.lamports - sol) - active[v]) + (transient[v] - transient[v])
    BY <2>3, <2>4
  <2> QED
    BY <1>1, <1>2, <1>5, <2>1, <2>2, <2>5, SolventStep, Zenon DEF IInv
<1> QED
  BY <1>7, <1>8, <1>9, <1>10 DEF IInv

\* What a withdrawal takes is no more than the burnt tokens are worth, and
\* BurnTokens keeps the fields of the pool in their range.
LEMMA BurnTokensStep ==
    ASSUME IInv, NEW pool_tokens \in U64, pool_tokens <= mint, NEW fee \in PoolFees,
           NEW fee_exempt \in BOOLEAN, NEW lamports \in U64,
           lamports <= LamportsFor(Burnt(pool_tokens, fee, fee_exempt)),
           BurnTokens(Burnt(pool_tokens, fee, fee_exempt), lamports)
    PROVE  /\ total_lamports' \in U64 /\ pool_token_supply' \in U64 /\ mint' \in U64
           /\ total_lamports' = total_lamports - lamports
           /\ pool_updated' = pool_updated
           /\ SupplyCoversMint'
           /\ total_lamports' * pool_token_supply >= total_lamports * pool_token_supply'
<1> USE MaxU64Assumption
<1> DEFINE burnt == Burnt(pool_tokens, fee, fee_exempt)
<1>1. /\ total_lamports \in Nat /\ pool_token_supply \in Nat /\ mint \in Nat
      /\ pool_tokens \in Nat /\ lamports \in Nat /\ mint <= pool_token_supply
  BY DEF IInv, TypeOK, SupplyCoversMint, U64
<1>2. burnt \in Nat /\ burnt <= pool_tokens
  BY <1>1, PoolFeeBound DEF Burnt
<1> HIDE DEF burnt
<1>3. /\ mint' = mint - burnt /\ pool_token_supply' = pool_token_supply - burnt
      /\ pool_token_supply >= burnt /\ total_lamports >= lamports
      /\ total_lamports' = total_lamports - lamports /\ pool_updated' = pool_updated
  BY DEF BurnTokens, burnt
<1>4. total_lamports' \in U64 /\ pool_token_supply' \in U64 /\ mint' \in U64 /\ SupplyCoversMint'
  BY <1>1, <1>2, <1>3 DEF IInv, TypeOK, SupplyCoversMint, U64
<1>5. (total_lamports - lamports) * pool_token_supply >= total_lamports * (pool_token_supply - burnt)
  <2>1. lamports <= calc_lamports_withdraw_amount(total_lamports, pool_token_supply, burnt)
    BY DEF LamportsFor, burnt
  <2> QED
    BY <1>1, <1>2, <1>3, <2>1, WithdrawFair
<1> QED
  BY <1>3, <1>4, <1>5

\* What burnt tokens are worth is a natural number.
LEMMA WorthNat ==
    ASSUME IInv, NEW pool_tokens \in U64, NEW fee \in PoolFees, NEW fee_exempt \in BOOLEAN
    PROVE  LamportsFor(Burnt(pool_tokens, fee, fee_exempt)) \in Nat
<1> DEFINE burnt == Burnt(pool_tokens, fee, fee_exempt)
<1>1. total_lamports \in Nat /\ pool_token_supply \in Nat /\ pool_tokens \in Nat
  BY MaxU64Assumption DEF IInv, TypeOK, U64
<1>2. burnt \in Nat
  BY <1>1, PoolFeeBound DEF Burnt
<1> HIDE DEF burnt
<1>3. burnt * total_lamports \in Nat
  BY <1>1, <1>2, MulMono
<1>4. LamportsFor(burnt) \in Nat
  BY <1>1, <1>3, Quotient DEF LamportsFor, calc_lamports_withdraw_amount
<1> QED
  BY <1>4 DEF burnt

\* WithdrawSol, and WithdrawStake from the reserve.
LEMMA WithdrawReserveIInv ==
    ASSUME IInv, NEW pool_tokens \in U64, NEW fee \in PoolFees, NEW fee_exempt \in BOOLEAN,
           \/ WithdrawSol(pool_tokens, fee, fee_exempt)
           \/ WithdrawStakeFromReserve(pool_tokens, fee, fee_exempt)
    PROVE  IInv'
<1> USE MaxU64Assumption, StakeProgramAssumption, PoolAssumption
<1> DEFINE burnt    == Burnt(pool_tokens, fee, fee_exempt)
           lamports == LamportsFor(burnt)
<1>1. /\ pool_tokens <= mint /\ ReserveKeepsMinimum(lamports)
      /\ reserve' = reserve - lamports /\ BurnTokens(burnt, lamports)
      /\ UNCHANGED <<preferred, list, vstake, tstake, rewarding>>
  BY DEF WithdrawSol, WithdrawStakeFromReserve
<1>2. lamports \in Nat /\ reserve \in RentExempt..MaxU64
  BY WorthNat DEF IInv, TypeOK
<1> HIDE DEF lamports
<1>3. lamports <= reserve - RentExempt /\ lamports \in U64
  BY <1>1, <1>2 DEF ReserveKeepsMinimum, saturating_sub, minimum_reserve_lamports, U64
<1>4. reserve' \in RentExempt..MaxU64
  BY <1>1, <1>2, <1>3
<1>5. /\ total_lamports' \in U64 /\ pool_token_supply' \in U64 /\ mint' \in U64
      /\ total_lamports' = total_lamports - lamports /\ pool_updated' = pool_updated
      /\ SupplyCoversMint'
  <2>1. lamports <= LamportsFor(burnt)
    BY <1>2 DEF lamports
  <2> QED
    BY <1>1, <1>3, <2>1, BurnTokensStep
<1>6. TypeOK'
  BY <1>1, <1>4, <1>5 DEF IInv, TypeOK, preferred, list
<1>7. AccountsSound' /\ RecordsCovered' /\ Departed'
  BY <1>1 DEF IInv, AccountsSound, RecordsCovered, Departed, list
<1>8. Solvent'
  <2>1. total_lamports \in Nat /\ total_lamports' \in Nat /\ reserve' \in Nat
    BY <1>4, <1>5 DEF IInv, TypeOK, U64
  <2>2. total_lamports' - total_lamports <= reserve' - reserve
    BY <1>1, <1>2, <1>5, <2>1
  <2> QED
    BY <1>1, <2>1, <2>2, SolventReserve DEF IInv, list
<1> QED
  BY <1>5, <1>6, <1>7, <1>8 DEF IInv

\* From an account that stays in use.
LEMMA WithdrawPartStep ==
    ASSUME NEW a \in SoundAccount, a.state = "stake", NEW lamports \in Nat,
           WithdrawPart(a, lamports)
    PROVE  /\ lamports \in U64
           /\ AfterSplit(a, lamports) \in SoundAccount
           /\ AfterSplit(a, lamports).lamports = a.lamports - lamports
           /\ AfterSplit(a, lamports).state = "stake"
<1>1. /\ a.lamports \in U64 /\ RentExempt \in Nat \ {0} /\ minimum_delegation \in Nat
  BY MaxU64Assumption, StakeProgramAssumption, PoolAssumption
     DEF SoundAccount, Account, minimum_delegation, U64
<1>2. a.lamports - lamports > 0 /\ CanSplit(a, lamports, RentExempt)
  BY <1>1, MaxU64Assumption
     DEF WithdrawPart, saturating_sub, minimum_stake_lamports, U64
<1>3. lamports \in U64 /\ lamports # a.lamports
  BY <1>1, <1>2, MaxU64Assumption DEF U64
<1> QED
  BY <1>2, <1>3, SoundSplit

\* A step on the accounts and records of one validator that takes lamports out of
\* the pool.
Taken(v, lamports) ==
    /\ active' = [active EXCEPT ![v] = active'[v]] /\ active'[v] \in U64
    /\ transient' = [transient EXCEPT ![v] = transient'[v]] /\ transient'[v] \in U64
    /\ vstake' = [vstake EXCEPT ![v] = vstake'[v]] /\ vstake'[v] \in SoundAccount
    /\ tstake' = [tstake EXCEPT ![v] = tstake'[v]] /\ tstake'[v] \in SoundAccount
    /\ status' = [status EXCEPT ![v] = status'[v]]
    /\ active'[v] <= vstake'[v].lamports /\ transient'[v] <= tstake'[v].lamports
    /\ status'[v] = "Active" \/ (status'[v] = "ReadyForRemoval" /\ vstake'[v].state = "none")
    /\ active'[v] + transient'[v] + lamports = active[v] + transient[v]
    /\ total_lamports' \in U64 /\ pool_token_supply' \in U64 /\ mint' \in U64
    /\ total_lamports' = total_lamports - lamports /\ pool_updated' = pool_updated
    /\ SupplyCoversMint'
    /\ preferred_deposit' \in Validators \cup {NoValidator}
    /\ preferred_withdraw' \in Validators \cup {NoValidator}
    /\ UNCHANGED <<record_updated, reserve, rewarding>>

\* Lamports taken from a validator's accounts, records and total_lamports alike,
\* keep the pool solvent.
LEMMA TakeFromValidator ==
    ASSUME IInv, NEW v \in Validators, NEW lamports \in U64, Taken(v, lamports)
    PROVE  IInv'
<1> USE MaxU64Assumption, StakeProgramAssumption, PoolAssumption DEF Taken
<1>1. AccountsSound'
  BY DEF IInv, AccountsSound
<1>2. TypeOK'
  <2>1. status' \in [Validators -> Statuses]
    BY DEF IInv, TypeOK, Statuses
  <2> QED
    BY <1>1, <2>1, SoundInAccount DEF IInv, TypeOK, AccountsSound
<1>3. RecordsCovered' /\ Departed'
  BY DEF IInv, TypeOK, AccountsSound, RecordsCovered, Departed
<1>4. Solvent'
  <2> DEFINE n == active'[v]
             m == transient'[v]
  <2>1. /\ active[v] \in Nat /\ transient[v] \in Nat /\ n \in Nat /\ m \in Nat /\ lamports \in Nat
        /\ total_lamports \in Nat /\ total_lamports' \in Nat /\ reserve \in Nat /\ reserve' = reserve
    BY DEF IInv, TypeOK, U64
  <2>2. total_lamports' - total_lamports
            <= (reserve' - reserve) + (n - active[v]) + (m - transient[v])
    BY <2>1
  <2> QED
    BY <2>1, <2>2, SolventStep DEF IInv
<1> QED
  BY <1>1, <1>2, <1>3, <1>4 DEF IInv

\* process_withdraw_stake, in its three cases.
LEMMA WithdrawStakeIInv ==
    ASSUME IInv, NEW v \in Validators, NEW pool_tokens \in U64, NEW fee \in PoolFees,
           NEW fee_exempt \in BOOLEAN, WithdrawStake(v, pool_tokens, fee, fee_exempt)
    PROVE  IInv'
<1> USE MaxU64Assumption, StakeProgramAssumption, PoolAssumption
<1> DEFINE burnt == Burnt(pool_tokens, fee, fee_exempt)
           worth == LamportsFor(burnt)
<1>1. pool_tokens <= mint /\ UNCHANGED <<record_updated, reserve, rewarding>>
  BY DEF WithdrawStake
<1>2. worth \in Nat
  BY WorthNat
<1>3. /\ vstake[v] \in SoundAccount /\ tstake[v] \in SoundAccount
      /\ active[v] \in U64 /\ transient[v] \in U64 /\ active[v] \in Nat /\ transient[v] \in Nat
      /\ active[v] <= vstake[v].lamports /\ transient[v] <= tstake[v].lamports
      /\ vstake[v].lamports \in U64 /\ tstake[v].lamports \in U64
      /\ vstake[v].lamports \in Nat /\ tstake[v].lamports \in Nat
      /\ status[v] \in Statuses
      /\ active = [active EXCEPT ![v] = active[v]]
      /\ transient = [transient EXCEPT ![v] = transient[v]]
      /\ vstake = [vstake EXCEPT ![v] = vstake[v]]
      /\ tstake = [tstake EXCEPT ![v] = tstake[v]]
      /\ status = [status EXCEPT ![v] = status[v]]
      /\ preferred_deposit \in Validators \cup {NoValidator}
      /\ preferred_withdraw \in Validators \cup {NoValidator}
  BY DEF IInv, TypeOK, AccountsSound, RecordsCovered, SoundAccount, Account, U64
<1> HIDE DEF worth
<1>4. ASSUME NEW l \in U64, l <= worth, BurnTokens(burnt, l)
      PROVE  /\ total_lamports' \in U64 /\ pool_token_supply' \in U64 /\ mint' \in U64
             /\ total_lamports' = total_lamports - l /\ pool_updated' = pool_updated
             /\ SupplyCoversMint'
  BY <1>1, <1>4, BurnTokensStep DEF worth
<1>5. CASE WithdrawActive(v, worth) /\ BurnTokens(burnt, worth)
  <2>1. /\ vstake[v].state = "stake" /\ status[v] = "Active" /\ WithdrawPart(vstake[v], worth)
        /\ active[v] >= worth
        /\ vstake' = [vstake EXCEPT ![v] = AfterSplit(vstake[v], worth)]
        /\ active' = [active EXCEPT ![v] = active[v] - worth]
        /\ UNCHANGED <<status, transient, tstake, preferred>>
    BY <1>5 DEF WithdrawActive
  <2>2. /\ worth \in U64 /\ AfterSplit(vstake[v], worth) \in SoundAccount
        /\ AfterSplit(vstake[v], worth).lamports = vstake[v].lamports - worth
    BY <1>2, <1>3, <2>1, WithdrawPartStep
  <2>3. active[v] - worth \in U64 /\ active[v] - worth <= vstake[v].lamports - worth
        /\ (active[v] - worth) + transient[v] + worth = active[v] + transient[v]
    BY <1>2, <1>3, <2>1 DEF U64
  <2>4. /\ active'[v] = active[v] - worth /\ transient'[v] = transient[v]
        /\ vstake'[v] = AfterSplit(vstake[v], worth) /\ tstake'[v] = tstake[v]
        /\ status'[v] = "Active"
    BY <2>1 DEF IInv, TypeOK
  <2>5. worth <= worth
    BY <1>2
  <2>6. /\ total_lamports' \in U64 /\ pool_token_supply' \in U64 /\ mint' \in U64
        /\ total_lamports' = total_lamports - worth /\ pool_updated' = pool_updated
        /\ SupplyCoversMint'
    BY <1>4, <1>5, <2>2, <2>5
  <2>7. Taken(v, worth)
    BY <1>1, <1>3, <2>1, <2>2, <2>3, <2>4, <2>6, Zenon DEF Taken, preferred
  <2> QED
    BY <2>2, <2>7, TakeFromValidator
<1>6. CASE WithdrawTransient(v, worth) /\ BurnTokens(burnt, worth)
  <2>1. /\ tstake[v].state = "stake" /\ status[v] = "Active" /\ WithdrawPart(tstake[v], worth)
        /\ transient[v] >= worth
        /\ tstake' = [tstake EXCEPT ![v] = AfterSplit(tstake[v], worth)]
        /\ transient' = [transient EXCEPT ![v] = transient[v] - worth]
        /\ UNCHANGED <<status, active, vstake, preferred>>
    BY <1>6 DEF WithdrawTransient
  <2>2. /\ worth \in U64 /\ AfterSplit(tstake[v], worth) \in SoundAccount
        /\ AfterSplit(tstake[v], worth).lamports = tstake[v].lamports - worth
    BY <1>2, <1>3, <2>1, WithdrawPartStep
  <2>3. transient[v] - worth \in U64 /\ transient[v] - worth <= tstake[v].lamports - worth
        /\ active[v] + (transient[v] - worth) + worth = active[v] + transient[v]
    BY <1>2, <1>3, <2>1 DEF U64
  <2>4. /\ active'[v] = active[v] /\ transient'[v] = transient[v] - worth
        /\ vstake'[v] = vstake[v] /\ tstake'[v] = AfterSplit(tstake[v], worth)
        /\ status'[v] = "Active"
    BY <2>1 DEF IInv, TypeOK
  <2>5. worth <= worth
    BY <1>2
  <2>6. /\ total_lamports' \in U64 /\ pool_token_supply' \in U64 /\ mint' \in U64
        /\ total_lamports' = total_lamports - worth /\ pool_updated' = pool_updated
        /\ SupplyCoversMint'
    BY <1>4, <1>6, <2>2, <2>5
  <2>7. Taken(v, worth)
    BY <1>1, <1>3, <2>1, <2>2, <2>3, <2>4, <2>6, Zenon DEF Taken, preferred
  <2> QED
    BY <2>2, <2>7, TakeFromValidator
<1>7. CASE WithdrawWhole(v, worth) /\ BurnTokens(burnt, vstake[v].lamports)
  <2> DEFINE l == vstake[v].lamports
  <2>1. /\ vstake' = [vstake EXCEPT ![v] = NoAccount]
        /\ active' = [active EXCEPT ![v] = 0]
        /\ status' = [status EXCEPT ![v] = "ReadyForRemoval"]
        /\ worth >= l /\ active[v] = l
        /\ ClearPreferred(v)
        /\ UNCHANGED <<transient, tstake>>
    BY <1>7 DEF WithdrawWhole
  <2>2. /\ preferred_deposit' \in Validators \cup {NoValidator}
        /\ preferred_withdraw' \in Validators \cup {NoValidator}
    BY <1>3, <2>1 DEF ClearPreferred
  <2>3. 0 \in U64 /\ 0 <= 0 /\ 0 + transient[v] + l = active[v] + transient[v] /\ l <= worth
    BY <1>2, <1>3, <2>1 DEF U64
  <2>4. /\ active'[v] = 0 /\ transient'[v] = transient[v]
        /\ vstake'[v] = NoAccount /\ tstake'[v] = tstake[v]
        /\ status'[v] = "ReadyForRemoval"
    BY <2>1 DEF IInv, TypeOK
  <2>5. Taken(v, l)
    BY <1>1, <1>3, <1>4, <1>7, <2>1, <2>2, <2>3, <2>4, SoundNone, Zenon DEF Taken
  <2> QED
    BY <1>3, <2>5, TakeFromValidator
<1> QED
  BY <1>5, <1>6, <1>7 DEF WithdrawStake, worth

-----------------------------------------------------------------------------
(***************************************************************************)
(* What happens around the pool: accounts only gain lamports.              *)
(***************************************************************************)
\* Accounts that gain lamports keep the invariant.
LEMMA AccountsGrowIInv ==
    ASSUME IInv, AccountsSound',
           \A v \in Validators :
               /\ vstake'[v].lamports >= vstake[v].lamports
               /\ tstake'[v].lamports >= tstake[v].lamports
               /\ vstake[v].state = "none" => vstake'[v].state = "none",
           reserve' \in U64, reserve' >= reserve,
           pool_updated' \in BOOLEAN, rewarding' \in BOOLEAN,
           record_updated' \in [Validators -> BOOLEAN],
           UNCHANGED <<total_lamports, pool_token_supply, mint, preferred, status, active, transient>>
    PROVE  IInv'
<1> USE MaxU64Assumption, StakeProgramAssumption, PoolAssumption
<1>1. reserve \in RentExempt..MaxU64 /\ reserve' \in RentExempt..MaxU64
  BY DEF IInv, TypeOK, U64
<1>2. TypeOK'
  BY <1>1, SoundInAccount DEF IInv, TypeOK, AccountsSound, preferred
<1>3. ASSUME NEW v \in Validators
      PROVE  /\ active[v] \in Nat /\ transient[v] \in Nat
             /\ vstake[v].lamports \in Nat /\ tstake[v].lamports \in Nat
             /\ vstake'[v].lamports \in Nat /\ tstake'[v].lamports \in Nat
  BY <1>2 DEF IInv, TypeOK, Account, U64
<1>4. RecordsCovered' /\ Departed'
  BY <1>3 DEF IInv, RecordsCovered, Departed
<1>5. Solvent'
  <2>1. total_lamports' = total_lamports /\ total_lamports \in Nat
    BY DEF IInv, TypeOK, U64
  <2>2. total_lamports' - total_lamports <= reserve' - reserve /\ reserve' \in Nat
    BY <1>1, <2>1
  <2>3. TypeOK /\ Solvent /\ UNCHANGED <<active, transient>> /\ total_lamports' \in Nat
    BY <2>1 DEF IInv
  <2> QED
    BY <2>2, <2>3, SolventReserve, Zenon
<1> QED
  BY <1>2, <1>4, <1>5 DEF IInv, SupplyCoversMint

\* One stake account changes.
LEMMA OneAccountIInv ==
    ASSUME IInv, NEW v \in Validators, NEW b \in SoundAccount,
           \/ /\ vstake' = [vstake EXCEPT ![v] = b] /\ tstake' = tstake
              /\ b.lamports >= vstake[v].lamports /\ vstake[v].state # "none"
           \/ /\ tstake' = [tstake EXCEPT ![v] = b] /\ vstake' = vstake
              /\ b.lamports >= tstake[v].lamports,
           UNCHANGED <<pool, preferred, list, reserve, mint, rewarding>>
    PROVE  IInv'
<1>1. AccountsSound'
  BY DEF IInv, AccountsSound
<1>2. ASSUME NEW w \in Validators
      PROVE  /\ vstake'[w].lamports >= vstake[w].lamports
             /\ tstake'[w].lamports >= tstake[w].lamports
             /\ vstake[w].state = "none" => vstake'[w].state = "none"
  <2>1. vstake[w].lamports \in Nat /\ tstake[w].lamports \in Nat
    BY MaxU64Assumption DEF IInv, TypeOK, Account, U64
  <2> QED
    BY <2>1 DEF IInv, TypeOK
<1>3. reserve' = reserve /\ reserve \in U64 /\ reserve' >= reserve
  BY MaxU64Assumption, StakeProgramAssumption DEF IInv, TypeOK, U64
<1>4. /\ pool_updated' \in BOOLEAN /\ rewarding' \in BOOLEAN
      /\ record_updated' \in [Validators -> BOOLEAN]
  BY DEF IInv, TypeOK, pool, list
<1> QED
  BY <1>1, <1>2, <1>3, <1>4, AccountsGrowIInv DEF pool, list

\* Epochs, rewards, donations, burns and destaking keep the invariant.
LEMMA EnvironmentIInv ==
    ASSUME IInv, Environment
    PROVE  IInv'
<1> USE MaxU64Assumption, StakeProgramAssumption, PoolAssumption
<1>0. ASSUME NEW v \in Validators
      PROVE  /\ vstake[v] \in SoundAccount /\ tstake[v] \in SoundAccount
             /\ vstake[v].lamports \in U64 /\ tstake[v].lamports \in U64
             /\ vstake[v].lamports \in Nat /\ tstake[v].lamports \in Nat
  BY DEF IInv, TypeOK, AccountsSound, Account, U64
<1>1. ASSUME AdvanceEpoch PROVE IInv'
  <2>1. AccountsSound'
    BY <1>0, <1>1, SoundAge DEF AdvanceEpoch, AccountsSound
  <2>2. ASSUME NEW v \in Validators
        PROVE  /\ vstake'[v].lamports >= vstake[v].lamports
               /\ tstake'[v].lamports >= tstake[v].lamports
               /\ vstake[v].state = "none" => vstake'[v].state = "none"
    BY <1>0, <1>1, SoundAge DEF AdvanceEpoch
  <2>3. reserve' = reserve /\ reserve \in U64 /\ reserve' >= reserve
    BY <1>1 DEF AdvanceEpoch, IInv, TypeOK, U64
  <2>4. /\ pool_updated' \in BOOLEAN /\ rewarding' \in BOOLEAN
        /\ record_updated' \in [Validators -> BOOLEAN]
    BY <1>1, Zenon DEF AdvanceEpoch
  <2> QED
    BY <1>1, <2>1, <2>2, <2>3, <2>4, AccountsGrowIInv DEF AdvanceEpoch
<1>2. ASSUME NEW lamports \in U64, PayReward(lamports) PROVE IInv'
  <2>1. PICK v \in Validators :
           \/ /\ Rewardable(vstake[v]) /\ vstake[v].lamports + lamports \in U64
              /\ vstake' = [vstake EXCEPT ![v] = Rewarded(vstake[v], lamports)]
              /\ UNCHANGED tstake
           \/ /\ Rewardable(tstake[v]) /\ tstake[v].lamports + lamports \in U64
              /\ tstake' = [tstake EXCEPT ![v] = Rewarded(tstake[v], lamports)]
              /\ UNCHANGED vstake
    BY <1>2 DEF PayReward
  <2>2. lamports \in Nat
    BY DEF U64
  <2>3. UNCHANGED <<pool, preferred, list, reserve, mint, rewarding>>
    BY <1>2 DEF PayReward
  <2> QED
    BY <1>0, <2>1, <2>2, <2>3, SoundRewarded, OneAccountIInv DEF Rewardable
<1>3. ASSUME EndRewards PROVE IInv'
  <2>1. TypeOK' /\ SupplyCoversMint'
    BY <1>3, Zenon DEF EndRewards, IInv, TypeOK, SupplyCoversMint, pool, preferred, list, accounts
  <2> QED
    BY <1>3, <2>1, LedgerUnchangedIInv DEF EndRewards, pool, list
<1>4. ASSUME NEW lamports \in U64, Donate(lamports) PROVE IInv'
  <2>1. UNCHANGED <<pool, preferred, list, mint, rewarding>> /\ lamports \in Nat
    BY <1>4 DEF Donate, U64
  <2>2. CASE reserve + lamports \in U64 /\ reserve' = reserve + lamports /\ UNCHANGED <<vstake, tstake>>
    <3>1. AccountsSound'
      BY <2>2 DEF IInv, AccountsSound
    <3>2. reserve' \in U64 /\ reserve' >= reserve
      BY <2>1, <2>2 DEF IInv, TypeOK
    <3>3. ASSUME NEW v \in Validators
          PROVE  /\ vstake'[v].lamports >= vstake[v].lamports
                 /\ tstake'[v].lamports >= tstake[v].lamports
                 /\ vstake[v].state = "none" => vstake'[v].state = "none"
      BY <1>0, <2>2
    <3>4. /\ pool_updated' \in BOOLEAN /\ rewarding' \in BOOLEAN
          /\ record_updated' \in [Validators -> BOOLEAN]
      BY <2>1 DEF IInv, TypeOK, pool, list
    <3> QED
      BY <2>1, <3>1, <3>2, <3>3, <3>4, AccountsGrowIInv DEF pool, list
  <2>3. CASE \E v \in Validators :
               /\ Gift(vstake[v], lamports)
               /\ vstake' = [vstake EXCEPT ![v] = WithLamports(vstake[v], vstake[v].lamports + lamports)]
               /\ UNCHANGED <<reserve, tstake>>
    <3>1. PICK v \in Validators :
               /\ Gift(vstake[v], lamports)
               /\ vstake' = [vstake EXCEPT ![v] = WithLamports(vstake[v], vstake[v].lamports + lamports)]
               /\ UNCHANGED <<reserve, tstake>>
      BY <2>3, Zenon
    <3> DEFINE b == WithLamports(vstake[v], vstake[v].lamports + lamports)
    <3>2. vstake[v].state # "none" /\ vstake[v].lamports + lamports \in U64
      BY <3>1 DEF Gift
    <3>3. b \in SoundAccount /\ b.lamports = vstake[v].lamports + lamports
      BY <1>0, <3>2, SoundGift
    <3> HIDE DEF b
    <3>4. b.lamports >= vstake[v].lamports
      BY <1>0, <2>1, <3>3
    <3>5. vstake' = [vstake EXCEPT ![v] = b] /\ tstake' = tstake /\ reserve' = reserve
      BY <3>1 DEF b
    <3> QED
      BY <2>1, <3>2, <3>3, <3>4, <3>5, OneAccountIInv, Zenon
  <2>4. CASE \E v \in Validators :
               /\ Gift(tstake[v], lamports)
               /\ tstake' = [tstake EXCEPT ![v] = WithLamports(tstake[v], tstake[v].lamports + lamports)]
               /\ UNCHANGED <<reserve, vstake>>
    <3>1. PICK v \in Validators :
               /\ Gift(tstake[v], lamports)
               /\ tstake' = [tstake EXCEPT ![v] = WithLamports(tstake[v], tstake[v].lamports + lamports)]
               /\ UNCHANGED <<reserve, vstake>>
      BY <2>4, Zenon
    <3> DEFINE b == WithLamports(tstake[v], tstake[v].lamports + lamports)
    <3>2. tstake[v].state # "none" /\ tstake[v].lamports + lamports \in U64
      BY <3>1 DEF Gift
    <3>3. b \in SoundAccount /\ b.lamports = tstake[v].lamports + lamports
      BY <1>0, <3>2, SoundGift
    <3> HIDE DEF b
    <3>4. b.lamports >= tstake[v].lamports
      BY <1>0, <2>1, <3>3
    <3>5. tstake' = [tstake EXCEPT ![v] = b] /\ vstake' = vstake /\ reserve' = reserve
      BY <3>1 DEF b
    <3> QED
      BY <2>1, <3>2, <3>3, <3>4, <3>5, OneAccountIInv, Zenon
  <2> QED
    BY <1>4, <2>2, <2>3, <2>4 DEF Donate
<1>5. ASSUME NEW pool_tokens \in U64, DestroyTokens(pool_tokens) PROVE IInv'
  <2>1. TypeOK' /\ SupplyCoversMint'
    BY <1>5 DEF DestroyTokens, IInv, TypeOK, SupplyCoversMint, pool, preferred, list, accounts, U64
  <2> QED
    BY <1>5, <2>1, LedgerUnchangedIInv DEF DestroyTokens, pool, list
<1>6. ASSUME NEW v \in Validators, ForceDestake(v) PROVE IInv'
  BY <1>0, <1>6, SoundInitialized, OneAccountIInv DEF ForceDestake
<1>7. ASSUME NEW v \in Validators, DeactivateDelinquent(v) PROVE IInv'
  BY <1>0, <1>7, SoundDeactivated, OneAccountIInv DEF DeactivateDelinquent, FullyActive
<1> QED
  BY <1>1, <1>2, <1>3, <1>4, <1>5, <1>6, <1>7 DEF Environment
=============================================================================
