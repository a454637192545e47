------------------------- MODULE StakePool_staker -------------------------
(***************************************************************************)
(* The staker's instructions and the updates preserve the inductive        *)
(* invariant.                                                              *)
(***************************************************************************)
EXTENDS StakePool_lemmas

\* process_add_validator_to_pool: the reserve pays for the first stake.
LEMMA AddValidatorToPoolIInv ==
    ASSUME IInv, NEW v \in Validators, AddValidatorToPool(v)
    PROVE  IInv'
<1> USE MaxU64Assumption, StakeProgramAssumption, PoolAssumption
<1> DEFINE required == minimum_delegation + RentExempt
<1>1. /\ required \in Nat /\ required <= reserve - RentExempt
      /\ CanDelegate(required) /\ reserve' = reserve - required
  BY DEF IInv, TypeOK, AddValidatorToPool, minimum_delegation, saturating_sub,
         minimum_reserve_lamports, U64
<1>2. required \in U64
  BY <1>1 DEF IInv, TypeOK, U64
<1> HIDE DEF required
<1>3. AccountsSound'
  BY <1>1, <1>2, SoundDelegated DEF IInv, AddValidatorToPool, AccountsSound, required
<1>4. TypeOK'
  BY <1>1, <1>2, <1>3, SoundInAccount
     DEF IInv, TypeOK, AddValidatorToPool, AccountsSound, Statuses, pool, preferred, required, U64
<1>5. RecordsCovered' /\ Departed'
  BY <1>1, <1>2, <1>4, SoundDelegated
     DEF IInv, TypeOK, AddValidatorToPool, RecordsCovered, Departed, required, AccountsSound, SoundAccount, Account, U64
<1>6. Solvent'
  <2>1. active[v] = 0 /\ transient[v] = 0
    BY DEF IInv, Departed, AddValidatorToPool
  <2>2. /\ active' = [active EXCEPT ![v] = required] /\ transient' = [transient EXCEPT ![v] = 0]
        /\ total_lamports' = total_lamports
    BY DEF AddValidatorToPool, required, pool
  <2>3. reserve' \in Nat /\ reserve \in Nat /\ total_lamports \in Nat /\ 0 \in U64
    BY <1>1, <1>4 DEF IInv, TypeOK, U64
  <2>4. total_lamports' - total_lamports
            <= (reserve' - reserve) + (required - active[v]) + (0 - transient[v])
    BY <1>1, <2>1, <2>2, <2>3
  <2> QED
    BY <1>2, <2>2, <2>3, <2>4, SolventStep, Zenon DEF IInv
<1> QED
  BY <1>3, <1>4, <1>5, <1>6 DEF IInv, SupplyCoversMint, AddValidatorToPool, pool

\* process_remove_validator_from_pool: the lamports of the validator stake move
\* to the transient record or stay in their own.
LEMMA RemoveValidatorFromPoolIInv ==
    ASSUME IInv, NEW v \in Validators, RemoveValidatorFromPool(v)
    PROVE  IInv'
<1> USE MaxU64Assumption, StakeProgramAssumption, PoolAssumption
<1>1. vstake[v] \in SoundAccount /\ tstake[v] \in SoundAccount
  BY DEF IInv, AccountsSound
<1>2. AccountsSound'
  BY <1>1, SoundDeactivateOnce DEF IInv, RemoveValidatorFromPool, AccountsSound
<1>3. TypeOK'
  BY <1>2, SoundInAccount
     DEF IInv, TypeOK, RemoveValidatorFromPool, ClearPreferred, AccountsSound, Statuses, pool
<1>4. RecordsCovered' /\ Departed'
  BY <1>1, SoundDeactivateOnce
     DEF IInv, TypeOK, RemoveValidatorFromPool, RecordsCovered, Departed, AccountsSound
<1>5. Solvent'
  BY <1>3, SolventReserve DEF IInv, TypeOK, RemoveValidatorFromPool, pool, U64
<1> QED
  BY <1>2, <1>3, <1>4, <1>5 DEF IInv, SupplyCoversMint, RemoveValidatorFromPool, pool

\* process_increase_validator_stake: from the reserve to the transient record.
LEMMA IncreaseValidatorStakeIInv ==
    ASSUME IInv, NEW v \in Validators, NEW lamports \in U64, NEW additional,
           IncreaseValidatorStake(v, lamports, additional)
    PROVE  IInv'
<1> USE MaxU64Assumption, StakeProgramAssumption, PoolAssumption
<1> DEFINE total == lamports + RentExempt
<1>1. /\ total \in Nat /\ total <= reserve - RentExempt
      /\ CanDelegate(total) /\ reserve' = reserve - total
      /\ transient[v] + total \in U64
  BY DEF IInv, TypeOK, IncreaseValidatorStake, saturating_sub, U64
<1>2. total \in U64
  BY <1>1 DEF IInv, TypeOK, U64
<1> HIDE DEF total
<1>3. PICK t : /\ tstake' = [tstake EXCEPT ![v] = t]
               /\ t \in SoundAccount
               /\ t.lamports >= transient[v] + total
  <2>1. tstake[v] \in SoundAccount /\ tstake[v].lamports \in Nat /\ transient[v] \in Nat
        /\ transient[v] <= tstake[v].lamports
    BY DEF IInv, TypeOK, AccountsSound, RecordsCovered, SoundAccount, Account, U64
  <2>2. Delegated(total) \in SoundAccount /\ Delegated(total).lamports = total
    BY <1>1, <1>2, SoundDelegated
  <2>3. CASE transient[v] > 0
    BY <1>1, <2>1, <2>2, <2>3, SoundMerged DEF IncreaseValidatorStake, total
  <2>4. CASE ~(transient[v] > 0)
    BY <1>1, <2>1, <2>2, <2>4 DEF IncreaseValidatorStake, total
  <2> QED
    BY <2>3, <2>4
<1>4. AccountsSound'
  BY <1>3 DEF IInv, IncreaseValidatorStake, AccountsSound
<1>5. TypeOK'
  BY <1>1, <1>2, <1>4, SoundInAccount
     DEF IInv, TypeOK, IncreaseValidatorStake, AccountsSound, pool, preferred, total, U64
<1>6. RecordsCovered' /\ Departed'
  BY <1>1, <1>3
     DEF IInv, TypeOK, IncreaseValidatorStake, RecordsCovered, Departed, total, AccountsSound
<1>7. Solvent'
  <2>1. /\ active' = [active EXCEPT ![v] = active[v]]
        /\ transient' = [transient EXCEPT ![v] = transient[v] + total]
        /\ total_lamports' = total_lamports
    BY DEF IInv, TypeOK, IncreaseValidatorStake, total, pool
  <2>2. /\ reserve' \in Nat /\ reserve \in Nat /\ total_lamports \in Nat
        /\ active[v] \in U64 /\ active[v] \in Nat /\ transient[v] \in Nat
    BY <1>1, <1>5 DEF IInv, TypeOK, U64
  <2>3. total_lamports' - total_lamports
            <= (reserve' - reserve) + (active[v] - active[v]) + ((transient[v] + total) - transient[v])
    BY <1>1, <2>1, <2>2
  <2> QED
    BY <1>1, <2>1, <2>2, <2>3, SolventStep, Zenon DEF IInv
<1> QED
  BY <1>4, <1>5, <1>6, <1>7 DEF IInv, SupplyCoversMint, IncreaseValidatorStake, pool

\* process_decrease_validator_stake: from the validator record to the transient
\* one, the rent of a new account from the reserve.
LEMMA DecreaseValidatorStakeIInv ==
    ASSUME IInv, NEW v \in Validators, NEW lamports \in U64, NEW kind,
           DecreaseValidatorStake(v, lamports, kind)
    PROVE  IInv'
<1> USE MaxU64Assumption, StakeProgramAssumption, PoolAssumption
<1> DEFINE funded == IF kind = "plain" THEN 0 ELSE RentExempt
           moved  == Deactivated(SplitOff(vstake[v], lamports, funded))
           t      == tstake'[v]
           rest   == AfterSplit(vstake[v], lamports)
<1>1. /\ vstake[v] \in SoundAccount /\ tstake[v] \in SoundAccount
      /\ transient[v] \in Nat /\ active[v] \in Nat /\ lamports \in Nat /\ reserve \in Nat
      /\ vstake[v].lamports \in Nat /\ tstake[v].lamports \in Nat
      /\ active[v] <= vstake[v].lamports /\ transient[v] <= tstake[v].lamports
  BY DEF IInv, TypeOK, AccountsSound, RecordsCovered, SoundAccount, Account, U64
<1>2. /\ vstake[v].state = "stake" /\ status[v] = "Active"
      /\ active[v] >= lamports
      /\ CanSplit(vstake[v], lamports, funded) /\ funded \in {0, RentExempt}
      /\ reserve' = reserve - funded
      /\ vstake' = [vstake EXCEPT ![v] = rest]
      /\ active' = [active EXCEPT ![v] = active[v] - lamports]
  BY DEF DecreaseValidatorStake
<1>3. reserve' \in RentExempt..MaxU64 /\ funded \in Nat
  BY <1>1, <1>2 DEF DecreaseValidatorStake, CanDraw, IInv, TypeOK
<1>4. /\ rest \in SoundAccount /\ rest.lamports = vstake[v].lamports - lamports
      /\ SplitOff(vstake[v], lamports, funded) \in SoundAccount
      /\ SplitOff(vstake[v], lamports, funded).lamports = funded + lamports
  BY <1>1, <1>2, SoundSplit
<1>5. moved \in SoundAccount /\ moved.lamports = funded + lamports
  BY <1>4, SoundDeactivated
<1>6. /\ t \in SoundAccount /\ t.lamports >= transient[v] + funded + lamports
      /\ tstake' = [tstake EXCEPT ![v] = t]
  <2>0. tstake \in [Validators -> SoundAccount]
    BY DEF IInv, AccountsSound
  <2>1. CASE transient[v] > 0
    <3>1. CanMerge(tstake[v], moved) /\ tstake' = [tstake EXCEPT ![v] = Merged(tstake[v], moved)]
      BY <2>1 DEF DecreaseValidatorStake
    <3> HIDE DEF moved, funded
    <3> QED
      BY <1>1, <1>3, <1>5, <2>0, <3>1, SoundMerged
  <2>2. CASE ~(transient[v] > 0)
    <3>1. \/ tstake' = [tstake EXCEPT ![v] = moved]
          \/ tstake' = [tstake EXCEPT ![v] = SplitOff(vstake[v], lamports, funded)]
      BY <2>2 DEF DecreaseValidatorStake
    <3> HIDE DEF moved, funded
    <3> QED
      BY <1>1, <1>3, <1>4, <1>5, <2>0, <2>2, <3>1
  <2> QED
    BY <2>1, <2>2
<1>7. transient' = [transient EXCEPT ![v] = t.lamports] /\ t.lamports \in U64
  BY <1>6 DEF DecreaseValidatorStake, SoundAccount, Account
<1> HIDE DEF funded, moved, t, rest
<1>8. AccountsSound'
  BY <1>2, <1>4, <1>6 DEF IInv, AccountsSound
<1>9. TypeOK'
  BY <1>1, <1>2, <1>3, <1>7, <1>8, SoundInAccount
     DEF IInv, TypeOK, DecreaseValidatorStake, AccountsSound, pool, preferred, U64
<1>10. RecordsCovered' /\ Departed'
  <2>1. status' = status
    BY DEF DecreaseValidatorStake
  <2> QED
    BY <1>1, <1>2, <1>4, <1>6, <1>7, <2>1
       DEF IInv, TypeOK, RecordsCovered, Departed, AccountsSound, U64
<1>11. Solvent'
  <2>1. total_lamports' = total_lamports /\ total_lamports \in Nat
    BY DEF IInv, TypeOK, DecreaseValidatorStake, pool, U64
  <2>2. reserve' \in Nat /\ active[v] - lamports \in U64 /\ t.lamports \in Nat
    BY <1>1, <1>2, <1>3, <1>7 DEF IInv, TypeOK, U64
  <2>3. total_lamports' - total_lamports
            <= (reserve' - reserve) + ((active[v] - lamports) - active[v]) + (t.lamports - transient[v])
    BY <1>1, <1>2, <1>3, <1>6, <2>1, <2>2
  <2> QED
    BY <1>2, <1>7, <2>1, <2>2, <2>3, SolventStep, Zenon DEF IInv
<1> QED
  BY <1>8, <1>9, <1>10, <1>11 DEF IInv, SupplyCoversMint, DecreaseValidatorStake, pool

\* process_set_preferred_validator touches no lamports.
LEMMA SetPreferredIInv ==
    ASSUME IInv, NEW v \in Validators \cup {NoValidator},
           SetPreferredDeposit(v) \/ SetPreferredWithdraw(v)
    PROVE  IInv'
<1>1. TypeOK' /\ SupplyCoversMint'
  BY DEF IInv, TypeOK, SupplyCoversMint, SetPreferredDeposit, SetPreferredWithdraw, pool, list, accounts
<1> QED
  BY <1>1, LedgerUnchangedIInv DEF SetPreferredDeposit, SetPreferredWithdraw, pool, list

-----------------------------------------------------------------------------
(***************************************************************************)
(* The updates.  UpdateValidatorListBalance first treats the transient     *)
(* stake (step, t1, a1, r1), then the validator stake (step2, a2, r2); no  *)
(* lamport is lost on the way, and what the record does not count any more *)
(* is in the reserve.                                                      *)
(***************************************************************************)
\* process_update_validator_list_balance: what leaves a record is in the reserve
\* or in the other record, so the backing does not fall.
LEMMA UpdateValidatorListBalanceIInv ==
    ASSUME IInv, NEW v \in Validators, NEW no_merge \in BOOLEAN,
           UpdateValidatorListBalance(v, no_merge)
    PROVE  IInv'
<1> USE MaxU64Assumption, StakeProgramAssumption, PoolAssumption
<1> DEFINE a     == vstake[v]
           t     == tstake[v]
           step  == TransientStep(status[v], transient[v], t, a, no_merge)
           s1    == IF step = "to_reserve" THEN remove_transient_stake(status[v]) ELSE status[v]
           t1    == IF step \in {"to_reserve", "to_validator"} THEN NoAccount
                    ELSE IF step = "deactivate" THEN Deactivated(t)
                    ELSE t
           a1    == IF step = "to_validator" THEN Merged(a, t) ELSE a
           r1    == IF step = "to_reserve" THEN reserve + t.lamports ELSE reserve
           left  == IF step = "ignore" THEN 0 ELSE t1.lamports
           step2 == ValidatorStep(s1, a1, no_merge)
           gone  == step2 \in {"destaked", "to_reserve"}
           a2    == IF gone THEN NoAccount ELSE WithLamports(a1, a1.lamports - Excess(a1))
           r2    == r1 + (IF gone THEN a1.lamports ELSE Excess(a1))
           s2    == IF step2 = "to_reserve" THEN remove_validator_stake(s1)
                    ELSE IF step2 # "destaked" THEN s1
                    ELSE IF left # 0 THEN "DeactivatingTransient" ELSE "ReadyForRemoval"
           act   == IF step2 = "count" THEN a2.lamports ELSE 0
<1>1. /\ status[v] # "Unlisted"
      /\ step = "to_validator" => CanMerge(a, t)
      /\ r2 \in U64
      /\ status' = [status EXCEPT ![v] = s2]
      /\ active' = [active EXCEPT ![v] = act]
      /\ transient' = [transient EXCEPT ![v] = left]
      /\ record_updated' = [record_updated EXCEPT ![v] = TRUE]
      /\ reserve' = r2
      /\ vstake' = [vstake EXCEPT ![v] = a2]
      /\ tstake' = [tstake EXCEPT ![v] = t1]
      /\ UNCHANGED <<pool, preferred, mint, rewarding>>
  BY Zenon DEF UpdateValidatorListBalance
<1>2. /\ a \in SoundAccount /\ t \in SoundAccount /\ status[v] \in Statuses
      /\ a.lamports \in Nat /\ t.lamports \in Nat
      /\ active[v] \in Nat /\ transient[v] \in Nat /\ reserve \in Nat /\ reserve >= RentExempt
      /\ active[v] <= a.lamports /\ transient[v] <= t.lamports
      /\ t.state = "none" => t.lamports = 0
      /\ a.state = "none" => a.lamports = 0
      /\ status[v] \in {"ReadyForRemoval", "DeactivatingTransient"} => a.state = "none"
  BY DEF IInv, TypeOK, AccountsSound, RecordsCovered, Departed, SoundAccount, Account, U64
<1>3. /\ step \in {"ignore", "count", "to_reserve", "to_validator", "deactivate"}
      /\ step = "ignore" => transient[v] = 0 \/ t.state = "none"
      /\ step = "to_validator" => status[v] = "Active"
  BY DEF TransientStep
<1>m. step = "to_validator" => CanMerge(a, t)
  BY <1>1, Zenon
<1> HIDE DEF a, t, step, s1, t1, a1, r1, left, step2, gone, a2, r2, s2, act
<1>4. t1 \in SoundAccount /\ t1.lamports \in Nat
      /\ (step \in {"to_reserve", "to_validator"} => t1.lamports = 0)
      /\ (step \notin {"to_reserve", "to_validator"} => t1.lamports = t.lamports)
  <2>1. t1 \in SoundAccount
    BY <1>2, <1>3, SoundNone, SoundDeactivated DEF t1
  <2> QED
    BY <1>2, <1>3, <2>1, SoundNone, SoundDeactivated DEF t1, SoundAccount, Account, U64
<1>5. a1 \in SoundAccount /\ a1.lamports \in Nat
      /\ (step = "to_validator" => a1.lamports = a.lamports + t.lamports)
      /\ (step # "to_validator" => a1 = a)
  <2>1. CASE step = "to_validator"
    <3>1. a1 = Merged(a, t)
      BY <2>1 DEF a1
    <3>2. Merged(a, t) \in SoundAccount /\ Merged(a, t).lamports = a.lamports + t.lamports
      BY <1>2, <1>m, <2>1, SoundMerged
    <3> QED
      BY <1>2, <2>1, <3>1, <3>2
  <2>2. CASE step # "to_validator"
    BY <1>2, <2>2 DEF a1
  <2> QED
    BY <2>1, <2>2
<1>6. left \in Nat /\ left <= t1.lamports /\ r1 \in Nat /\ r1 >= reserve
      /\ r1 + a1.lamports + left >= reserve + a.lamports + transient[v]
  BY <1>2, <1>3, <1>4, <1>5 DEF left, r1
<1>7. /\ Excess(a1) \in Nat /\ Excess(a1) <= a1.lamports
      /\ a2 \in SoundAccount /\ a2.lamports \in Nat
      /\ gone => a2.state = "none" /\ a2.lamports = 0
      /\ ~gone => a2.state = a1.state /\ a2.lamports = a1.lamports - Excess(a1)
  <2>1. a2 = IF gone THEN NoAccount ELSE WithLamports(a1, a1.lamports - Excess(a1))
    BY DEF a2
  <2>2. /\ Excess(a1) \in Nat /\ Excess(a1) <= a1.lamports
        /\ WithLamports(a1, a1.lamports - Excess(a1)) \in SoundAccount
        /\ WithLamports(a1, a1.lamports - Excess(a1)).lamports = a1.lamports - Excess(a1)
        /\ WithLamports(a1, a1.lamports - Excess(a1)).state = a1.state
    BY <1>5, ExcessBound, Zenon
  <2>3. CASE gone
    BY <2>1, <2>2, <2>3, SoundNone
  <2>4. CASE ~gone
    BY <1>5, <2>1, <2>2, <2>4
  <2> QED
    BY <2>3, <2>4
<1>8. r2 \in Nat /\ r2 >= reserve /\ r2 + a2.lamports = r1 + a1.lamports
  <2>1. r2 = r1 + (IF gone THEN a1.lamports ELSE Excess(a1))
    BY DEF r2
  <2> QED
    BY <1>2, <1>5, <1>6, <1>7, <2>1
<1>9. /\ s1 \in Statuses /\ s1 # "Unlisted"
      /\ s1 \in {"ReadyForRemoval", "DeactivatingTransient"}
             => status[v] \in {"ReadyForRemoval", "DeactivatingTransient"}
      /\ step = "to_validator" => s1 = "Active"
  BY <1>1, <1>2, <1>3 DEF s1, remove_transient_stake, Statuses
<1>10. s1 \in {"ReadyForRemoval", "DeactivatingTransient"} => a1.state = "none"
  BY <1>2, <1>5, <1>9
<1>11. /\ step2 \in {"ignore", "destaked", "count", "to_reserve"}
       /\ step2 = "ignore" => a1.state = "none"
  BY <1>9, <1>10 DEF step2, ValidatorStep, Statuses
<1>12. a1.state = "none" => a1.lamports = 0
  BY <1>5 DEF SoundAccount
<1>13. act \in Nat /\ act <= a2.lamports /\ r2 + act >= r1 + a1.lamports
  BY <1>5, <1>6, <1>7, <1>8, <1>11, <1>12 DEF act, gone
<1>14. /\ s2 \in Statuses /\ s2 # "Unlisted"
       /\ s2 \in {"ReadyForRemoval", "DeactivatingTransient"} => a2.state = "none"
  BY <1>7, <1>9, <1>10, <1>11 DEF s2, gone, remove_validator_stake, Statuses
<1>15. AccountsSound'
  BY <1>1, <1>4, <1>7 DEF IInv, AccountsSound
<1>16. act \in U64 /\ left \in U64
  BY <1>4, <1>6, <1>7, <1>13 DEF SoundAccount, Account, U64
<1>17. TypeOK'
  BY <1>1, <1>2, <1>8, <1>14, <1>15, <1>16, SoundInAccount, SMTT(30)
     DEF IInv, TypeOK, AccountsSound, pool, preferred, U64
<1>18. RecordsCovered' /\ Departed'
  BY <1>1, <1>6, <1>13, <1>14 DEF IInv, TypeOK, RecordsCovered, Departed, AccountsSound
<1>19. Solvent'
  <2>1. total_lamports' = total_lamports /\ total_lamports \in Nat
    BY <1>1 DEF IInv, TypeOK, pool, U64
  <2>2. total_lamports' - total_lamports
            <= (reserve' - reserve) + (act - active[v]) + (left - transient[v])
    BY <1>1, <1>2, <1>5, <1>6, <1>8, <1>13, <2>1, SMTT(30)
  <2> QED
    BY <1>1, <1>8, <1>16, <2>1, <2>2, SolventStep, Zenon DEF IInv
<1> QED
  BY <1>1, <1>15, <1>17, <1>18, <1>19 DEF IInv, SupplyCoversMint, pool

\* process_update_stake_pool_balance sets total_lamports to the backing.
LEMMA UpdateStakePoolBalanceIInv ==
    ASSUME IInv, NEW epoch_fee \in PoolFees, NEW fee_valid \in BOOLEAN,
           UpdateStakePoolBalance(epoch_fee, fee_valid)
    PROVE  IInv'
<1> USE MaxU64Assumption, StakeProgramAssumption, PoolAssumption
<1>1. /\ Backed \in U64 /\ total_lamports' = Backed
      /\ mint' \in U64 /\ pool_token_supply' = mint' /\ pool_updated' = TRUE
      /\ UNCHANGED <<preferred, list, accounts, rewarding>>
  BY DEF UpdateStakePoolBalance, SupplyAfter
<1>2. TypeOK'
  BY <1>1 DEF IInv, TypeOK, preferred, list, accounts
<1>3. AccountsSound' /\ RecordsCovered' /\ Departed'
  BY <1>1 DEF IInv, AccountsSound, RecordsCovered, Departed, list, accounts
<1>4. Solvent'
  <2>1. Backing = Backed
    BY DEF Backing, Backed, minimum_reserve_lamports
  <2>2. Backing' = Backing
    BY <1>1 DEF Backing, list, accounts
  <2> QED
    BY <1>1, <2>1, <2>2 DEF Solvent, U64
<1>5. SupplyCoversMint'
  BY <1>1 DEF SupplyCoversMint, U64
<1> QED
  BY <1>2, <1>3, <1>4, <1>5 DEF IInv

\* process_cleanup_removed_validator_entries drops records that hold nothing.
LEMMA CleanupIInv ==
    ASSUME IInv, NEW writable \in BOOLEAN, CleanupRemovedValidatorEntries(writable)
    PROVE  IInv'
<1> USE MaxU64Assumption, StakeProgramAssumption, PoolAssumption
<1> DEFINE kept == {v \in Listed : ~(status[v] = "ReadyForRemoval" /\ active[v] = 0 /\ transient[v] = 0)}
<1>1. /\ status' = [v \in Validators |-> IF v \in kept THEN status[v] ELSE "Unlisted"]
      /\ preferred_deposit' \in {NoValidator, preferred_deposit}
      /\ preferred_withdraw' \in {NoValidator, preferred_withdraw}
      /\ record_updated' = [v \in Validators |-> v \in kept /\ record_updated[v]]
      /\ UNCHANGED <<pool, active, transient, accounts, mint, rewarding>>
  BY DEF CleanupRemovedValidatorEntries
<1>2. TypeOK'
  <2>1. record_updated' \in [Validators -> BOOLEAN]
    BY <1>1
  <2>2. status' \in [Validators -> Statuses]
    BY <1>1 DEF IInv, TypeOK, Statuses
  <2> QED
    BY <1>1, <2>1, <2>2 DEF IInv, TypeOK, pool, accounts
<1>3. AccountsSound' /\ RecordsCovered'
  BY <1>1 DEF IInv, AccountsSound, RecordsCovered, accounts
<1>4. Departed'
  BY <1>1 DEF IInv, TypeOK, Departed, Listed, accounts
<1>5. Solvent'
  BY <1>1, <1>2, SolventReserve DEF IInv, TypeOK, pool, accounts, U64
<1> QED
  BY <1>1, <1>2, <1>3, <1>4, <1>5 DEF IInv, SupplyCoversMint, pool
=============================================================================
