----------------------------- MODULE StakePool -----------------------------
(***************************************************************************)
(* The instructions of program/src/processor.rs that move stake and pool   *)
(* tokens, over the accounts they read and write: the StakePool account,   *)
(* the records of the validator list, the reserve, and for each validator  *)
(* its stake account and its transient stake account.                      *)
(*                                                                         *)
(* An instruction either succeeds or leaves everything as it was, so each  *)
(* is one action, whose guard is the conjunction of the checks of the      *)
(* handler and of the programs it calls.  Signers and account addresses    *)
(* are taken to be the right ones.  What the runtime, the token program    *)
(* and other users do between two instructions are actions too.            *)
(***************************************************************************)
EXTENDS PoolMath, StakeProgram, FiniteSets

CONSTANTS
    Validators,            \* vote accounts
    NoValidator,           \* no preferred validator
    MaxValidators,         \* ValidatorListHeader::max_validators
    MINIMUM_ACTIVE_STAKE,
    InitialReserves,       \* lamports the reserve may be created with
    DepositAmounts,        \* lamports of a DepositSol
    UserStakes,            \* stake accounts users deposit
    WithdrawAmounts,       \* pool tokens of a withdrawal
    StakeAmounts,          \* lamports of an increase or decrease
    PoolFees,              \* rates in force when an instruction runs
    Rewards,               \* lamports of one staking reward
    Donations,             \* lamports sent to an account of the pool
    Burns,                 \* pool tokens a holder destroys
    Preferable,            \* validators the staker may prefer
    Destakable,            \* validators a cluster restart may destake
    Delinquents,           \* validators that may stop voting
    MaxSol                 \* bound: lamports that the accounts of the pool may hold

ASSUME PoolAssumption ==
    /\ IsFiniteSet(Validators)
    /\ NoValidator \notin Validators
    /\ MaxValidators \in Nat
    /\ MINIMUM_ACTIVE_STAKE \in U64
    /\ InitialReserves \subseteq RentExempt..MaxU64
    /\ DepositAmounts \subseteq U64
    /\ WithdrawAmounts \subseteq U64
    /\ StakeAmounts \subseteq U64
    /\ Rewards \subseteq U64
    /\ Donations \subseteq U64
    /\ Burns \subseteq U64
    /\ UNION {Preferable, Destakable, Delinquents} \subseteq Validators
    /\ MaxSol \in U64

ASSUME PoolFeesAssumption ==
    PoolFees \subseteq {fee \in Fee : ~check_too_high(fee)}

\* The stake accounts users bring are rent exempt.
ASSUME UserStakesAssumption ==
    UserStakes \subseteq {a \in Account :
        /\ a.state # "none"
        /\ a.lamports >= a.stake + RentExempt
        /\ a.state = "initialized" => a = Initialized(a.lamports)}

VARIABLES
    total_lamports, pool_token_supply,      \* StakePool
    preferred_deposit, preferred_withdraw,  \* preferred_*_validator_vote_address
    pool_updated,     \* StakePool::last_update_epoch is the current epoch
    status,           \* ValidatorStakeInfo::status, "Unlisted" without a record
    active,           \* ValidatorStakeInfo::active_stake_lamports
    transient,        \* ValidatorStakeInfo::transient_stake_lamports
    record_updated,   \* ValidatorStakeInfo::last_update_epoch is the current epoch
    reserve,          \* lamports of the reserve stake account
    vstake, tstake,   \* validator and transient stake accounts
    mint,             \* supply of the pool mint
    rewarding         \* EpochRewards::active

pool == <<total_lamports, pool_token_supply, pool_updated>>
preferred == <<preferred_deposit, preferred_withdraw>>
list == <<status, active, transient, record_updated>>
accounts == <<reserve, vstake, tstake>>
vars == <<pool, preferred, list, accounts, mint, rewarding>>

Statuses == {"Active", "DeactivatingTransient", "ReadyForRemoval",
             "DeactivatingValidator", "DeactivatingAll", "Unlisted"}

Listed == {v \in Validators : status[v] # "Unlisted"}

minimum_delegation ==
    IF StakeMinimumDelegation < MINIMUM_ACTIVE_STAKE
    THEN MINIMUM_ACTIVE_STAKE ELSE StakeMinimumDelegation

minimum_stake_lamports == RentExempt + minimum_delegation

minimum_reserve_lamports == RentExempt

(***************************************************************************)
(* The sum of the lamports in f: there are f[v] pairs <<v, i>> for each v. *)
(***************************************************************************)
Total(f) ==
    Cardinality({p \in Validators \X (1..MaxU64) : p[2] <= f[p[1]]})

\* What the accounts of the pool really hold.
Holdings ==
    reserve + Total([v \in Validators |-> vstake[v].lamports])
            + Total([v \in Validators |-> tstake[v].lamports])

Room(lamports) == Holdings + lamports <= MaxSol

(***************************************************************************)
(* Initialize: the reserve exists, its lamports above the rent-exempt      *)
(* reserve are minted one to one to the manager, the list is empty.        *)
(***************************************************************************)
Init ==
    /\ reserve \in InitialReserves
    /\ total_lamports = reserve - minimum_reserve_lamports
    /\ pool_token_supply = total_lamports
    /\ mint = total_lamports
    /\ preferred_deposit = NoValidator
    /\ preferred_withdraw = NoValidator
    /\ pool_updated = TRUE
    /\ status = [v \in Validators |-> "Unlisted"]
    /\ active = [v \in Validators |-> 0]
    /\ transient = [v \in Validators |-> 0]
    /\ record_updated = [v \in Validators |-> FALSE]
    /\ vstake = [v \in Validators |-> NoAccount]
    /\ tstake = [v \in Validators |-> NoAccount]
    /\ rewarding = FALSE

-----------------------------------------------------------------------------
(***************************************************************************)
(* The staker's instructions.                                              *)
(***************************************************************************)
AddValidatorToPool(v) ==
    LET required == minimum_delegation + RentExempt
    IN  /\ pool_updated
        /\ Cardinality(Listed) # MaxValidators
        /\ status[v] = "Unlisted"
        /\ saturating_sub(reserve, required) >= minimum_reserve_lamports
        /\ vstake[v].state = "none"
        /\ CanDelegate(required)
        /\ reserve' = reserve - required
        /\ vstake' = [vstake EXCEPT ![v] = Delegated(required)]
        /\ status' = [status EXCEPT ![v] = "Active"]
        /\ active' = [active EXCEPT ![v] = required]
        /\ transient' = [transient EXCEPT ![v] = 0]
        /\ record_updated' = [record_updated EXCEPT ![v] = TRUE]
        /\ UNCHANGED <<pool, preferred, tstake, mint, rewarding>>

\* stake_deactivate, where the handler calls it only for a stake that is not
\* deactivated yet.
DeactivateOnce(a) ==
    IF a.state = "stake" /\ a.deactivation = "never" THEN Deactivated(a) ELSE a

\* Mutant: only the preference for deposits is reset.
Mutant_ClearPreferred(v) ==
    /\ preferred_deposit' = IF preferred_deposit = v THEN NoValidator ELSE preferred_deposit
    /\ UNCHANGED preferred_withdraw

ClearPreferred(v) ==
    /\ preferred_deposit' = IF preferred_deposit = v THEN NoValidator ELSE preferred_deposit
    /\ preferred_withdraw' = IF preferred_withdraw = v THEN NoValidator ELSE preferred_withdraw

RemoveValidatorFromPool(v) ==
    /\ pool_updated
    /\ vstake[v].state = "stake"
    /\ status[v] = "Active"
    /\ IF transient[v] > 0
       THEN /\ tstake' = [tstake EXCEPT ![v] = DeactivateOnce(tstake[v])]
            /\ status' = [status EXCEPT ![v] = "DeactivatingAll"]
       ELSE /\ status' = [status EXCEPT ![v] = "DeactivatingValidator"]
            /\ UNCHANGED tstake
    /\ vstake' = [vstake EXCEPT ![v] = DeactivateOnce(vstake[v])]
    /\ ClearPreferred(v)
    /\ UNCHANGED <<pool, active, transient, record_updated, reserve, mint, rewarding>>

\* The lamports of an increase come out of the reserve with the rent-exempt
\* reserve of the account that carries them.  A transient stake can be added to
\* (IncreaseAdditionalValidatorStake) while it is activating.
IncreaseValidatorStake(v, lamports, additional) ==
    LET total == lamports + RentExempt
    IN  /\ pool_updated
        /\ status[v] # "Unlisted"
        /\ transient[v] > 0 =>
               /\ additional
               /\ tstake[v].state = "stake"
               /\ tstake[v].activation = "now" /\ tstake[v].deactivation = "never"
        /\ vstake[v].state = "stake"
        /\ status[v] = "Active"
        /\ lamports >= minimum_delegation
        /\ saturating_sub(reserve, total) >= RentExempt
        /\ CanDelegate(total)
        /\ IF transient[v] > 0
           THEN /\ CanMerge(tstake[v], Delegated(total))
                /\ tstake' = [tstake EXCEPT ![v] = Merged(tstake[v], Delegated(total))]
           ELSE /\ tstake[v].state = "none"
                /\ tstake' = [tstake EXCEPT ![v] = Delegated(total)]
        /\ transient[v] + total \in U64
        /\ transient' = [transient EXCEPT ![v] = transient[v] + total]
        /\ reserve' = reserve - total
        /\ UNCHANGED <<pool, preferred, status, active, record_updated, vstake, mint, rewarding>>

\* How a decrease is asked for: DecreaseValidatorStake,
\* DecreaseValidatorStakeWithReserve, DecreaseAdditionalValidatorStake.  The
\* last two fund the rent-exempt reserve of the new account from the reserve.
DecreaseKinds == {"plain", "with_reserve", "additional"}

DecreaseValidatorStake(v, lamports, kind) ==
    LET funded == IF kind = "plain" THEN 0 ELSE RentExempt
        moved  == Deactivated(SplitOff(vstake[v], lamports, funded))
    IN  /\ pool_updated
        /\ vstake[v].state = "stake"
        /\ status[v] # "Unlisted"
        /\ transient[v] > 0 =>
               /\ kind = "additional"
               /\ tstake[v].state = "stake" /\ tstake[v].deactivation = "now"
        /\ status[v] = "Active"
        /\ lamports >= minimum_delegation
        /\ vstake[v].lamports - lamports >= minimum_stake_lamports
        /\ kind # "plain" => RentExempt < reserve /\ CanDraw(reserve, RentExempt)
        /\ CanSplit(vstake[v], lamports, funded)
        /\ kind = "additional" => vstake[v].deactivation = "never"
        /\ IF transient[v] > 0
           THEN /\ CanMerge(tstake[v], moved)
                /\ tstake' = [tstake EXCEPT ![v] = Merged(tstake[v], moved)]
           ELSE /\ tstake[v].state = "none"
                /\ tstake' = [tstake EXCEPT ![v] =
                       IF vstake[v].deactivation = "never"
                       THEN moved ELSE SplitOff(vstake[v], lamports, funded)]
        /\ active[v] >= lamports
        /\ reserve' = reserve - funded
        /\ vstake' = [vstake EXCEPT ![v] = AfterSplit(vstake[v], lamports)]
        /\ active' = [active EXCEPT ![v] = active[v] - lamports]
        /\ transient' = [transient EXCEPT ![v] = tstake'[v].lamports]
        /\ UNCHANGED <<pool, preferred, status, record_updated, mint, rewarding>>

SetPreferredDeposit(v) ==
    /\ v # NoValidator => status[v] = "Active"
    /\ preferred_deposit' = v
    /\ UNCHANGED <<pool, preferred_withdraw, list, accounts, mint, rewarding>>

SetPreferredWithdraw(v) ==
    /\ v # NoValidator => status[v] = "Active"
    /\ preferred_withdraw' = v
    /\ UNCHANGED <<pool, preferred_deposit, list, accounts, mint, rewarding>>

-----------------------------------------------------------------------------
(***************************************************************************)
(* The updates, which anyone may send.  UpdateValidatorListBalance treats  *)
(* the records of a slice one after the other; the action is one record,   *)
(* and a longer slice is several of them in a row.  A record whose         *)
(* accounts do not match is skipped, which changes nothing.                *)
(***************************************************************************)
\* Mutant: the validator stake is forgotten.
Mutant_remove_transient_stake(s) ==
    IF s \in {"DeactivatingAll", "DeactivatingTransient"} THEN "ReadyForRemoval" ELSE s

remove_transient_stake(s) ==
    IF s = "DeactivatingAll" THEN "DeactivatingValidator"
    ELSE IF s = "DeactivatingTransient" THEN "ReadyForRemoval"
    ELSE s

\* Mutant: the status never gets past the transient stake.
Mutant_remove_validator_stake(s) ==
    IF s \in {"DeactivatingAll", "DeactivatingValidator"} THEN "DeactivatingTransient" ELSE s

remove_validator_stake(s) ==
    IF s = "DeactivatingAll" THEN "DeactivatingTransient"
    ELSE IF s = "DeactivatingValidator" THEN "ReadyForRemoval"
    ELSE s

stake_is_inactive_without_history(a) ==
    a.deactivation = "past" \/ (a.activation = "now" /\ a.deactivation = "now")

\* Ready to be merged into the reserve.
Settled(a) == a.state = "initialized" \/ stake_is_inactive_without_history(a)

\* Mutant: no_merge is not looked at.
Mutant_TransientStep(s, recorded, t, a, no_merge) ==
    IF recorded = 0 \/ t.state = "none" THEN "ignore"
    ELSE IF Settled(t) THEN "to_reserve"
    ELSE IF s = "Active" /\ t.activation = "past" /\ a.state = "stake" /\ a.activation = "past"
         THEN "to_validator" ELSE "count"

\* What is done with the transient stake t of a record in status s whose
\* validator stake is a.
TransientStep(s, recorded, t, a, no_merge) ==
    IF recorded = 0 \/ t.state = "none" THEN "ignore"
    ELSE IF no_merge THEN "count"
    ELSE IF Settled(t) THEN "to_reserve"
    ELSE IF s = "Active"
         THEN IF t.activation = "past" /\ a.state = "stake" /\ a.activation = "past"
              THEN "to_validator" ELSE "count"
    ELSE IF t.deactivation = "never" THEN "deactivate"
    ELSE "count"

\* What is done with the validator stake a of a record in status s.
ValidatorStep(s, a, no_merge) ==
    IF a.state = "none" THEN "ignore"
    ELSE IF a.state = "initialized" THEN "destaked"
    ELSE IF s = "Active" THEN "count"
    ELSE IF s \in {"DeactivatingValidator", "DeactivatingAll"}
         THEN IF ~no_merge /\ Settled(a) THEN "to_reserve" ELSE "count"
    ELSE "ignore"

\* Lamports of a delegated account that are neither delegated nor reserved.
Excess(a) ==
    IF a.state = "stake" THEN saturating_sub(a.lamports, a.stake + RentExempt) ELSE 0

\* Mutant: the distribution of the rewards is not waited for.
Mutant_RewardsAreIn == TRUE

\* Updates are refused while the rewards of the epoch are distributed.
RewardsAreIn == ~rewarding

UpdateValidatorListBalance(v, no_merge) ==
    LET step  == TransientStep(status[v], transient[v], tstake[v], vstake[v], no_merge)
        s1    == IF step = "to_reserve" THEN remove_transient_stake(status[v]) ELSE status[v]
        t1    == IF step \in {"to_reserve", "to_validator"} THEN NoAccount
                 ELSE IF step = "deactivate" THEN Deactivated(tstake[v])
                 ELSE tstake[v]
        a1    == IF step = "to_validator" THEN Merged(vstake[v], tstake[v]) ELSE vstake[v]
        r1    == IF step = "to_reserve" THEN reserve + tstake[v].lamports ELSE reserve
        left  == IF step = "ignore" THEN 0 ELSE t1.lamports
        step2 == ValidatorStep(s1, a1, no_merge)
        gone  == step2 \in {"destaked", "to_reserve"}
        a2    == IF gone THEN NoAccount ELSE WithLamports(a1, a1.lamports - Excess(a1))
        r2    == r1 + (IF gone THEN a1.lamports ELSE Excess(a1))
        s2    == IF step2 = "to_reserve" THEN remove_validator_stake(s1)
                 ELSE IF step2 # "destaked" THEN s1
                 ELSE IF left # 0 THEN "DeactivatingTransient" ELSE "ReadyForRemoval"
    IN  /\ RewardsAreIn
        /\ status[v] # "Unlisted"
        /\ step = "to_validator" => CanMerge(vstake[v], tstake[v])
        /\ r2 \in U64
        /\ status' = [status EXCEPT ![v] = s2]
        /\ active' = [active EXCEPT ![v] = IF step2 = "count" THEN a2.lamports ELSE 0]
        /\ transient' = [transient EXCEPT ![v] = left]
        /\ record_updated' = [record_updated EXCEPT ![v] = TRUE]
        /\ reserve' = r2
        /\ vstake' = [vstake EXCEPT ![v] = a2]
        /\ tstake' = [tstake EXCEPT ![v] = t1]
        /\ UNCHANGED <<pool, preferred, mint, rewarding>>

\* Mutant: records of validators on their way out are not asked to be fresh.
Mutant_RecordsAreFresh == \A v \in Listed : status[v] = "Active" => record_updated[v]

\* UpdateStakePoolBalance refuses a list with a record of an earlier epoch.
RecordsAreFresh == \A v \in Listed : record_updated[v]

\* Mutant: the rent-exempt reserve is counted as the pool's.
Mutant_Backed == reserve + Total(active) + Total(transient)

\* The lamports UpdateStakePoolBalance adds up.
Backed == reserve - minimum_reserve_lamports + Total(active) + Total(transient)

\* Mutant: the supply is read before the fee is minted.
Mutant_SupplyAfter(fee) == mint

\* pool_token_supply is read back from the mint, after the fee was minted.
SupplyAfter(fee) == mint + fee

\* The manager gets the epoch fee on the growth of the pool, unless the fee
\* account is not usable (fee_valid).
UpdateStakePoolBalance(epoch_fee, fee_valid) ==
    LET reward == saturating_sub(Backed, total_lamports)
        fee    == IF fee_valid
                  THEN calc_epoch_fee_amount(total_lamports, pool_token_supply, epoch_fee, reward)
                  ELSE 0
    IN  /\ RecordsAreFresh
        /\ Backed \in U64
        /\ mint + fee \in U64
        /\ mint' = mint + fee
        /\ pool_token_supply' = SupplyAfter(fee)
        /\ total_lamports' = Backed
        /\ pool_updated' = TRUE
        /\ UNCHANGED <<preferred, list, accounts, rewarding>>

\* A record is dropped when nothing is left; a preferred validator that is not
\* active is reset if the pool account is passed as writable.
CleanupRemovedValidatorEntries(writable) ==
    LET kept == {v \in Listed : ~(status[v] = "ReadyForRemoval" /\ active[v] = 0 /\ transient[v] = 0)}
        Keep(v) == IF writable /\ ~(v \in kept /\ status[v] = "Active") THEN NoValidator ELSE v
    IN  /\ status' = [v \in Validators |-> IF v \in kept THEN status[v] ELSE "Unlisted"]
        /\ preferred_deposit' = Keep(preferred_deposit)
        /\ preferred_withdraw' = Keep(preferred_withdraw)
        /\ record_updated' = [v \in Validators |-> v \in kept /\ record_updated[v]]
        /\ UNCHANGED <<pool, active, transient, accounts, mint, rewarding>>

-----------------------------------------------------------------------------
(***************************************************************************)
(* The users' instructions.  A bound on slippage only refuses, and how the *)
(* tokens of a deposit are shared between user, manager and referrer does  *)
(* not matter here, except that the user must get some.                    *)
(***************************************************************************)
TokensFor(lamports) ==
    calc_pool_tokens_for_deposit(total_lamports, pool_token_supply, lamports)

MintTokens(new, lamports) ==
    /\ mint + new \in U64
    /\ mint' = mint + new
    /\ pool_token_supply + new \in U64
    /\ pool_token_supply' = pool_token_supply + new
    /\ total_lamports + lamports \in U64
    /\ total_lamports' = total_lamports + lamports
    /\ UNCHANGED pool_updated

DepositSol(lamports, sol_deposit_fee) ==
    LET new == TokensFor(lamports)
    IN  /\ Room(lamports)
        /\ pool_updated
        /\ new - apply(sol_deposit_fee, new) > 0
        /\ reserve + lamports \in U64
        /\ reserve' = reserve + lamports
        /\ MintTokens(new, lamports)
        /\ UNCHANGED <<preferred, list, vstake, tstake, rewarding>>

\* The lamports of the deposited account that the merge does not delegate go to
\* the reserve.
DepositStake(v, user, stake_deposit_fee, sol_deposit_fee) ==
    LET merged     == Merged(vstake[v], user)
        sol        == user.lamports - MergedStake(vstake[v], user)
        new        == TokensFor(user.lamports)
        from_stake == TokensFor(MergedStake(vstake[v], user))
        total_fee  == apply(stake_deposit_fee, from_stake)
                          + apply(sol_deposit_fee, new - from_stake)
    IN  /\ Room(user.lamports)
        /\ pool_updated
        /\ vstake[v].state = "stake"
        /\ preferred_deposit \in {NoValidator, v}
        /\ status[v] = "Active"
        /\ CanMerge(vstake[v], user)
        /\ sol >= 0
        /\ new >= from_stake
        /\ new - total_fee > 0
        /\ Withdrawable(merged) >= sol
        /\ reserve + sol \in U64
        /\ reserve' = reserve + sol
        /\ vstake' = [vstake EXCEPT ![v] = WithLamports(merged, merged.lamports - sol)]
        /\ active' = [active EXCEPT ![v] = merged.lamports - sol]
        /\ MintTokens(new, user.lamports)
        /\ UNCHANGED <<preferred, status, transient, record_updated, tstake, rewarding>>

LamportsFor(pool_tokens) ==
    calc_lamports_withdraw_amount(total_lamports, pool_token_supply, pool_tokens)

\* The tokens left to burn; no fee when the manager's own account pays, or when
\* that account is not usable.
Burnt(pool_tokens, fee, fee_exempt) ==
    IF fee_exempt THEN pool_tokens ELSE pool_tokens - apply(fee, pool_tokens)

BurnTokens(burnt, lamports) ==
    /\ mint' = mint - burnt
    /\ pool_token_supply >= burnt
    /\ pool_token_supply' = pool_token_supply - burnt
    /\ total_lamports >= lamports
    /\ total_lamports' = total_lamports - lamports
    /\ UNCHANGED pool_updated

\* Mutant: the rent-exempt reserve may be withdrawn too.
Mutant_ReserveKeepsMinimum(lamports) == lamports <= reserve

ReserveKeepsMinimum(lamports) ==
    saturating_sub(reserve, lamports) >= minimum_reserve_lamports

WithdrawSol(pool_tokens, sol_withdrawal_fee, fee_exempt) ==
    LET burnt    == Burnt(pool_tokens, sol_withdrawal_fee, fee_exempt)
        lamports == LamportsFor(burnt)
    IN  /\ pool_updated
        /\ pool_tokens <= mint
        /\ lamports # 0
        /\ ReserveKeepsMinimum(lamports)
        /\ reserve' = reserve - lamports
        /\ BurnTokens(burnt, lamports)
        /\ UNCHANGED <<preferred, list, vstake, tstake, rewarding>>

\* get_lamports_per_pool_token returns Some.
PricePerTokenDefined ==
    pool_token_supply # 0 /\ total_lamports + pool_token_supply \in U64

\* The least record that counts as withdrawable, and the records above it.
MinimumWithTolerance ==
    minimum_stake_lamports + get_lamports_per_pool_token(total_lamports, pool_token_supply)
HasActiveStake ==
    \E v \in Validators : status[v] = "Active" /\ active[v] > MinimumWithTolerance
HasTransientStake ==
    \E v \in Validators : status[v] = "Active" /\ transient[v] > MinimumWithTolerance

WithdrawStakeFromReserve(pool_tokens, stake_withdrawal_fee, fee_exempt) ==
    LET burnt    == Burnt(pool_tokens, stake_withdrawal_fee, fee_exempt)
        lamports == LamportsFor(burnt)
    IN  /\ pool_updated
        /\ pool_tokens <= mint
        /\ lamports # 0
        /\ PricePerTokenDefined
        /\ ~HasActiveStake /\ ~HasTransientStake
        /\ ReserveKeepsMinimum(lamports)
        /\ reserve' = reserve - lamports
        /\ BurnTokens(burnt, lamports)
        /\ UNCHANGED <<preferred, list, vstake, tstake, rewarding>>

\* A preferred withdraw validator that still has stake to give comes first.
PreferredAllows(v) ==
    preferred_withdraw \in Listed \ {v} => active[preferred_withdraw] <= MinimumWithTolerance

\* From an account that stays in use.
WithdrawPart(a, lamports) ==
    /\ saturating_sub(a.lamports, lamports) >= minimum_stake_lamports
    /\ CanSplit(a, lamports, RentExempt)

WithdrawActive(v, lamports) ==
    /\ HasActiveStake
    /\ vstake[v].state = "stake"
    /\ status[v] = "Active"
    /\ WithdrawPart(vstake[v], lamports)
    /\ active[v] >= lamports
    /\ vstake' = [vstake EXCEPT ![v] = AfterSplit(vstake[v], lamports)]
    /\ active' = [active EXCEPT ![v] = active[v] - lamports]
    /\ UNCHANGED <<status, transient, tstake, preferred>>

\* Mutant: the record keeps the lamports.
Mutant_WithdrawTransient(v, lamports) ==
    /\ ~HasActiveStake /\ (HasTransientStake \/ transient[v] # 0)
    /\ tstake[v].state = "stake" /\ status[v] = "Active"
    /\ WithdrawPart(tstake[v], lamports)
    /\ tstake' = [tstake EXCEPT ![v] = AfterSplit(tstake[v], lamports)]
    /\ UNCHANGED <<status, active, transient, vstake, preferred>>

WithdrawTransient(v, lamports) ==
    /\ ~HasActiveStake /\ (HasTransientStake \/ transient[v] # 0)
    /\ tstake[v].state = "stake"
    /\ status[v] = "Active"
    /\ WithdrawPart(tstake[v], lamports)
    /\ transient[v] >= lamports
    /\ tstake' = [tstake EXCEPT ![v] = AfterSplit(tstake[v], lamports)]
    /\ transient' = [transient EXCEPT ![v] = transient[v] - lamports]
    /\ UNCHANGED <<status, active, vstake, preferred>>

\* The whole account, for tokens worth at most one token more than it holds;
\* worth is what the tokens are worth.
WithdrawWhole(v, worth) ==
    LET lamports == vstake[v].lamports
    IN  /\ ~HasActiveStake /\ ~HasTransientStake /\ transient[v] = 0
        /\ vstake[v].state = "stake"
        /\ status[v] = "Active"
        /\ worth >= lamports
        /\ worth <= lamports + get_lamports_per_pool_token(total_lamports, pool_token_supply)
        /\ CanSplit(vstake[v], lamports, RentExempt)
        /\ active[v] = lamports
        /\ vstake' = [vstake EXCEPT ![v] = NoAccount]
        /\ active' = [active EXCEPT ![v] = 0]
        /\ status' = [status EXCEPT ![v] = "ReadyForRemoval"]
        /\ ClearPreferred(v)
        /\ UNCHANGED <<transient, tstake>>

WithdrawStake(v, pool_tokens, stake_withdrawal_fee, fee_exempt) ==
    LET burnt == Burnt(pool_tokens, stake_withdrawal_fee, fee_exempt)
        worth == LamportsFor(burnt)
    IN  /\ pool_updated
        /\ pool_tokens <= mint
        /\ worth # 0
        /\ PricePerTokenDefined
        /\ PreferredAllows(v)
        /\ \/ WithdrawActive(v, worth) /\ BurnTokens(burnt, worth)
           \/ WithdrawTransient(v, worth) /\ BurnTokens(burnt, worth)
           \/ WithdrawWhole(v, worth) /\ BurnTokens(burnt, vstake[v].lamports)
        /\ UNCHANGED <<record_updated, reserve, rewarding>>

-----------------------------------------------------------------------------
(***************************************************************************)
(* What happens around the pool.                                           *)
(***************************************************************************)
\* A new epoch.  Its rewards are paid out over its first blocks.
AdvanceEpoch ==
    /\ pool_updated' = FALSE
    /\ record_updated' = [v \in Validators |-> FALSE]
    /\ vstake' = [v \in Validators |-> Age(vstake[v])]
    /\ tstake' = [v \in Validators |-> Age(tstake[v])]
    /\ rewarding' \in BOOLEAN
    /\ UNCHANGED <<total_lamports, pool_token_supply, preferred, status, active, transient,
                   reserve, mint>>

\* An account that was delegated before this epoch may get a reward, which is
\* delegated at once.
Rewardable(a) == a.state = "stake" /\ a.activation = "past"
Rewarded(a, lamports) ==
    Stake(a.lamports + lamports, a.stake + lamports, a.activation, a.deactivation)

PayReward(lamports) ==
    /\ rewarding
    /\ Room(lamports)
    /\ \E v \in Validators :
           \/ /\ Rewardable(vstake[v]) /\ vstake[v].lamports + lamports \in U64
              /\ vstake' = [vstake EXCEPT ![v] = Rewarded(vstake[v], lamports)]
              /\ UNCHANGED tstake
           \/ /\ Rewardable(tstake[v]) /\ tstake[v].lamports + lamports \in U64
              /\ tstake' = [tstake EXCEPT ![v] = Rewarded(tstake[v], lamports)]
              /\ UNCHANGED vstake
    /\ UNCHANGED <<pool, preferred, list, reserve, mint, rewarding>>

EndRewards ==
    /\ rewarding
    /\ rewarding' = FALSE
    /\ UNCHANGED <<pool, preferred, list, accounts, mint>>

\* Anyone may send lamports to an account.
Gift(a, lamports) == a.state # "none" /\ a.lamports + lamports \in U64

Donate(lamports) ==
    /\ Room(lamports)
    /\ \/ /\ reserve + lamports \in U64
          /\ reserve' = reserve + lamports
          /\ UNCHANGED <<vstake, tstake>>
       \/ \E v \in Validators :
              /\ Gift(vstake[v], lamports)
              /\ vstake' = [vstake EXCEPT ![v] = WithLamports(vstake[v], vstake[v].lamports + lamports)]
              /\ UNCHANGED <<reserve, tstake>>
       \/ \E v \in Validators :
              /\ Gift(tstake[v], lamports)
              /\ tstake' = [tstake EXCEPT ![v] = WithLamports(tstake[v], tstake[v].lamports + lamports)]
              /\ UNCHANGED <<reserve, vstake>>
    /\ UNCHANGED <<pool, preferred, list, mint, rewarding>>

\* A holder burns pool tokens with the token program.
DestroyTokens(pool_tokens) ==
    /\ pool_tokens <= mint
    /\ mint' = mint - pool_tokens
    /\ UNCHANGED <<pool, preferred, list, accounts, rewarding>>

\* A cluster restart takes the delegation of a stake account away.
ForceDestake(v) ==
    /\ \/ /\ vstake[v].state = "stake"
          /\ vstake' = [vstake EXCEPT ![v] = Initialized(vstake[v].lamports)]
          /\ UNCHANGED tstake
       \/ /\ tstake[v].state = "stake"
          /\ tstake' = [tstake EXCEPT ![v] = Initialized(tstake[v].lamports)]
          /\ UNCHANGED vstake
    /\ UNCHANGED <<pool, preferred, list, reserve, mint, rewarding>>

\* Anyone may deactivate the stake of a validator that does not vote.
DeactivateDelinquent(v) ==
    /\ \/ /\ FullyActive(vstake[v])
          /\ vstake' = [vstake EXCEPT ![v] = Deactivated(vstake[v])]
          /\ UNCHANGED tstake
       \/ /\ FullyActive(tstake[v])
          /\ tstake' = [tstake EXCEPT ![v] = Deactivated(tstake[v])]
          /\ UNCHANGED vstake
    /\ UNCHANGED <<pool, preferred, list, reserve, mint, rewarding>>

-----------------------------------------------------------------------------
Staker ==
    \/ \E v \in Validators :
           \/ AddValidatorToPool(v)
           \/ RemoveValidatorFromPool(v)
           \/ \E lamports \in StakeAmounts :
                  \/ \E additional \in BOOLEAN : IncreaseValidatorStake(v, lamports, additional)
                  \/ \E kind \in DecreaseKinds : DecreaseValidatorStake(v, lamports, kind)
    \/ \E v \in Preferable \cup {NoValidator} : SetPreferredDeposit(v) \/ SetPreferredWithdraw(v)

Updates ==
    \/ \E v \in Validators, no_merge \in BOOLEAN : UpdateValidatorListBalance(v, no_merge)
    \/ \E fee \in PoolFees, fee_valid \in BOOLEAN : UpdateStakePoolBalance(fee, fee_valid)
    \/ \E writable \in BOOLEAN : CleanupRemovedValidatorEntries(writable)

Users ==
    \E fee \in PoolFees :
        \/ \E lamports \in DepositAmounts : DepositSol(lamports, fee)
        \/ \E v \in Validators, user \in UserStakes, sol_fee \in PoolFees :
               DepositStake(v, user, fee, sol_fee)
        \/ \E pool_tokens \in WithdrawAmounts, fee_exempt \in BOOLEAN :
               \/ WithdrawSol(pool_tokens, fee, fee_exempt)
               \/ WithdrawStakeFromReserve(pool_tokens, fee, fee_exempt)
               \/ \E v \in Validators : WithdrawStake(v, pool_tokens, fee, fee_exempt)

Environment ==
    \/ AdvanceEpoch
    \/ \E lamports \in Rewards : PayReward(lamports)
    \/ EndRewards
    \/ \E lamports \in Donations : Donate(lamports)
    \/ \E pool_tokens \in Burns : DestroyTokens(pool_tokens)
    \/ \E v \in Destakable : ForceDestake(v)
    \/ \E v \in Delinquents : DeactivateDelinquent(v)

Next == Staker \/ Updates \/ Users \/ Environment

Spec == Init /\ [][Next]_vars

(***************************************************************************)
(* Epochs end and rewards get paid out.  Somebody runs the update of every *)
(* client (UpdateValidatorListBalance for each record, then the cleanup)   *)
(* again and again.  A record can be updated only outside the distribution *)
(* of rewards, so its update is not enabled all the time: strong fairness. *)
(***************************************************************************)
Fairness ==
    /\ WF_vars(AdvanceEpoch)
    /\ WF_vars(EndRewards)
    /\ \A v \in Validators : SF_vars(UpdateValidatorListBalance(v, FALSE))
    /\ WF_vars(CleanupRemovedValidatorEntries(TRUE))

FairSpec == Spec /\ Fairness

-----------------------------------------------------------------------------
(***************************************************************************)
(* Properties.                                                             *)
(***************************************************************************)
\* The fields of the accounts are 64-bit numbers and known tags, and the
\* reserve stays rent exempt, so that UpdateStakePoolBalance's
\* checked_sub(minimum_reserve_lamports) does not fail.
TypeOK ==
    /\ total_lamports \in U64 /\ pool_token_supply \in U64 /\ mint \in U64
    /\ preferred_deposit \in Validators \cup {NoValidator}
    /\ preferred_withdraw \in Validators \cup {NoValidator}
    /\ pool_updated \in BOOLEAN /\ rewarding \in BOOLEAN
    /\ status \in [Validators -> Statuses]
    /\ active \in [Validators -> U64] /\ transient \in [Validators -> U64]
    /\ record_updated \in [Validators -> BOOLEAN]
    /\ reserve \in RentExempt..MaxU64
    /\ vstake \in [Validators -> Account] /\ tstake \in [Validators -> Account]

\* A record of the validator list never claims more lamports than the stake
\* account it stands for holds.
RecordsCovered ==
    \A v \in Validators :
        active[v] <= vstake[v].lamports /\ transient[v] <= tstake[v].lamports

\* The reserve above its rent and the records.
Backing == reserve - RentExempt + Total(active) + Total(transient)

\* At any moment, also between the updates of an epoch, the lamports the pool
\* tokens are priced with are covered by the reserve and the records: an update
\* never finds less than total_lamports.
Solvent == total_lamports <= Backing

\* pool_token_supply is never below the supply of the mint, so the price in
\* use is never above the one the mint gives.
SupplyCoversMint == mint <= pool_token_supply

\* A pool that is up to date was priced with records of this epoch only.
PricedOnFreshRecords ==
    pool_updated => \A v \in Listed : record_updated[v]

\* While the rewards of an epoch are still being paid, no pool is up to date
\* that has stake left to reward: UpdateValidatorListBalance waits for the end
\* of the distribution, so nobody deposits at a price without the rewards.
RewardsPricedIn ==
    pool_updated /\ rewarding =>
        \A v \in Validators : ~Rewardable(vstake[v]) /\ ~Rewardable(tstake[v])

\* A stake account exists as long as, and only if, the list still knows of it:
\* the status tells which accounts are gone, and a transient stake that is not
\* recorded does not exist.  So no record is dropped before its stake is back.
NothingLeftBehind ==
    \A v \in Validators :
        /\ status[v] \in {"Unlisted", "ReadyForRemoval", "DeactivatingTransient"}
               => vstake[v].state = "none"
        /\ status[v] \in {"Unlisted", "ReadyForRemoval", "DeactivatingValidator"}
               => tstake[v].state = "none"
        /\ status[v] \in {"Active", "DeactivatingValidator", "DeactivatingAll"}
               => vstake[v].state # "none"
        /\ transient[v] = 0 <=> tstake[v].state = "none"

\* RemoveValidatorFromPool leaves no preference for a validator it starts to
\* deactivate, which would block stake deposits: only a validator that was
\* destaked by others can be preferred without being active.
PreferredNotRemoved ==
    \A v \in {preferred_deposit, preferred_withdraw} \cap Validators :
        status[v] \notin {"DeactivatingValidator", "DeactivatingAll"}

\* An update that does not merge is never refused: the records can be brought
\* up to date whatever others did to the stake accounts.
UpdateNeverStuck ==
    \A v \in Listed : ~rewarding => ENABLED UpdateValidatorListBalance(v, TRUE)

\* A validator that is removed, or destaked, leaves the list in the end: its
\* stake cools down, the updates bring it to the reserve and the cleanup drops
\* the record.
RemovalCompletes ==
    \A v \in Validators :
        status[v] \notin {"Active", "Unlisted"} ~> status[v] = "Unlisted"

\* No instruction and no event lowers what a pool token is worth.
PriceNeverFalls ==
    [][pool_token_supply > 0 /\ pool_token_supply' > 0 =>
           total_lamports' * pool_token_supply >= total_lamports * pool_token_supply']_vars

\* Lamports leave the accounts of the pool only against burnt pool tokens, and
\* no more of them than those tokens are worth: splits, merges, updates and
\* removals lose nothing.
LamportsPaidFor ==
    [][Holdings' < Holdings =>
           (Holdings - Holdings') * pool_token_supply <= (mint - mint') * total_lamports]_vars

-----------------------------------------------------------------------------
(***************************************************************************)
(* What the documentation says and the program does not do.                *)
(***************************************************************************)
\* state.rs says of pool_token_supply that it should always match the supply
\* of the mint; a holder who burns tokens with the token program makes them
\* differ until the next UpdateStakePoolBalance.
SupplyMatchesMint == pool_token_supply = mint

\* instruction.rs says that DecreaseAdditionalValidatorStake works whether or
\* not the transient stake account exists.  The stake program does not merge two
\* stakes that are deactivating, so once the validator stake is fully active a
\* second decrease in an epoch is refused.
DecreaseAgainWorks ==
    \A v \in Validators, lamports \in StakeAmounts :
        /\ pool_updated /\ status[v] = "Active"
        /\ FullyActive(vstake[v]) /\ Deactivating(tstake[v])
        /\ lamports >= minimum_delegation /\ active[v] >= lamports
        /\ vstake[v].stake - lamports >= minimum_delegation
        /\ reserve >= 2 * RentExempt
        => ENABLED DecreaseValidatorStake(v, lamports, "additional")

\* A comment of UpdateValidatorListBalance says that a transient stake that is
\* deactivating is only accounted for.  When it was split off an earlier stake,
\* the handler tries to merge it with the validator stake, and the stake program
\* refuses: in that epoch only an update without merges succeeds.
DeactivatingOnlyCounted ==
    \A v \in Validators :
        /\ ~rewarding /\ status[v] = "Active" /\ transient[v] # 0
        /\ FullyActive(vstake[v]) /\ Deactivating(tstake[v])
        => ENABLED UpdateValidatorListBalance(v, FALSE)
=============================================================================
