---------------------------- MODULE DepositClient --------------------------
(***************************************************************************)
(* The commands deposit-sol, deposit-stake, deposit-all-stake and          *)
(* withdraw-sol of the command-line client, run by one user on the pool of *)
(* StakePool.  deposit-all-stake lists the user's stake accounts and       *)
(* deposits them one by one, each in a transaction of its own, in the      *)
(* order of a hash set; its first error ends it.  A user whose connection  *)
(* is lost tries again, and the transaction of the first attempt may still *)
(* land.  A transaction is atomic: the transfer to the ephemeral account,  *)
(* the new token account, the change of the stake authorities and the      *)
(* deposit all happen or none of them does.                                *)
(***************************************************************************)
EXTENDS StakePool

CONSTANTS
    Accounts,       \* stake accounts of the user
    AccountOf,      \* for each: its vote account and its stake account
    Wallet,         \* lamports of the user
    Asked,          \* amounts of deposit-sol and withdraw-sol
    Validating,     \* the stake of the validators at the start
    Removable,      \* validators the staker may remove
    MaxFaults       \* bound: lost connections

\* What the constants have to be.
DepositAssumption ==
    /\ IsFiniteSet(Accounts)
    /\ AccountOf \in [Accounts -> [vote : Validators \cup {NoValidator}, stake : UserStakes]]
    /\ Wallet \in U64 /\ Asked \subseteq U64 \ {0} /\ MaxFaults \in Nat
    /\ Removable \subseteq Validators

VARIABLES
    theirs,         \* stake accounts the user still has
    credits,        \* how often each account was paid for
    wallet, tokens, \* lamports and pool tokens of the user
    token_account,  \* whether the user has an account for pool tokens
    pc, todo,       \* the command, and the stake accounts it still has to deposit
    wanted,         \* the stake accounts it had to deposit when it began
    listed,         \* the validators of the list as the command read it
    tx,             \* the transaction it waits for
    loose,          \* transactions that may still land
    faults

user == <<theirs, credits, wallet, tokens, token_account>>
command == <<pc, todo, wanted, listed, tx>>
all == <<vars, user, command, loose, faults>>

NoFee == [numerator |-> 0, denominator |-> 0]
NoTx == [kind |-> "none"]

DepositInit ==
    /\ reserve = RentExempt + 1
    /\ vstake = [v \in Validators |-> Validating]
    /\ tstake = [v \in Validators |-> NoAccount]
    /\ active = [v \in Validators |-> Validating.lamports]
    /\ transient = [v \in Validators |-> 0]
    /\ status = [v \in Validators |-> "Active"]
    /\ total_lamports = 1 + Total(active)
    /\ pool_token_supply = total_lamports /\ mint = total_lamports
    /\ preferred_deposit = NoValidator /\ preferred_withdraw = NoValidator
    /\ pool_updated = TRUE /\ rewarding = FALSE
    /\ record_updated = [v \in Validators |-> TRUE]
    /\ theirs = Accounts /\ credits = [a \in Accounts |-> 0]
    /\ wallet = Wallet /\ tokens = 0 /\ token_account = FALSE
    /\ pc = "idle" /\ todo = {} /\ wanted = {} /\ listed = {} /\ tx = NoTx /\ loose = {} /\ faults = 0

-----------------------------------------------------------------------------
(***************************************************************************)
(* The transactions.                                                       *)
(***************************************************************************)
\* add_associated_token_account: an account is created where none was seen.
TokenAccountFor(t) ==
    /\ t.creates = ~token_account
    /\ token_account' = TRUE

\* Mutant: the tokens are paid out, and the account stays with the user.
Mutant_ExecuteStake(t) ==
    /\ t.account \in theirs
    /\ TokenAccountFor(t)
    /\ DepositStake(t.vote, AccountOf[t.account].stake, NoFee, NoFee)
    /\ tokens' = tokens + (mint' - mint)
    /\ credits' = [credits EXCEPT ![t.account] = credits[t.account] + 1]
    /\ UNCHANGED <<theirs, wallet>>

\* deposit_stake: both authorities to the pool, then the deposit.
ExecuteStake(t) ==
    /\ t.account \in theirs
    /\ TokenAccountFor(t)
    /\ DepositStake(t.vote, AccountOf[t.account].stake, NoFee, NoFee)
    /\ tokens' = tokens + (mint' - mint)
    /\ credits' = [credits EXCEPT ![t.account] = credits[t.account] + 1]
    /\ theirs' = theirs \ {t.account}
    /\ UNCHANGED wallet

\* deposit_sol: to the ephemeral account, and from there to the reserve.
ExecuteSol(t) ==
    /\ wallet >= t.lamports
    /\ TokenAccountFor(t)
    /\ DepositSol(t.lamports, NoFee)
    /\ wallet' = wallet - t.lamports
    /\ tokens' = tokens + (mint' - mint)
    /\ UNCHANGED <<theirs, credits>>

ExecuteWithdraw(t) ==
    /\ tokens >= t.tokens
    /\ WithdrawSol(t.tokens, NoFee, FALSE)
    /\ wallet' = wallet + (reserve - reserve')
    /\ tokens' = tokens - t.tokens
    /\ UNCHANGED <<theirs, credits, token_account>>

ExecuteTokenAccount(t) ==
    /\ TokenAccountFor(t)
    /\ UNCHANGED <<vars, theirs, credits, wallet, tokens>>

Execute(t) ==
    \/ t.kind = "stake" /\ ExecuteStake(t)
    \/ t.kind = "sol" /\ ExecuteSol(t)
    \/ t.kind = "withdraw" /\ ExecuteWithdraw(t)
    \/ t.kind = "token account" /\ ExecuteTokenAccount(t)

-----------------------------------------------------------------------------
(***************************************************************************)
(* The commands.                                                           *)
(***************************************************************************)
Return(result) == pc' = result /\ todo' = {} /\ wanted' = {} /\ listed' = {} /\ tx' = NoTx

Send(t) == pc' = "waiting" /\ tx' = t /\ UNCHANGED <<todo, wanted, listed>>

Ready == pc \in {"idle", "ok", "error"}

command_deposit_sol(lamports) ==
    /\ Ready
    /\ IF wallet < lamports THEN Return("error")
       ELSE Send([kind |-> "sol", lamports |-> lamports, creates |-> ~token_account])
    /\ UNCHANGED <<vars, user, loose, faults>>

command_withdraw_sol(pool_amount) ==
    /\ Ready
    /\ IF ~token_account \/ tokens < pool_amount THEN Return("error")
       ELSE Send([kind |-> "withdraw", tokens |-> pool_amount])
    /\ UNCHANGED <<vars, user, loose, faults>>

command_deposit_stake(account) ==
    /\ Ready
    /\ pc' = "read list" /\ todo' = {account} /\ wanted' = {account}
    /\ UNCHANGED <<vars, user, listed, tx, loose, faults>>

\* Every account with this staker, whatever its state.
get_all_stake == theirs

command_deposit_all_stake ==
    /\ Ready
    /\ todo' = get_all_stake /\ wanted' = get_all_stake
    /\ IF token_account THEN pc' = "read list" /\ UNCHANGED tx
       ELSE pc' = "waiting" /\ tx' = [kind |-> "token account", creates |-> TRUE]
    /\ UNCHANGED <<vars, user, listed, loose, faults>>

ReadList ==
    /\ pc = "read list"
    /\ pc' = "next"
    /\ listed' = Listed
    /\ UNCHANGED <<vars, user, todo, wanted, tx, loose, faults>>

\* The account is there, is delegated, and to a validator of the pool.
Depositable(a) ==
    /\ a \in theirs
    /\ AccountOf[a].stake.state = "stake"
    /\ AccountOf[a].vote \in listed
    /\ vstake[AccountOf[a].vote].state = "stake"

DepositTransaction(a) ==
    [kind |-> "stake", account |-> a, vote |-> AccountOf[a].vote, creates |-> ~token_account]

DepositNextStake(a) ==
    /\ pc = "next"
    /\ a \in todo
    /\ IF Depositable(a)
       THEN /\ todo' = todo \ {a}
            /\ pc' = "waiting"
            /\ tx' = DepositTransaction(a)
            /\ UNCHANGED <<wanted, listed>>
       ELSE Return("error")
    /\ UNCHANGED <<vars, user, loose, faults>>

NoMoreStake ==
    /\ pc = "next" /\ todo = {}
    /\ Return("ok")
    /\ UNCHANGED <<vars, user, loose, faults>>

\* What the command does with the answer it waits for.
Answered(landed) ==
    \/ ~landed /\ Return("error")
    \/ landed /\ tx.kind \in {"sol", "withdraw"} /\ Return("ok")
    \/ /\ landed
       /\ \/ tx.kind = "token account" /\ pc' = "read list"
          \/ tx.kind = "stake" /\ pc' = "next"
       /\ tx' = NoTx
       /\ UNCHANGED <<todo, wanted, listed>>

Land ==
    /\ pc = "waiting"
    /\ Execute(tx)
    /\ Answered(TRUE)
    /\ UNCHANGED <<loose, faults>>

Fail ==
    /\ pc = "waiting"
    /\ ~ENABLED Execute(tx)
    /\ Answered(FALSE)
    /\ UNCHANGED <<vars, user, loose, faults>>

Disconnect ==
    /\ pc = "waiting" /\ faults < MaxFaults
    /\ faults' = faults + 1
    /\ loose' = loose \cup {tx}
    /\ Return("error")
    /\ UNCHANGED <<vars, user>>

LandLate ==
    /\ \E t \in loose : Execute(t) /\ loose' = loose \ {t}
    /\ UNCHANGED <<command, faults>>

Lose ==
    /\ \E t \in loose : loose' = loose \ {t}
    /\ UNCHANGED <<vars, user, command, faults>>

\* The staker removes a validator.
StakerRemoves ==
    /\ \E v \in Removable : RemoveValidatorFromPool(v)
    /\ UNCHANGED <<user, command, loose, faults>>

DepositNext ==
    \/ \E n \in Asked : command_deposit_sol(n) \/ command_withdraw_sol(n)
    \/ \E a \in Accounts : command_deposit_stake(a)
    \/ command_deposit_all_stake
    \/ ReadList \/ NoMoreStake \/ \E a \in Accounts : DepositNextStake(a)
    \/ Land \/ Fail \/ Disconnect \/ LandLate \/ Lose
    \/ StakerRemoves

DepositSpec == DepositInit /\ [][DepositNext]_all

-----------------------------------------------------------------------------
DepositTypeOK ==
    /\ TypeOK
    /\ theirs \subseteq Accounts /\ credits \in [Accounts -> Nat]
    /\ wallet \in Nat /\ tokens \in Nat /\ token_account \in BOOLEAN
    /\ pc \in {"idle", "read list", "next", "waiting", "ok", "error"}
    /\ todo \subseteq wanted /\ wanted \subseteq Accounts /\ listed \subseteq Validators
    /\ faults \in 0..MaxFaults

\* A stake account leaves the user when the pool pays for it, and it is paid
\* for once, however often deposit-stake and deposit-all-stake are repeated
\* and whichever of their transactions lands late.
PaidForOnce ==
    \A a \in Accounts : credits[a] = IF a \in theirs THEN 0 ELSE 1

\* The lamports of the stake accounts in S.
LamportsOf(S) ==
    LET sum[T \in SUBSET Accounts] ==
            IF T = {} THEN 0
            ELSE LET a == CHOOSE a \in T : TRUE IN AccountOf[a].stake.lamports + sum[T \ {a}]
    IN  sum[S]

\* No lamport of the user or the pool is lost or left in an account that serves
\* a transfer only, and every pool token is the user's or was there before
\* (the ephemeral account of command_deposit_sol, the extra lamports of a
\* deposited stake account).
NothingStranded ==
    /\ wallet + LamportsOf(theirs) + Holdings
           = Wallet + LamportsOf(Accounts) + RentExempt + 1
                 + Total([v \in Validators |-> Validating.lamports])
    /\ mint = tokens + 1 + Total([v \in Validators |-> Validating.lamports])

\* deposit-stake and deposit-all-stake return Ok only when none of the stake
\* accounts they began with is left (the first error ends the loop of
\* command_deposit_all_stake).
OkMeansDeposited ==
    [][pc = "next" /\ pc' = "ok" => wanted \cap theirs = {}]_all
=============================================================================
