----------------------------- MODULE MCCommands ----------------------------
(***************************************************************************)
(* The commands of the clients for TLC.  A process of the command-line     *)
(* client runs one subcommand, and the bot is a process of its own: a      *)
(* behaviour is one of the specifications of CreatePool, UpdateClient,     *)
(* AdminClient, DepositClient, WithdrawClient or RebalanceBot, with the    *)
(* variables of the others at rest.                                        *)
(***************************************************************************)
EXTENDS Integers, FiniteSets

CONSTANTS
    Subcommands,     \* those that are run
    \* Names.
    res1, res2, m1, m2, p1, p2, l1, l2, k1, k2, lost, f1, f2, u1, u2, u3, g1, g2, v1, v2, acc1, acc2, acc3,
    Reserve, Anywhere, NoKey, Unset, NoValidator,
    \* CreatePool
    ReserveKeys, MintKeys, PoolKeys, ListKeys, Attempts, InitialStates, InitialPoolStates,
    MAX_VALIDATORS_IN_POOL, MaxMade, MaxAttempts, MaxFaults, MaxGifts,
    \* UpdateClient
    Votes, UpdateFeeAccounts, MAX_VALIDATORS_TO_UPDATE, Options, MaxLen, MaxEpoch, MaxChanges, MaxLoose,
    \* AdminClient
    Keys, Lost, FeeAccounts, Names, Operators, Commands, MaxCommands,
    \* DepositClient and WithdrawClient
    Accounts, AccountOf, Wallet, Asked, Validating, Removable,
    ListOrder, Requests, ActiveLamports, TransientLamports, Reserves, HeldByOthers, Prices, MaxOthers,
    \* RebalanceBot
    Settings, Elsewhere, Starts, MINIMUM_DELEGATION, MaxEpochs, MaxFailures, BotDeposits, BotWithdrawals,
    \* StakePool
    MaxU64, BaselineDenominator, RentExempt, StakeMinimumDelegation, MINIMUM_ACTIVE_STAKE,
    Validators, MaxValidators, UserStakes, PoolFees, DepositAmounts, StakeAmounts, Preferable, MaxSol

VARIABLES
    subcommand,
    \* CreatePool
    c_reserve, c_mint, fee_account, pool, c_list, c_pc, attempt, c_tx, c_loose, attempts, c_faults, gifts,
    \* UpdateClient
    epoch, u_rewarding, u_list, last_update_epoch, u_fee_account, u_pc, option, u_seen, u_todo, u_loose,
    began, changes,
    \* AdminClient
    manager, staker, manager_fee_account, stake_deposit_authority, sol_deposit_authority,
    sol_withdraw_authority, usable, metadata, a_pc, command, read, a_tx, flight, started, number,
    \* StakePool
    total_lamports, pool_token_supply, preferred_deposit, preferred_withdraw, pool_updated, status,
    active, transient, record_updated, reserve, vstake, tstake, mint, rewarding,
    \* DepositClient
    theirs, credits, wallet, d_tokens, token_account, d_pc, d_todo, wanted, listed, d_tx, d_loose, d_faults,
    \* WithdrawClient
    w_pc, request, w_seen, plan, saved, w_tokens, fee, others,
    \* RebalanceBot
    b_epoch, b_update_epoch, late, setting, b_pc, caller, rebalanced, b_read, no_merge, b_todo, b_seen, b_plan,
    b_loose, quiet, failures, b_others

NoAmounts == {}

Create == INSTANCE CreatePool WITH
    reserve <- c_reserve, mint <- c_mint, list <- c_list, pc <- c_pc, tx <- c_tx, loose <- c_loose,
    faults <- c_faults

Update == INSTANCE UpdateClient WITH
    FeeAccounts <- UpdateFeeAccounts,
    rewarding <- u_rewarding, list <- u_list, manager_fee_account <- u_fee_account, pc <- u_pc,
    seen <- u_seen, todo <- u_todo, loose <- u_loose

Admin == INSTANCE AdminClient WITH pc <- a_pc, tx <- a_tx

Program == INSTANCE StakeProgram

Deposit == INSTANCE DepositClient WITH
    InitialReserves <- NoAmounts, WithdrawAmounts <- NoAmounts, Rewards <- NoAmounts, Donations <- NoAmounts,
    Burns <- NoAmounts, Destakable <- NoAmounts, Delinquents <- NoAmounts,
    tokens <- d_tokens, pc <- d_pc, todo <- d_todo, tx <- d_tx, loose <- d_loose, faults <- d_faults

Withdraw == INSTANCE WithdrawClient WITH
    InitialReserves <- NoAmounts, WithdrawAmounts <- NoAmounts, Rewards <- NoAmounts, Donations <- NoAmounts,
    Burns <- NoAmounts, Destakable <- NoAmounts, Delinquents <- NoAmounts,
    pc <- w_pc, seen <- w_seen, tokens <- w_tokens

Bot == INSTANCE RebalanceBot WITH
    BotOrder <- ListOrder, DepositAmounts <- BotDeposits, WithdrawAmounts <- BotWithdrawals,
    InitialReserves <- NoAmounts, Rewards <- NoAmounts, Donations <- NoAmounts, Burns <- NoAmounts,
    Destakable <- NoAmounts, Delinquents <- NoAmounts,
    epoch <- b_epoch, last_update_epoch <- b_update_epoch, pc <- b_pc, read <- b_read, todo <- b_todo,
    seen <- b_seen, plan <- b_plan, loose <- b_loose, others <- b_others

ASSUME CommandsAssumption ==
    /\ Create!CreateAssumption
    /\ Update!UpdateAssumption
    /\ Admin!AuthoritiesAssumption /\ Admin!AdminAssumption
    /\ Deposit!DepositAssumption
    /\ Withdraw!WithdrawAssumption
    /\ Bot!BotAssumption

-----------------------------------------------------------------------------
(***************************************************************************)
(* Values of the constants.                                                *)
(***************************************************************************)
rate(n, d) == [numerator |-> n, denominator |-> d]

Args(r, m, p, l, max, epoch_fee, other, unsafe) ==
    [reserve |-> r, mint |-> m, pool |-> p, list |-> l, max |-> max, epoch_fee |-> epoch_fee,
     withdrawal_fee |-> other, deposit_fee |-> rate(0, 0), unsafe_fees |-> unsafe]

\* create-pool: one pool, and a second one with accounts of its own or of the
\* first one.
MixedAttempts ==
    {Args(res1, m1, p1, l1, 1, rate(1, 10), rate(1, 10), FALSE),
     Args(res1, m1, p2, l1, 1, rate(1, 10), rate(1, 10), FALSE),
     Args(res2, m2, p2, l1, 1, rate(0, 0), rate(0, 0), TRUE),
     Args(res2, m1, p2, l2, 2, rate(1, 10), rate(2, 1), FALSE),
     Args(res2, m2, p2, l2, 2, rate(1, 10), rate(0, 0), FALSE)}

\* update --stale-only; a full update without merges that is forced, as the one
\* of the Python client is; and one that --no-update keeps from doing anything.
SomeOptions ==
    {[force |-> FALSE, stale_only |-> TRUE, no_merge |-> FALSE, no_update |-> FALSE],
     [force |-> TRUE, stale_only |-> FALSE, no_merge |-> TRUE, no_update |-> FALSE],
     [force |-> FALSE, stale_only |-> FALSE, no_merge |-> FALSE, no_update |-> TRUE]}

\* Two operators who share a pool, and commands that touch the same fields.
SomeCommands ==
    {[name |-> "set-manager", new |-> Unset, fee |-> f2],
     [name |-> "set-manager", new |-> k2, fee |-> Unset],
     [name |-> "set-staker", new |-> lost],
     [name |-> "set-funding-authority", type |-> "StakeDeposit", new |-> lost],
     [name |-> "create-token-metadata", value |-> "old"],
     [name |-> "update-token-metadata", value |-> "new"]}

\* Three stake accounts of a user, one with a lamport too many, one that is not
\* delegated.
Plain == Program!Stake(3, 2, "past", "never")
Extra == Program!Stake(4, 2, "past", "never")
Idle == Program!Initialized(2)

Stakes == {Plain, Extra, Idle}

StakeOf ==
    [a \in {acc1, acc2, acc3} |->
        CASE a = acc1 -> [vote |-> v1, stake |-> Extra]
          [] a = acc2 -> [vote |-> v2, stake |-> Plain]
          [] a = acc3 -> [vote |-> NoValidator, stake |-> Idle]]

\* withdraw-stake from stake accounts of the minimum, slightly above it and well
\* above it.
Order == <<v1, v2>>
SomeFees == {rate(0, 1), rate(1, 2), rate(1, 1)}

Ask(tokens, from, receiver, exempt) ==
    [tokens |-> tokens, from |-> from, receiver |-> receiver, fee_exempt |-> exempt]

SomeRequests ==
    {Ask(n, Anywhere, "new", FALSE) : n \in {0, 2, 6, 9}}
    \cup {Ask(6, Anywhere, "given", FALSE), Ask(6, Anywhere, "new", TRUE)}
    \cup {Ask(2, v1, "delegated", FALSE), Ask(3, Reserve, "new", FALSE),
          Ask(5, Reserve, "new", FALSE)}

\* The bot with a cap of half the pool, with a reserve to retain, with an even
\* split, and dry; the first validator has stake from others.
Bots(equalize, amount, percent, max_percent, dry_run) ==
    [equalize |-> equalize, amount |-> amount, percent |-> percent, max_percent |-> max_percent,
     dry_run |-> dry_run]

SomeSettings ==
    {Bots(TRUE, 0, rate(0, 1), rate(1, 2), FALSE), Bots(TRUE, 3, rate(1, 10), rate(1, 1), FALSE),
     Bots(FALSE, 1, rate(0, 1), rate(1, 1), FALSE), Bots(FALSE, 0, rate(0, 1), rate(1, 1), TRUE)}

StakeElsewhere == [v \in Validators |-> IF v = v1 THEN 3 ELSE 0]

Start(first, second, lamports) ==
    [active |-> [v \in Validators |-> IF v = v1 THEN first ELSE second], reserve |-> lamports]

SomeStarts == {Start(2, 7, 9), Start(2, 2, 5), Start(9, 2, 3)}

\* The validators and the fee accounts of the update are interchangeable: one
\* order of the validators and one fee account to begin with stand for all.
VoteOrder == <<u1, u2, u3>>
Canonical ==
    /\ \A i \in DOMAIN u_list : u_list[i].vote = VoteOrder[i]
    /\ u_fee_account = g1

-----------------------------------------------------------------------------
(***************************************************************************)
(* The variables of a command that is not run.                             *)
(***************************************************************************)
Off == "off"

create_vars == <<c_reserve, c_mint, fee_account, pool, c_list, c_pc, attempt, c_tx, c_loose, attempts, c_faults, gifts>>
CreateOff ==
    /\ c_reserve = Off /\ c_mint = Off /\ fee_account = Off /\ pool = Off /\ c_list = Off
    /\ c_pc = Off /\ attempt = Off /\ c_tx = Off /\ c_loose = {} /\ attempts = 0 /\ c_faults = 0 /\ gifts = 0

update_vars == <<epoch, u_rewarding, u_list, last_update_epoch, u_fee_account, u_pc, option, u_seen, u_todo,
                 u_loose, began, changes>>
UpdateOff ==
    /\ epoch = 0 /\ u_rewarding = FALSE /\ u_list = <<>> /\ last_update_epoch = 0 /\ u_fee_account = Off
    /\ u_pc = Off /\ option = Off /\ u_seen = Off /\ u_todo = <<>> /\ u_loose = {} /\ began = 0 /\ changes = 0

admin_vars == <<manager, staker, manager_fee_account, stake_deposit_authority, sol_deposit_authority,
                sol_withdraw_authority, usable, metadata, a_pc, command, read, a_tx, flight, started, number>>
AdminOff ==
    /\ manager = Off /\ staker = Off /\ manager_fee_account = Off /\ stake_deposit_authority = Off
    /\ sol_deposit_authority = Off /\ sol_withdraw_authority = Off /\ usable = {} /\ metadata = Off
    /\ a_pc = [o \in Operators |-> Off] /\ command = Off /\ read = Off /\ a_tx = Off /\ flight = {}
    /\ started = 0 /\ number = Off

pool_vars == <<total_lamports, pool_token_supply, preferred_deposit, preferred_withdraw, pool_updated, status,
               active, transient, record_updated, reserve, vstake, tstake, mint, rewarding>>
PoolOff ==
    /\ total_lamports = Off /\ pool_token_supply = Off /\ preferred_deposit = Off /\ preferred_withdraw = Off
    /\ pool_updated = Off /\ status = Off /\ active = Off /\ transient = Off /\ record_updated = Off
    /\ reserve = Off /\ vstake = Off /\ tstake = Off /\ mint = Off /\ rewarding = Off

deposit_vars == <<theirs, credits, wallet, d_tokens, token_account, d_pc, d_todo, wanted, listed, d_tx, d_loose,
                  d_faults>>
DepositOff ==
    /\ theirs = {} /\ credits = Off /\ wallet = Off /\ d_tokens = Off /\ token_account = Off
    /\ d_pc = Off /\ d_todo = {} /\ wanted = {} /\ listed = {} /\ d_tx = Off /\ d_loose = {} /\ d_faults = 0

withdraw_vars == <<w_pc, request, w_seen, plan, saved, w_tokens, fee, others>>
WithdrawOff ==
    /\ w_pc = Off /\ request = Off /\ w_seen = Off /\ plan = Off /\ saved = Off
    /\ w_tokens = Off /\ fee = Off /\ others = 0

bot_vars == <<b_epoch, b_update_epoch, late, setting, b_pc, caller, rebalanced, b_read, no_merge, b_todo, b_seen,
              b_plan, b_loose, quiet, failures, b_others>>
BotOff ==
    /\ b_epoch = 0 /\ b_update_epoch = 0 /\ late = FALSE /\ setting = Off /\ b_pc = Off /\ caller = Off
    /\ rebalanced = FALSE /\ b_read = Off /\ no_merge = FALSE /\ b_todo = <<>> /\ b_seen = Off /\ b_plan = {}
    /\ b_loose = {} /\ quiet = FALSE /\ failures = 0 /\ b_others = 0

-----------------------------------------------------------------------------
\* The administration commands are started on a pool of the first operator
\* without funding authorities; before that, anybody's instructions reach it.
Fresh ==
    /\ manager = k1 /\ staker = k2 /\ manager_fee_account = f1 /\ usable = FeeAccounts
    /\ stake_deposit_authority = Admin!Pda /\ sol_deposit_authority = Unset
    /\ sol_withdraw_authority = Unset /\ metadata = Unset

AdminStep ==
    \/ started = 0 /\ Admin!AuthNext
       /\ UNCHANGED <<a_pc, command, read, a_tx, flight, started, number>>
    \/ (started > 0 \/ Fresh) /\ Admin!Next

CommandsInit ==
    /\ subcommand \in Subcommands
    /\ IF subcommand = "create-pool" THEN Create!CreateInit ELSE CreateOff
    /\ IF subcommand = "update" THEN Update!Init /\ Canonical ELSE UpdateOff
    /\ IF subcommand = "set-manager" THEN Admin!AdminInit ELSE AdminOff
    /\ \/ subcommand = "deposit-stake" /\ Deposit!DepositInit /\ WithdrawOff /\ BotOff
       \/ subcommand = "withdraw-stake" /\ Withdraw!WithdrawInit /\ DepositOff /\ BotOff
       \/ subcommand = "rebalance" /\ Bot!BotInit /\ DepositOff /\ WithdrawOff
       \/ /\ subcommand \notin {"deposit-stake", "withdraw-stake", "rebalance"}
          /\ PoolOff /\ DepositOff /\ WithdrawOff /\ BotOff

CommandsNext ==
    /\ \/ /\ subcommand = "create-pool" /\ Create!CreateNext
          /\ UNCHANGED <<update_vars, admin_vars, pool_vars, deposit_vars, withdraw_vars, bot_vars>>
       \/ /\ subcommand = "update" /\ Update!Next
          /\ UNCHANGED <<create_vars, admin_vars, pool_vars, deposit_vars, withdraw_vars, bot_vars>>
       \/ /\ subcommand = "set-manager" /\ AdminStep
          /\ UNCHANGED <<create_vars, update_vars, pool_vars, deposit_vars, withdraw_vars, bot_vars>>
       \/ /\ subcommand = "deposit-stake" /\ Deposit!DepositNext
          /\ UNCHANGED <<create_vars, update_vars, admin_vars, withdraw_vars, bot_vars>>
       \/ /\ subcommand = "withdraw-stake" /\ Withdraw!WithdrawNext
          /\ UNCHANGED <<create_vars, update_vars, admin_vars, deposit_vars, bot_vars>>
       \/ /\ subcommand = "rebalance" /\ Bot!BotNext
          /\ UNCHANGED <<create_vars, update_vars, admin_vars, deposit_vars, withdraw_vars>>
    /\ UNCHANGED subcommand

commands_vars ==
    <<subcommand, create_vars, update_vars, admin_vars, pool_vars, deposit_vars, withdraw_vars, bot_vars>>

CommandsSpec == CommandsInit /\ [][CommandsNext]_commands_vars

-----------------------------------------------------------------------------
(***************************************************************************)
(* The properties of the commands, each for the processes that run it.     *)
(***************************************************************************)
\* Balances, records, keys and the states of the commands and their accounts
\* are what they are declared to be.
CommandsTypeOK ==
    /\ subcommand = "create-pool" => Create!CreateTypeOK
    /\ subcommand = "update" => Update!UpdateTypeOK
    /\ subcommand = "set-manager" => Admin!AdminTypeOK
    /\ subcommand = "deposit-stake" => Deposit!DepositTypeOK
    /\ subcommand = "withdraw-stake" => Withdraw!WithdrawTypeOK
    /\ subcommand = "rebalance" => Bot!BotTypeOK

\* A command that returns Ok has done what it was asked for, whatever was lost or
\* late on the way and whoever else was at work: create-pool made a pool, or its
\* list serves one; update brought the pool to the epoch the command was started
\* in, unless it was told not to; the transaction of an administration command
\* took effect as asked; a deposit left none of its stake
\* accounts with the user; withdraw-stake spent exactly the tokens of the request.
OkMeansDone ==
    /\ Create!OkMeansCreated
    /\ Update!OkMeansUpdated
    /\ Admin!OkMeansEffective
    /\ Deposit!OkMeansDeposited
    /\ Withdraw!OkMeansAll

\* However the attempts of create-pool are mixed, every pool has a reserve and
\* a mint that obey it and a validator list that no other pool has, and starts
\* with one token for each lamport of its reserve above the rent
\* (process_initialize).
PoolsStartSound ==
    subcommand = "create-pool" => Create!PoolsOwnTheirAccounts /\ Create!BackedFromTheStart

\* A record shows the lamports of its own stake accounts, although update takes
\* its position from a list that was read before.
OwnAccounts == subcommand = "update" => Update!OwnAccounts

\* The instructions of update bring every record up to date when nothing has
\* changed since the list was read.
PlansSuffice == Update!PlansSuffice

\* Nobody is locked out of a pool: whatever was set before, somebody who can sign
\* is able to replace the staker, to open each gate, the one for withdrawals also
\* when the manager's fee account is gone, and to change the metadata
\* (process_set_manager, process_set_staker, process_set_funding_authority).
NobodyLockedOut == subcommand = "set-manager" => Admin!NoLockout

\* A session withdrawal passes the check of the withdraw authority exactly when
\* a plain one does (the accounts that process_withdraw_wsol_with_session hands
\* to process_withdraw_sol by position).
SessionGateAgrees == subcommand = "set-manager" => Admin!SessionGateAgrees

\* A stake account leaves the user when the pool pays for it, and is paid for
\* once, however often the deposit is repeated; no lamport is lost or left in an
\* account that serves a transfer only, and every pool token has an owner.
DepositsAddUp == subcommand = "deposit-stake" => Deposit!PaidForOnce /\ Deposit!NothingStranded

\* When nobody changed the pool since withdraw-stake read it, its plan is not
\* refused for the preferred validator's sake, and a plan of one account that
\* can pay for it is carried out.
PlansServed == subcommand = "withdraw-stake" => Withdraw!PreferredFirst /\ Withdraw!SmallRequestsServed

\* While nobody else touches the pool, what the equalizing bot has started can be
\* paid for in whichever order it lands, and the reserve keeps its rent and the
\* retained amount, but for the rent a decrease borrows; a plan without decreases
\* is accepted as a whole (plan_equalized_stake, process_increase_validator_stake).
PlanHolds == subcommand = "rebalance" => Bot!PlanHolds

\* The level of an equalized plan is the highest that can be paid for, and the
\* shares of an even split are funded (compute_stake_level, plan_even_split).
PlansAreBest == Bot!PlansAreBest
=============================================================================
