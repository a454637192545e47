----------------------------- MODULE MCRetries -----------------------------
(***************************************************************************)
(* Liveness for TLC: an operator who repeats update or create-pool until   *)
(* the command succeeds, and the loop of the bot in service mode.  One of  *)
(* the three runs; the variables of the others are at rest.                *)
(***************************************************************************)
EXTENDS UpdateClient

CONSTANTS
    u1, u2, g1, g2, res1, m1, p1, l1, NoKey,
    MaxU64, BaselineDenominator, RentExempt, MAX_VALIDATORS_IN_POOL,
    MaxAttempts, MaxFaults, MaxGifts,
    v1, v2, NoValidator, Validators, StakeMinimumDelegation, MaxEpochs, MaxFailures, MaxOthers

VARIABLES
    repeated,      \* the command that is repeated
    reserve, mint, fee_account, c_pool, c_list, c_pc, attempt, tx, c_loose, attempts, faults, gifts,
    total_lamports, pool_token_supply, preferred_deposit, preferred_withdraw, pool_updated, status,
    active, transient, record_updated, b_reserve, vstake, tstake, b_mint, b_rewarding,
    b_epoch, b_update_epoch, late, setting, b_pc, caller, rebalanced, read, no_merge, b_todo, b_seen, plan,
    b_loose, quiet, failures, others

create_vars ==
    <<reserve, mint, fee_account, c_pool, c_list, c_pc, attempt, tx, c_loose, attempts, faults, gifts>>

rate(n, d) == [numerator |-> n, denominator |-> d]

SameAttempt ==
    {[reserve |-> res1, mint |-> m1, pool |-> p1, list |-> l1, max |-> 1, epoch_fee |-> rate(1, 10),
      withdrawal_fee |-> rate(1, 10), deposit_fee |-> rate(0, 0), unsafe_fees |-> FALSE]}

Create == INSTANCE CreatePool WITH
    ReserveKeys <- {res1}, MintKeys <- {m1}, PoolKeys <- {p1}, ListKeys <- {l1}, Attempts <- SameAttempt,
    InitialStates <- {"none", "empty"}, InitialPoolStates <- {"none"}, MaxMade <- 3,
    pool <- c_pool, list <- c_list, pc <- c_pc, loose <- c_loose

\* An even split over two validators, with a lamport that stays in the reserve.
EvenSplit ==
    {[equalize |-> FALSE, amount |-> 1, percent |-> rate(0, 1), max_percent |-> rate(1, 1), dry_run |-> FALSE]}
Uneven == {[active |-> [v \in Validators |-> IF v = v1 THEN 4 ELSE 9], reserve |-> 12]}

Bot == INSTANCE RebalanceBot WITH
    BotOrder <- <<v1, v2>>, Settings <- EvenSplit, Elsewhere <- [v \in Validators |-> 0], Starts <- Uneven,
    MaxU64 <- 64, MINIMUM_DELEGATION <- 1, MINIMUM_ACTIVE_STAKE <- 1, MaxValidators <- 2, MaxSol <- 40,
    DepositAmounts <- {2}, WithdrawAmounts <- {2}, UserStakes <- {}, StakeAmounts <- {}, PoolFees <- {},
    Preferable <- {}, InitialReserves <- {}, Rewards <- {}, Donations <- {}, Burns <- {}, Destakable <- {},
    Delinquents <- {},
    reserve <- b_reserve, mint <- b_mint, rewarding <- b_rewarding, epoch <- b_epoch,
    last_update_epoch <- b_update_epoch, pc <- b_pc, todo <- b_todo, seen <- b_seen, loose <- b_loose

ASSUME RetriesAssumption == UpdateAssumption /\ Create!CreateAssumption /\ Bot!BotAssumption

\* update, with and without --stale-only, and the Python client, which does not
\* look whether an update is required.
SomeOptions ==
    {[force |-> FALSE, stale_only |-> TRUE, no_merge |-> FALSE, no_update |-> FALSE],
     [force |-> FALSE, stale_only |-> FALSE, no_merge |-> TRUE, no_update |-> FALSE],
     [force |-> TRUE, stale_only |-> FALSE, no_merge |-> FALSE, no_update |-> FALSE]}

Off == "off"

UpdateOff ==
    /\ epoch = 1 /\ rewarding = FALSE /\ list = <<>> /\ last_update_epoch = 1 /\ manager_fee_account = g1
    /\ pc = Off /\ option = NoOption /\ seen = Nothing /\ todo = <<>> /\ loose = {} /\ began = 1 /\ changes = 0

CreateOff ==
    /\ reserve = Off /\ mint = Off /\ fee_account = Off /\ c_pool = Off /\ c_list = Off
    /\ c_pc = Off /\ attempt = Off /\ tx = Off /\ c_loose = {} /\ attempts = 0 /\ faults = 0 /\ gifts = 0

bot_vars ==
    <<total_lamports, pool_token_supply, preferred_deposit, preferred_withdraw, pool_updated, status,
      active, transient, record_updated, b_reserve, vstake, tstake, b_mint, b_rewarding,
      b_epoch, b_update_epoch, late, setting, b_pc, caller, rebalanced, read, no_merge, b_todo, b_seen, plan,
      b_loose, quiet, failures, others>>
BotOff ==
    /\ total_lamports = Off /\ pool_token_supply = Off /\ preferred_deposit = Off /\ preferred_withdraw = Off
    /\ pool_updated = TRUE /\ status = Off /\ active = Off /\ transient = Off /\ record_updated = Off
    /\ b_reserve = Off /\ vstake = Off /\ tstake = Off /\ b_mint = Off /\ b_rewarding = FALSE
    /\ b_epoch = 1 /\ b_update_epoch = 1 /\ late = FALSE /\ setting = Off /\ b_pc = Off /\ caller = Off
    /\ rebalanced = FALSE /\ read = Off /\ no_merge = FALSE /\ b_todo = <<>> /\ b_seen = Off /\ plan = {}
    /\ b_loose = {} /\ quiet = FALSE /\ failures = 0 /\ others = 0

\* The validators and the fee accounts of the update are interchangeable.
Canonical ==
    /\ \A i \in DOMAIN list : list[i].vote = <<u1, u2>>[i]
    /\ manager_fee_account = g1

RetriesInit ==
    \/ repeated = "update" /\ Init /\ Canonical /\ CreateOff /\ BotOff
    \/ repeated = "create-pool" /\ Create!CreateInit /\ UpdateOff /\ BotOff
    \/ repeated = "service" /\ Bot!BotInit /\ UpdateOff /\ CreateOff

RetriesNext ==
    \/ repeated = "update" /\ Next /\ UNCHANGED <<repeated, create_vars, bot_vars>>
    \/ repeated = "create-pool" /\ Create!CreateNext /\ UNCHANGED <<repeated, vars, bot_vars>>
    \/ repeated = "service" /\ Bot!BotNext /\ UNCHANGED <<repeated, vars, create_vars>>

RetriesSpec ==
    /\ RetriesInit /\ [][RetriesNext]_<<repeated, vars, create_vars, bot_vars>>
    /\ Fairness
    /\ Create!CreateFairness
    /\ Bot!BotFairness

\* An operator who tries again with the same keypairs gets a pool, wherever the
\* earlier attempts of create-pool stopped (the setup functions continue from
\* what exists).
RetryConverges == repeated = "create-pool" => Create!RetryConverges

\* In every epoch that lasts the bot brings the pool up to date, whatever failed
\* or was refused before: an exception never ends the loop (service_mode).
ServiceUpdates == Bot!ServiceUpdates
=============================================================================
