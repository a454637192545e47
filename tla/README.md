# TLA+ models of the stake pool

The repository holds an on-chain program that manages pools of stake
(`program/`), and the clients that drive it (`clients/`): a command-line tool,
a JavaScript and a Python library, and a rebalancing bot. Users give lamports or
stake to a pool and get pool tokens; a staker spreads the lamports over
validators; once per epoch anyone may run the update that takes stock of all
accounts and fixes the price of a pool token until the next one.

The models here cover the on-chain program (what an instruction may do to the
lamports, the records, the pool tokens and the authorities, in any order, with
the epochs, rewards and other users in between) and the clients around it: the
commands that take several reads and transactions, with requests that fail,
transactions that are lost or land late, and others who act in between. The last
section says what is left out.

## 1. Inventory

### 1.1 Parts, state, operations

| Part | State | Operations | Source |
| --- | --- | --- | --- |
| Stake pool account | total_lamports, pool_token_supply, last_update_epoch, preferred validators, fees, authorities | all instructions | `state.rs`, `processor.rs` |
| Validator list | one record per validator: status, active and transient lamports, last_update_epoch | added, removed, updated, cleaned up | `state.rs`, `processor.rs` |
| BigVec | the bytes of the list | push, retain, find, slices | `big_vec.rs` |
| Fees | five rates, three of them announced ahead (FutureEpoch) | SetFee, the roll at an update | `state.rs`, `processor.rs` |
| Stake accounts | the reserve; a validator and a transient stake account per validator; ephemeral ones inside an instruction | split, merge, delegate, deactivate, withdraw by the stake program | used by `processor.rs` |
| Pool mint | supply | mint, burn (also by holders) | used by `processor.rs` |
| Wrapped SOL with sessions | a temporary token account | DepositWsolWithSession, WithdrawWsolWithSession | `processor.rs` |
| Authorities | manager, staker, deposit and withdraw authorities | SetManager, SetStaker, SetFundingAuthority, signer checks | `processor.rs`, `state.rs` |
| Token metadata | name, and who may change it | create, update | `processor.rs`, `inline_mpl_token_metadata.rs` |
| Clients | what they read before they send; transactions nobody waits for | create-pool, update in chunks, administration, deposits, withdrawals | `clients/cli`, `clients/js-legacy`, `clients/py` |
| Rebalancing bot | a plan made from a list read before, the epoch it rebalanced in | update, plan, send, wait, try again | `clients/py/bot/rebalance.py` |

### 1.2 How they interact

The price of a token is total_lamports / pool_token_supply. Both numbers are
caches: the first of the reserve and the records, the second of the mint. Between
two updates, deposits and withdrawals change cache and account together; the
staker's instructions move lamports between accounts and records without
touching the price; the runtime pays rewards, anybody may send lamports to an
account, a holder may burn tokens, a cluster restart or a deactivate-delinquent
changes the delegation of stake: these change accounts and no record. An update
takes two instructions, UpdateValidatorListBalance for chunks of records and then
UpdateStakePoolBalance, and a third one, CleanupRemovedValidatorEntries, drops
records; nothing keeps others from acting in between.

A client reads accounts one after the other, builds transactions from what it
read, and sends them; a transaction is checked against the accounts of the moment
in which it lands. Whoever waits for it learns that it landed or that it was
refused, or loses the connection and learns nothing.

### 1.3 What is hard here

* The records and total_lamports are stale most of the time; every handler
  decides from a record, an account, or both.
* A stake account changes state by itself, at the end of an epoch or because of
  others; the update tells from the status of the record and the activation of
  two accounts which of some ten cases it is in.
* A removal takes several epochs, and its two accounts cool down in either order.
* Integer divisions decide who gains a lamport. One that rounds the wrong way
  leaks at every call.
* A fee is announced, waits, and can be announced again.
* Checks compare `Option`s of 128-bit products.
* The list is edited in place, the length before the record.
* Clients act on what was true when they looked: positions in a list, the sum of
  a reserve, an account that was not there.
* An operator whose command failed runs it again, and does not know how much of
  it was done.

`PROJECT.json` lists each hazard with its line and the properties that guard it.

### 1.4 Correctness, per part

* Fees: no rate above 100%; a withdrawal fee rises by at most the cap; users get
  their notice.
* Conversions: no deposit, withdrawal or fee lowers the value of the tokens of
  others.
* Pool and list: the price is covered by what is there; no account is forgotten;
  the price is made of fresh records after the rewards are in; updates cannot be
  blocked; removals end.
* BigVec: retain is a filter, push always has the room it needs.
* Sessions: for the pool a session is a plain deposit or withdrawal; what passes
  through shared accounts leaves nothing behind and takes nothing along.
* Authorities: somebody who can sign is always able to put things right.
* Clients: Ok means done; what failed can be run again until it is done; nothing
  is paid for twice.
* Bot: what it starts together can be paid for; its plans are as even as the
  lamports allow; its loop brings the pool up to date.

## 2. Modules

| Module | What it is |
| --- | --- |
| `U64` | the width of integers (MaxU64 is a parameter), saturating_sub |
| `Fee` | rates, apply, the cap on withdrawal fees, FutureEpoch |
| `FeeSchedule` | SetFee and the roll of announced fees |
| `PoolMath` | tokens for lamports, lamports for tokens, the epoch fee |
| `StakeProgram` | external: states of a stake account, split, merge, delegate, deactivate |
| `StakePool` | the pool, the list, the stake accounts, all instructions that move lamports or tokens, and what happens around them |
| `BigVec` | the validator list in the bytes of its account: find, push, slices, retain |
| `Sums` | sums over a finite set, without recursion |
| `WsolSession` | DepositWsolWithSession, WithdrawWsolWithSession |
| `WsolPool` | WsolSession implements StakePool |
| `Authorities` | who may change whom and what; the metadata of the pool token |
| `CreatePool` | the command create-pool and Initialize |
| `UpdateClient` | the update in chunks of the command-line and the Python client |
| `AdminClient` | the administration commands, on Authorities |
| `DepositClient` | deposit-stake, deposit-all-stake, deposit-sol, withdraw-sol, on StakePool |
| `WithdrawClient` | withdraw-stake and its choice of accounts, on StakePool |
| `RebalancePlan` | the two plans of the bot, as functions |
| `RebalanceBot` | the bot in service mode, on StakePool |
| `MCFeeSchedule`, `MCStakePool`, `MCBigVec`, `MCWsolSession` | instances for TLC |
| `MCCommands` | the clients for TLC, one process per behaviour |
| `MCRetries` | the clients that try again, for liveness |
| `FeeSchedule_proofs`, `PoolMath_proofs`, `BigVec_proofs`, `WsolSession_proofs` | proofs about these modules |
| `StakePool_lemmas` | sums, sound accounts, the inductive invariant |
| `StakePool_staker`, `StakePool_users` | its preservation, instruction by instruction |
| `StakePool_proofs` | the theorems about StakePool |

### 2.1 StakePool and the code

A transaction on this chain either succeeds or leaves no trace, so an instruction
is one action; its guard is the conjunction of the handler's checks and of those
of the programs it calls, and an error is an action that is not enabled. Names
are those of the code.

| Code | Model |
| --- | --- |
| StakePool | total_lamports, pool_token_supply, preferred_deposit, preferred_withdraw, pool_updated |
| ValidatorStakeInfo | status (`"Unlisted"` without a record), active, transient, record_updated |
| reserve, stake accounts | reserve, vstake, tstake (a record with state, lamports, stake, activation, deactivation) |
| pool mint | mint |
| EpochRewards::active | rewarding |

Epochs are relative: activation and deactivation are `"now"`, `"past"` or
`"never"`, and last_update_epoch is a flag that the end of an epoch takes back.
Only equality with the current epoch is ever asked for, so the state space stays
finite without a bound on epochs. Warm-up and cool-down take one epoch.

| Action | Handler |
| --- | --- |
| Init | process_initialize |
| AddValidatorToPool | process_add_validator_to_pool |
| RemoveValidatorFromPool | process_remove_validator_from_pool |
| IncreaseValidatorStake (additional or not) | process_increase_validator_stake |
| DecreaseValidatorStake (three kinds) | process_decrease_validator_stake |
| SetPreferredDeposit, SetPreferredWithdraw | process_set_preferred_validator |
| UpdateValidatorListBalance | process_update_validator_list_balance, one record |
| UpdateStakePoolBalance | process_update_stake_pool_balance |
| CleanupRemovedValidatorEntries | process_cleanup_removed_validator_entries |
| DepositSol, DepositStake | process_deposit_sol, process_deposit_stake |
| WithdrawSol, WithdrawStake, WithdrawStakeFromReserve | process_withdraw_sol, process_withdraw_stake and its branch for the reserve |
| AdvanceEpoch, PayReward, EndRewards | the runtime |
| Donate, DestroyTokens, ForceDestake, DeactivateDelinquent | other users, the token program, cluster restarts |

The wrapped-SOL instructions end in process_deposit_sol and process_withdraw_sol,
so for the pool they are these actions.

Abstractions, and why they are sound for the properties:

* UpdateValidatorListBalance handles a chunk of records in a loop whose rounds
  touch different validators and the reserve. The model takes one record per
  action, so a chunk is a sequence of them, and others may even come between.
  What a chunk adds is that one refused merge takes the whole chunk back.
* The rates in force are any of PoolFees at each instruction: more behaviours
  than FeeSchedule allows.
* Slippage limits only refuse, so they are left out. So are referral fees, which
  split a fee between two accounts and change no total, and the last_epoch_*
  fields, which no instruction reads.
* Holders are added up in mint. Signers, addresses and seeds are taken to be
  right, and no stake account address is funded before it is created.
* Anyone may send lamports to an account that exists (Donate). The records do not
  know of them until the next update; a withdrawal cannot take them either, since
  the stake program splits off delegated lamports only.

### 2.2 StakeProgram

The stake program is not part of the repository; StakeProgram has what the
processor asks of it. A stake is activating, active, deactivating or inactive.
Two stakes merge when both are fully active, or when each of them is inactive or
activating in this epoch; a stake that is deactivating merges with nothing. A
split leaves rent and minimum delegation on both sides, unless it takes
everything.

### 2.3 BigVec, WsolSession, Authorities

**BigVec** is the list as the instructions use it: `data` maps slots, each the room
of a record, to records, and `vec_len` is the length stored in front of them. push
takes two steps (PushLength, PushElement), retain one per record (RetainKeep,
RetainDrop) and a last one (RetainEnd), with the indices of the code
(removals_found, dst_start_index) as variables; everything else is one step.
max_validators is what calculate_max_validators makes of the size of the account.

**WsolSession** has one action per instruction. The calls of a handler are
functions from balances to balances (create_pda_account, transfer, close_account,
RefundRent, ForwardToReserve, process_deposit_sol, sync_native), applied in the
order of the code. Around them users open and close their WSOL accounts, sessions
expire, and anybody sends lamports to any of the addresses, the temporary
account's included. PoolView, in WsolPool, is the refinement: with the obvious mapping each
behaviour is one of StakePool, so what is proved of StakePool holds with sessions.

**Authorities** has the keys stored in a pool, the instructions that change them,
and as predicates the checks that the deposit and withdrawal instructions make,
over keys some of which nobody can sign with. Session withdrawals hand their
accounts on by position (InnerAccounts, AuthorityIn, ProgramSignerIn).

### 2.4 The clients

They have a common shape. `pc` says where the command is; a read copies
accounts into a variable of the command; a transaction that is sent is a value
that lands (its instructions run with nothing in between, or all is undone), is
refused, or is left in `loose` when the connection is lost, from where it lands
late or never. WithdrawClient has no `loose`: its one transaction lands, or is
refused or lost before that. Numbers of faults, attempts and steps of others are
bounded by constants.

| Code | Model |
| --- | --- |
| command_create_pool, its four setup functions, process_initialize | CreatePool: one action per look and per transaction; a look that fails sees nothing |
| command_update, update_stake_pool (both), the chunk builders of `instruction.rs` | UpdateClient: records with the stake accounts they were last read from; instructions name positions |
| command_set_manager, -staker, -funding_authority, the metadata commands | AdminClient: several operators on Authorities |
| command_deposit_stake, -all_stake, -sol, command_withdraw_sol | DepositClient: one user with three stake accounts on StakePool |
| command_withdraw_stake, sorted_accounts, prepare_withdraw_accounts | WithdrawClient: the plan as a fold over the sorted accounts, the withdrawals of the transaction one by one on StakePool |
| plan_even_split, plan_equalized_stake, compute_stake_level | RebalancePlan: the binary search as a recursive function |
| service_mode, rebalance, increase_ and decrease_validator_stake | RebalanceBot: each read is a step; gather is a set of changes that land in any order; an exception (Raise) ends the round or starts the second attempt |

In UpdateClient a record carries `from`, the pair of stake accounts its lamports
were read from: this is what a wrong position would get wrong. Its pool has no
lamports, since StakePool has them.
In RebalanceBot a chunk has one record, lands before the next one is sent, and
`quiet` says that only the bot has touched the pool since rebalance began. Each
request of a client is a step, with others in between; in AdminClient a transaction
lands in one step, and the client hears of it in a later one.

## 3. Runs

| Run | Specification and properties | Instance |
| --- | --- | --- |
| `fee_schedule` | Spec of FeeSchedule: FeeTypeOK, PendingStillCapped, IncreaseCapped, NoticeGiven | a withdrawal and a deposit fee, 5 epochs |
| `fee_overflow` | IncreaseCapped, violated | 4-bit integers |
| `users` | Spec of StakePool: TypeOK, RecordsCovered, Solvent, SupplyCoversMint, PreferredNotRemoved, PriceNeverFalls, LamportsPaidFor | one validator, deposits and withdrawals of SOL and stake, with and without fees, increases, decreases and removal, rewards, burns, gifts |
| `lifecycle` | PricedOnFreshRecords, RewardsPricedIn, NothingLeftBehind, UpdateNeverStuck | two validators, no users: all interleavings of staker and updates with epochs, rewards, gifts, destaking |
| `removal` | FairSpec: RemovalCompletes | two validators |
| `supply_claim`, `decrease_claim`, `counted_claim` | one property each, violated | one validator |
| `big_vec` | Spec of BigVec: BigVecTypeOK, PushNeverRefused, VotesDistinct, RetainIsFilter | five validators, accounts of five sizes, with and without room to spare |
| `wsol_session` | Spec of WsolSession: SessionTypeOK, BooksBalance, SignerPassesThrough, PaymasterRefunded, BurnerIsPaid, PoolView | two users, one session, gifts to every address |
| `commands` | CommandsSpec: CommandsTypeOK, PoolsStartSound, OwnAccounts, NobodyLockedOut, SessionGateAgrees, DepositsAddUp, PlansServed, PlanHolds, OkMeansDone, PlansSuffice, PlansAreBest | one of create-pool, update, the administration commands, the deposits, withdraw-stake and the bot per behaviour |
| `retries` | RetriesSpec: RetryConverges, UpdateConverges, ServiceUpdates | create-pool and update repeated, the loop of the bot |

What the passing runs show:

* PendingStillCapped, IncreaseCapped, NoticeGiven: however often a fee is
  announced again, what takes effect is within the cap measured from the fee it
  replaces, and no sooner than two epochs after its announcement.
* RecordsCovered, Solvent: at every moment, also halfway through an update, the
  lamports the tokens are priced with are there.
* PriceNeverFalls, LamportsPaidFor: no step, rounding included, lowers the value
  of a token, and lamports leave only against tokens worth as much.
* NothingLeftBehind: status and record say which accounts exist; no record is
  dropped while an account of it lives.
* PricedOnFreshRecords, RewardsPricedIn: an up-to-date pool was priced with
  records of this epoch, after the rewards.
* UpdateNeverStuck: an update with no_merge always succeeds outside the
  distribution of rewards.
* RemovalCompletes: a removed or destaked validator leaves the list.
* PushNeverRefused, RetainIsFilter, VotesDistinct: the in-place edits never fail
  halfway and are what they would be on a sequence.
* SignerPassesThrough, PaymasterRefunded, BurnerIsPaid, BooksBalance: whatever was
  sent to the accounts in between, a session deposit leaves the program signer and
  the paymaster no poorer, and a session withdrawal reaches the WSOL the user can
  spend.
* PoolsStartSound: attempts of create-pool that mix keypairs, fail and land late
  never share a list between pools, and Initialize mints for what the reserve
  holds at that moment.
* OkMeansDone: a command that returns Ok has done what it was asked for. For an
  administration command this is said of the moment its transaction lands; another
  operator may change it again before the answer arrives. `update --no-update` is
  excepted: it reports success and does nothing.
* OwnAccounts, PlansSuffice: an instruction with an outdated position skips or
  updates, and never writes another validator's lamports; the chunks that
  `--stale-only` leaves out are not needed.
* NobodyLockedOut: after any sequence of changes somebody who can sign is able to
  replace the staker, to open each gate, the one for withdrawals also when the
  manager's fee account is closed, and to change the metadata.
* SessionGateAgrees: a session withdrawal passes the check of the withdraw authority
  exactly when a plain one does.
* DepositsAddUp: a stake account is paid for once, however often the deposit is
  repeated; no lamport stays in the ephemeral account.
* PlansServed: on an unchanged pool, withdraw-stake is not refused for the
  preferred validator's sake, and a plan of one account that can pay is carried
  out. Longer plans may be refused, and the property does not cover them: the client
  plans with all lamports of an account, of which the program keeps a minimum.
* PlanHolds: while nobody else touches the pool, the increases an equalizing bot
  started can be paid for in any order, and the reserve keeps its rent and the
  retained amount but for the rent that decreases borrow. That all of a plan is
  accepted is claimed only of plans without decreases (see 5). When others act in
  between, a change may be refused; the model has these steps, and the properties of
  StakePool hold through them, but nothing is claimed of the plan.
* PlansAreBest: the binary search finds the highest level the lamports pay for, and
  the shares of an even split are funded.
* RetryConverges: create-pool repeated with the same keypairs ends in a pool.
* UpdateConverges, ServiceUpdates: the update command repeated, and the loop of the
  bot, bring the pool up to date in the epoch that lasts.

### 3.1 Bounds

Rent and minimum delegation are one lamport each, so two lamports make a stake
account and every threshold of the code can be met, missed by one and passed.
MaxSol bounds what all accounts hold together; only rewards, gifts and deposits
are subject to it, so it cuts no instruction that moves lamports inside the pool.
With the 9 of `lifecycle` there is room for a reserve, two validator stakes, a
transient stake and an excess to withdraw; with the 7 of `users` for a deposit of
either sort beside one validator's two accounts, or a gift of a whole minimum stake. Two validators are what a record
that is fresh beside one that is stale needs; the accounts of more validators do
not interact except in sums, which the proofs handle for any number. `users` has
one validator, so it does not reach the refusal of a source because another one
is preferred (PreferredAllows); that check only refuses, and the theorems, which
cover the properties of that run except PreferredNotRemoved and LamportsPaidFor,
hold with it.

`big_vec` has sizes that hold exactly three, four and five records, sizes one byte
short of the next record, and enough validators for runs of dropped records before, between and
after kept ones. `wsol_session` has gifts below and above the rent of a token
account, because create_pda_account tops up what is missing. In `commands`,
create-pool has two attempts with shared and with separate keypairs, two faults
and a gift; update has three validators in chunks of two, so that one chunk is
shorter and a cleanup moves a record into the other one; two operators have two
commands; the deposits have one stake account with excess lamports and one that is
not delegated; withdraw-stake and the bot have two validators, at the minimum and
above it, and one step of others; the bot has two epochs and, in this run, no failed
requests. The votes of the update are taken in one order and with one fee account to
begin with: they are interchangeable. `retries` allows fewer faults than attempts
(two and six for create-pool, one failed request for the bot): nobody converges who
always fails. Its bot uses the even split only. What is planned does not decide
whether the pool is updated, and evaluating the equalizing plan under liveness
checking is out of TLC's reach.

MaxU64 in FeeSchedule is 255 in the passing run and 15 in `fee_overflow`, where
the product is to overflow its double-width integer.

### 3.2 Fairness

FairSpec assumes that epochs end, that the distribution of rewards of an epoch
ends, and that somebody runs the update of every client again and again: for
each record UpdateValidatorListBalance, then the cleanup. The update is enabled
only outside the distribution of rewards, so it gets strong fairness; this is
what a client that runs more than once per epoch gives. No fairness is assumed of
the staker or of users.

In `retries`, the operator starts the command again while it has not succeeded,
and a started command goes on (weak fairness of its own steps): it is a program
that waits for nothing but answers, and an answer comes, be it a timeout. For the
update, rewards end, and a transaction that is sent again and again lands sometime
(strong fairness); epochs may end at any moment but their number is bounded, so
the last one lasts. The bot's loop is one process that sleeps and goes on (weak
fairness of its steps), and the rewards end.

## 4. Proofs

All theorems hold for any finite set of validators, any amounts and any MaxU64.

**PoolMath_proofs.** DepositFair, WithdrawFair, EpochFeeFair: the rounded
divisions of `state.rs` never lower total_lamports / pool_token_supply. Each
comes down to a product that a division rounds down, compared by
cross-multiplication.

**FeeSchedule_proofs.** FeeTypes, PendingCapped, FeeIncreaseCapped and
FeeNoticeGiven. IncreaseCapped is not inductive: it needs PendingStillCapped,
which holds since SetFee asks for an updated pool and measures from the rate in
force, and the rate in force changes only when the pending one is used up.
NoticeGiven needs PendingAge, which relates the waits of a pending rate to the
last update. The cap is proved from NoOverflow, the assumption that the product
of check_withdrawal fits; `fee_overflow` shows why it is needed.

**StakePool_proofs.** The inductive invariant is

    IInv = TypeOK /\ AccountsSound /\ RecordsCovered /\ Departed
           /\ Solvent /\ SupplyCoversMint

Solvent alone is not inductive. An update replaces what a record claims by what
the account holds, so the account must hold at least that (RecordsCovered). An
account that is split or has its excess withdrawn must keep stake and rent
(AccountsSound: a delegated account holds at least its stake and its rent, an
account that does not exist holds nothing), and a validator that is on its way
out of the list, or not in it, must have no stake account that a new one would
overwrite (Departed). One lemma per action shows its preservation; the sums over
validators are cardinalities of sets of pairs, so that the library's theorems on
finite sets give how a sum changes with one record (TotalUpdate), without
induction. Theorems: Inductive, TypeCorrect, RecordsAlwaysCovered,
AlwaysSolvent, SupplyAlwaysCovers; from the invariant, PriceMonotone (with the
theorems of PoolMath_proofs) and AlwaysPricedOnFreshRecords.

**BigVec_proofs.** AlwaysSound is the inductive invariant: the types, distinct
votes, room for the record between the two steps of push, and the loop invariant of
retain, which gives for every slot what it holds before, at and behind the pending
move in terms of the list as it was. A record's new place is its index less the
number of dropped records before it, a cardinality, so that no induction over the
list is needed. From it ListTypes, PushAlwaysFits, OneRecordEach and RetainFilters,
for accounts of any size and any sizes of header and record.

**WsolSession_proofs.** For any finite set of users, any sessions and any amounts.
The inductive invariant is

    SessionInv = SessionTypeOK /\ BooksBalance /\ Held <= MaxSol

The types alone are not inductive: that a balance stays within 64 bits when
lamports arrive at it follows from the lamports of all accounts together being
bounded, and Held, the sum over all accounts, grows in no instruction. The sum
is again a cardinality (Sums), so that a step which changes the accounts of one
user changes it by what that user gains (HeldStep). BooksBalance has to go along:
a deposit takes what an account counts, which must be there above its rent. One
lemma for each call of a handler says what it moves; DepositMoves and
WithdrawMoves put them together in the order of the code. Theorems:
SessionInvariant, SessionTypeCorrect, BooksAlwaysBalance; from the invariant, the
action properties SignerOnlyPassesOn, PaymasterAlwaysRefunded and
BurnerAlwaysPaid.

Assumptions: those on the constants (SessionAssumption: the fees are rates of at
most 100% and the lamports the accounts start with fit under MaxSol, as the
lamports of the chain fit in 64 bits; PoolAssumption, PoolFeesAssumption: rates of
at most 100%, UserStakesAssumption: stakes that users bring are rent exempt,
StakeProgramAssumption, BigVecAssumption, BlankAssumption), and the semantics of StakeProgram.

**Only model-checked.** RemovalCompletes (fairness) and UpdateNeverStuck
(ENABLED) are out of the prover's reach, and so are the properties of `retries`
(fairness) and PlanHolds and PlansServed (ENABLED). PlansAreBest is about a
recursive function. RewardsPricedIn, NothingLeftBehind, PreferredNotRemoved,
LamportsPaidFor, the refinement PoolView and the properties of the clients are
not proved.

## 5. Where the documentation and the program differ

The first four are runs whose property states what the documentation says.

* `fee_overflow`: `state.rs:978` says that the program fails when a fee's numbers
  overflow the check of the cap. The check compares two `Option`s, `None` is
  below every `Some`, and the fee is accepted.
* `supply_claim`: `state.rs:95` says that pool_token_supply should always match
  the supply of the mint. It does not between a holder's burn and the next
  update. SupplyCoversMint is what holds.
* `decrease_claim`: `instruction.rs:490` says that DecreaseAdditionalValidatorStake
  works whether or not the transient stake exists. The stake program does not
  merge two deactivating stakes, so a second decrease in an epoch is refused,
  except for a stake that was delegated in that epoch.
* `counted_claim`: `processor.rs:1975` says that a deactivating transient stake is
  only counted. For an Active record the handler tries to merge it when it was
  activated before, and the update fails; with no_merge it succeeds.

Met while modelling, without a run of their own:

* `processor.rs:2876`: "We assume the paymaster is always covering the full cost of
  the transient ATA creation." create_pda_account tops an address up that already
  holds lamports, so the paymaster may pay less than the rent and get all of it
  back; the difference is what the sender of those lamports gave away.
  PaymasterRefunded and SignerPassesThrough hold all the same.
* `processor.rs:3536`: "Use idempotent create to safely initialize the ATA if
  missing". A missing WSOL account is refused before, at `processor.rs:3506`.
* `clients/cli/src/main.rs:2452`: "If new accounts are missing in the arguments use
  the old ones". They are the old ones as of the read: a fee account that another
  operator has set since is taken back.
* `main.rs:3090`: "Deposit all active stake accounts". Every account with the staker
  is listed, and the first that is not delegated to a validator of the pool ends
  the command.
* `main.rs:2025`: "Those accounts will be withdrawn completely with `claim`
  instruction". The program has no such instruction, and refuses a withdrawal that leaves too
  little while another account could pay.
* `main.rs:2020` divides by the numerator of the inverse fee, which is 0 for a fee
  of 0/0, the default of create-pool, and for one of 100%: prepare_withdraw_accounts
  then panics (Panic in WithdrawClient, reached with 1/1 in `commands`).
* `rebalance.py:418`: "the reserve must stay rent exempt and hold on to the retained
  amount". Each decrease borrows a rent from the reserve until its stake is back;
  the budget does not include it. With nothing to spare, increases and decreases of
  one plan compete for it, and the one that comes last is refused.
* `rebalance.py:545`: the flag rebalanced_in_current_epoch is taken back when the bot
  has updated the pool. When somebody else updated it first, the flag is still that
  of the epoch before, and the bot does not rebalance in this one.

## 6. Not modelled

* The staker's commands of the command-line client, set-fee and the session commands
  send one instruction each, after the update of UpdateClient where they ask for it;
  StakePool, FeeSchedule or WsolSession has that instruction. Seeds of stake accounts are taken to be fresh.
* The JavaScript client builds the same transactions as the command-line client and
  leaves the sending to its caller.
* The construction and decoding of instructions, error codes, printing and
  configuration of the clients, and the IDL program: no state of the pool, or pure
  input and output.
* Warm-up and cool-down over several epochs, and referral fees.
