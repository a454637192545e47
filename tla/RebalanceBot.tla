---------------------------- MODULE RebalanceBot ---------------------------
(***************************************************************************)
(* The rebalancing bot in service mode (clients/py/bot/rebalance.py) on    *)
(* the pool of StakePool.  A round of its loop reads the epoch and the     *)
(* pool, updates a pool that is not of that epoch, and late in the epoch   *)
(* rebalances once: it reads the pool, the list, the vote accounts and the *)
(* reserve one after the other, makes a plan, and sends all its changes at *)
(* the same time.  The first one that is refused ends the round; the       *)
(* others go on without anybody waiting for them.  Between any two of      *)
(* these steps others use the pool, and the epoch may end.                 *)
(***************************************************************************)
EXTENDS StakePool, RebalancePlan

CONSTANTS
    BotOrder,       \* the validators, in the order of the list
    Settings,       \* how the bot is started: [equalize, amount, percent, max_percent, dry_run]
    Elsewhere,      \* stake of the validators from others
    Starts,         \* lamports of the accounts of the pool at the start: [active, reserve]
    MaxEpochs, MaxFailures, MaxOthers    \* bounds: epochs, failed requests, steps of others

\* What the constants have to be.
BotAssumption ==
    /\ BotOrder \in [1..Cardinality(Validators) -> Validators]
    /\ MINIMUM_DELEGATION >= minimum_delegation
    /\ Elsewhere \in [Validators -> U64]
    /\ Starts \subseteq [active : [Validators -> RentExempt..MaxU64], reserve : RentExempt..MaxU64]
    /\ MaxEpochs \in Nat /\ MaxFailures \in Nat /\ MaxOthers \in Nat

VARIABLES
    epoch, last_update_epoch,   \* Clock::epoch and StakePool::last_update_epoch
    late,           \* 95% of the epoch are over
    setting,        \* the arguments of the bot
    pc,
    caller,         \* the function that updates the pool: service_mode or rebalance
    rebalanced,     \* rebalanced_in_current_epoch
    read,           \* epoch and progress as they were read
    no_merge,
    todo,           \* records that are still to be updated
    seen,           \* what rebalance has read, and the plan it made
    plan,           \* changes that gather waits for
    loose,          \* changes under way that nobody waits for
    quiet,          \* only the bot has touched the pool since rebalance began
    failures, others

function == <<setting, caller, rebalanced, read, no_merge, todo, seen>>
bounds == <<failures, others>>
bot_vars == <<vars, epoch, last_update_epoch, late, function, pc, plan, loose, quiet, bounds>>

Nothing == [total |-> 0, list |-> <<>>, stakes |-> <<>>, retained |-> 0, plan |-> {}]
Free == [numerator |-> 0, denominator |-> 1]

\* A pool in use, with its validators at rest.
BotInit ==
    /\ \E start \in Starts : active = start.active /\ reserve = start.reserve
    /\ vstake = [v \in Validators |-> Stake(active[v], active[v] - RentExempt, "past", "never")]
    /\ transient = [v \in Validators |-> 0] /\ tstake = [v \in Validators |-> NoAccount]
    /\ status = [v \in Validators |-> "Active"]
    /\ total_lamports = reserve - RentExempt + Total(active)
    /\ pool_token_supply = total_lamports /\ mint = total_lamports
    /\ preferred_deposit = NoValidator /\ preferred_withdraw = NoValidator
    /\ pool_updated = TRUE /\ rewarding = FALSE
    /\ record_updated = [v \in Validators |-> TRUE]
    /\ epoch = 1 /\ last_update_epoch = 1 /\ late = FALSE
    /\ setting \in Settings
    /\ pc = "epoch" /\ caller = "service_mode" /\ rebalanced = FALSE
    /\ read = [epoch |-> 1, late |-> FALSE] /\ no_merge = FALSE /\ todo = <<>>
    /\ seen = Nothing /\ plan = {} /\ loose = {}
    /\ quiet = FALSE /\ failures = 0 /\ others = 0

-----------------------------------------------------------------------------
(***************************************************************************)
(* service_mode.                                                           *)
(***************************************************************************)
\* get_epoch_progress
ReadEpoch ==
    /\ pc = "epoch"
    /\ pc' = "pool"
    /\ caller' = "service_mode"
    /\ read' = [epoch |-> epoch, late |-> late]
    /\ UNCHANGED <<vars, epoch, last_update_epoch, late, setting, rebalanced, no_merge, todo, seen, plan,
                   loose, quiet, bounds>>

\* A pool of another epoch is updated.
ReadPool ==
    /\ pc = "pool"
    /\ IF last_update_epoch # read.epoch
       THEN pc' = "list" /\ no_merge' = FALSE
       ELSE pc' = "gate" /\ UNCHANGED no_merge
    /\ UNCHANGED <<vars, epoch, last_update_epoch, late, setting, caller, rebalanced, read, todo, seen, plan,
                   loose, quiet, bounds>>

Gate ==
    /\ pc = "gate"
    /\ IF read.late /\ ~rebalanced
       THEN pc' = "r epoch" /\ caller' = "rebalance"
       ELSE pc' = "epoch" /\ UNCHANGED caller
    /\ UNCHANGED <<vars, epoch, last_update_epoch, late, setting, rebalanced, read, no_merge, todo, seen, plan,
                   loose, quiet, bounds>>

\* Mutant: what goes wrong in an update without merges ends the loop.
Mutant_Raise ==
    /\ IF caller = "service_mode" /\ pc \in {"list", "records", "balance", "cleanup"} /\ ~no_merge
       THEN pc' = "list" /\ no_merge' = TRUE
       ELSE pc' = "stopped" /\ UNCHANGED no_merge
    /\ todo' = <<>> /\ seen' = Nothing /\ plan' = {}
    /\ UNCHANGED <<setting, caller, rebalanced, read>>

\* An exception: the update of the loop is tried again without merges; all
\* others end the round.
Raise ==
    /\ IF caller = "service_mode" /\ pc \in {"list", "records", "balance", "cleanup"} /\ ~no_merge
       THEN pc' = "list" /\ no_merge' = TRUE
       ELSE pc' = "epoch" /\ UNCHANGED no_merge
    /\ todo' = <<>> /\ seen' = Nothing /\ plan' = {}
    /\ UNCHANGED <<setting, caller, rebalanced, read>>

-----------------------------------------------------------------------------
(***************************************************************************)
(* update_stake_pool: a transaction for each chunk of records, here of one *)
(* record, and one for the pool and the clean-up, whose two instructions   *)
(* run with nothing in between.  Chunks that land late, and positions that *)
(* have moved since the list was read, are in UpdateClient.                *)
(***************************************************************************)
ReadList ==
    /\ pc = "list"
    /\ pc' = "records"
    /\ todo' = SelectSeq(BotOrder, LAMBDA v : v \in Listed)
    /\ UNCHANGED <<vars, epoch, last_update_epoch, late, setting, caller, rebalanced, read, no_merge, seen, plan,
                   loose, quiet, bounds>>

\* A record that somebody has cleaned up meanwhile is skipped.
UpdateRecord(v) ==
    IF v \in Listed THEN UpdateValidatorListBalance(v, no_merge) ELSE UNCHANGED vars

UpdateRecords ==
    /\ pc = "records"
    /\ IF todo = <<>> THEN pc' = "balance" /\ UNCHANGED <<vars, todo>>
       ELSE UpdateRecord(Head(todo)) /\ todo' = Tail(todo) /\ UNCHANGED pc
    /\ UNCHANGED <<epoch, last_update_epoch, late, setting, caller, rebalanced, read, no_merge, seen, plan, loose,
                   quiet, bounds>>

UpdateBalance ==
    /\ pc = "balance"
    /\ UpdateStakePoolBalance(Free, TRUE)
    /\ last_update_epoch' = epoch
    /\ pc' = "cleanup"
    /\ UNCHANGED <<epoch, late, function, plan, loose, quiet, bounds>>

\* The answer comes, or it is lost.
Cleanup ==
    /\ pc = "cleanup"
    /\ CleanupRemovedValidatorEntries(TRUE)
    /\ \/ /\ pc' = IF caller = "service_mode" THEN "gate" ELSE "r again"
          /\ rebalanced' = IF caller = "service_mode" THEN FALSE ELSE rebalanced
          /\ UNCHANGED <<setting, caller, read, no_merge, todo, seen, plan, failures>>
       \/ failures < MaxFailures /\ failures' = failures + 1 /\ Raise
    /\ UNCHANGED <<epoch, last_update_epoch, late, loose, quiet, others>>

UpdateRefused ==
    /\ \/ pc = "records" /\ todo # <<>> /\ ~ENABLED UpdateRecord(Head(todo))
       \/ pc = "balance" /\ ~ENABLED UpdateStakePoolBalance(Free, TRUE)
    /\ Raise
    /\ UNCHANGED <<vars, epoch, last_update_epoch, late, loose, quiet, bounds>>

-----------------------------------------------------------------------------
(***************************************************************************)
(* rebalance.                                                              *)
(***************************************************************************)
RebalanceEpoch ==
    /\ pc = "r epoch"
    /\ pc' = "r pool"
    /\ read' = [read EXCEPT !.epoch = epoch]
    /\ quiet' = TRUE
    /\ UNCHANGED <<vars, epoch, last_update_epoch, late, setting, caller, rebalanced, no_merge, todo, seen, plan,
                   loose, bounds>>

\* The pool is read, and read again after an update.
RebalancePool ==
    /\ pc \in {"r pool", "r again"}
    /\ IF pc = "r pool" /\ last_update_epoch # read.epoch
       THEN pc' = "list" /\ no_merge' = FALSE /\ UNCHANGED seen
       ELSE /\ pc' = "r list" /\ seen' = [Nothing EXCEPT !.total = total_lamports]
            /\ UNCHANGED no_merge
    /\ UNCHANGED <<vars, epoch, last_update_epoch, late, setting, caller, rebalanced, read, todo, plan, loose,
                   quiet, bounds>>

RebalanceList ==
    /\ pc = "r list"
    /\ pc' = IF setting.equalize THEN "r votes" ELSE "r reserve"
    /\ seen' = [seen EXCEPT !.list =
           LET listed == SelectSeq(BotOrder, LAMBDA v : v \in Listed)
           IN  [i \in DOMAIN listed |-> [vote |-> listed[i], active |-> active[listed[i]],
                                         transient |-> transient[listed[i]], status |-> status[listed[i]]]]]
    /\ UNCHANGED <<vars, epoch, last_update_epoch, late, setting, caller, rebalanced, read, no_merge, todo, plan,
                   loose, quiet, bounds>>

\* activated_stake of the vote accounts: the stake of this pool included.
activated_stakes ==
    [v \in Validators |-> Elsewhere[v] + IF FullyActive(vstake[v]) THEN vstake[v].stake ELSE 0]

\* get_vote_accounts, for an equalized plan only.
RebalanceVotes ==
    /\ pc = "r votes"
    /\ pc' = "r reserve"
    /\ seen' = [seen EXCEPT !.stakes = activated_stakes]
    /\ UNCHANGED <<vars, epoch, last_update_epoch, late, setting, caller, rebalanced, read, no_merge, todo, plan,
                   loose, quiet, bounds>>

Part(rate, lamports) == (lamports * rate.numerator) \div rate.denominator

\* What the bot keeps in the reserve, and what it spreads.
retained_reserve_lamports == Largest(setting.amount, Part(setting.percent, seen.total))
distributable_lamports == Largest(seen.total - retained_reserve_lamports, 0)
cap_lamports == Part(setting.max_percent, seen.total)
usable_reserve_lamports == Largest(reserve - RentExempt - retained_reserve_lamports, 0)

changes ==
    IF setting.equalize
    THEN plan_equalized_stake(seen.list, seen.stakes, distributable_lamports, cap_lamports,
                              usable_reserve_lamports)
    ELSE plan_even_split(seen.list, distributable_lamports)

\* The reserve is read, the plan made, and all changes are started.  An even
\* split over no validators divides by zero.
MakePlan ==
    /\ pc = "r reserve"
    /\ \/ /\ setting.equalize \/ seen.list # <<>>
          /\ pc' = "gather"
          /\ plan' = IF setting.dry_run THEN {} ELSE changes
          /\ seen' = [seen EXCEPT !.retained = retained_reserve_lamports, !.plan = plan']
          /\ UNCHANGED <<setting, caller, rebalanced, read, no_merge, todo>>
       \/ ~setting.equalize /\ seen.list = <<>> /\ Raise
    /\ UNCHANGED <<vars, epoch, last_update_epoch, late, loose, quiet, bounds>>

\* With the seed of an ephemeral account the transient account is added to; the
\* bot gives none.
increase_validator_stake(v, lamports, ephemeral) == IncreaseValidatorStake(v, lamports, ephemeral)
decrease_validator_stake(v, lamports, ephemeral) ==
    DecreaseValidatorStake(v, lamports, IF ephemeral THEN "additional" ELSE "with_reserve")

Execute(change) ==
    IF change.lamports > 0 THEN increase_validator_stake(change.vote, change.lamports, FALSE)
    ELSE decrease_validator_stake(change.vote, -change.lamports, FALSE)

Land ==
    /\ pc = "gather"
    /\ \E change \in plan : Execute(change) /\ plan' = plan \ {change}
    /\ UNCHANGED <<epoch, last_update_epoch, late, function, pc, loose, quiet, bounds>>

\* gather raises the first exception; the other changes go on.
Refused ==
    /\ pc = "gather"
    /\ \E change \in plan : ~ENABLED Execute(change) /\ loose' = loose \cup (plan \ {change})
    /\ Raise
    /\ UNCHANGED <<vars, epoch, last_update_epoch, late, quiet, bounds>>

Done ==
    /\ pc = "gather" /\ plan = {}
    /\ pc' = "epoch"
    /\ rebalanced' = TRUE
    /\ seen' = Nothing
    /\ UNCHANGED <<vars, epoch, last_update_epoch, late, setting, caller, read, no_merge, todo, plan, loose, quiet,
                   bounds>>

-----------------------------------------------------------------------------
(***************************************************************************)
(* The network and others.                                                 *)
(***************************************************************************)
\* A request fails; a transaction whose answer is lost may still land.
Fail ==
    /\ failures < MaxFailures
    /\ failures' = failures + 1
    /\ pc \notin {"gate", "cleanup"}
    /\ loose' = loose \cup plan
    /\ Raise
    /\ UNCHANGED <<vars, epoch, last_update_epoch, late, quiet, others>>

\* A transaction that nobody waits for lands, or is dropped.
LandLate ==
    /\ \E change \in loose :
           /\ loose' = loose \ {change}
           /\ Execute(change) \/ UNCHANGED vars
    /\ pc # "cleanup"
    /\ quiet' = FALSE
    /\ UNCHANGED <<epoch, last_update_epoch, late, function, pc, plan, bounds>>

OtherSteps ==
    /\ pc # "cleanup"
    /\ others < MaxOthers /\ others' = others + 1
    /\ \/ /\ \/ \E lamports \in DepositAmounts : DepositSol(lamports, Free)
             \/ \E pool_tokens \in WithdrawAmounts : WithdrawSol(pool_tokens, Free, FALSE)
             \/ \E v \in Validators : RemoveValidatorFromPool(v)
             \/ \E v \in Validators : UpdateValidatorListBalance(v, FALSE)
          /\ UNCHANGED last_update_epoch
       \/ UpdateStakePoolBalance(Free, TRUE) /\ last_update_epoch' = epoch
    /\ quiet' = FALSE
    /\ UNCHANGED <<epoch, late, function, pc, plan, loose, failures>>

EpochEnds ==
    /\ pc # "cleanup"
    /\ epoch < MaxEpochs
    /\ AdvanceEpoch
    /\ epoch' = epoch + 1
    /\ late' = FALSE
    /\ quiet' = FALSE
    /\ UNCHANGED <<last_update_epoch, function, pc, plan, loose, bounds>>

GetsLate ==
    /\ ~late
    /\ late' = TRUE
    /\ UNCHANGED <<vars, epoch, last_update_epoch, function, pc, plan, loose, quiet, bounds>>

RewardsEnd ==
    /\ pc # "cleanup"
    /\ EndRewards
    /\ UNCHANGED <<epoch, last_update_epoch, late, function, pc, plan, loose, quiet, bounds>>

BotStep ==
    \/ ReadEpoch \/ ReadPool \/ Gate
    \/ ReadList \/ UpdateRecords \/ UpdateBalance \/ Cleanup \/ UpdateRefused
    \/ RebalanceEpoch \/ RebalancePool \/ RebalanceList \/ RebalanceVotes \/ MakePlan
    \/ Land \/ Refused \/ Done

BotNext ==
    \/ BotStep \/ Fail \/ LandLate
    \/ OtherSteps \/ EpochEnds \/ GetsLate \/ RewardsEnd

BotSpec == BotInit /\ [][BotNext]_bot_vars

\* The loop goes on, and the distribution of rewards ends.
BotFairness == WF_bot_vars(BotStep) /\ WF_bot_vars(RewardsEnd)

-----------------------------------------------------------------------------
BotTypeOK ==
    /\ TypeOK
    /\ epoch \in 1..MaxEpochs /\ last_update_epoch \in 1..epoch
    /\ pool_updated <=> last_update_epoch = epoch
    /\ {rebalanced, no_merge, quiet, late} \subseteq BOOLEAN
    /\ \A change \in plan \cup loose : change.vote \in Validators /\ change.lamports # 0
    /\ pc \in {"epoch", "pool", "gate", "list", "records", "balance", "cleanup",
               "r epoch", "r pool", "r again", "r list", "r votes", "r reserve", "gather"}

Raised(S) == {change \in S : change.lamports > 0}
Cost(S) == MapThenSumSet(LAMBDA change : change.lamports + RentExempt, Raised(S))

\* What an equalizing bot started holds together while nobody else touches the
\* pool, in whichever order its changes land.  The increases that are left can
\* be paid for, and the reserve keeps its rent and the retained amount, but for
\* the rent that each decrease borrows (DecreaseValidatorStakeWithReserve).  A
\* plan without decreases is accepted as a whole.
PlanHolds ==
    pc = "gather" /\ quiet /\ setting.equalize =>
        LET lowered == (seen.plan \ Raised(seen.plan)) \ plan
        IN  /\ Raised(seen.plan) # {} =>
                   reserve + Cardinality(lowered) * RentExempt
                       >= RentExempt + seen.retained + Cost(plan)
            /\ Raised(seen.plan) = seen.plan => \A change \in plan : ENABLED Execute(change)

\* The search of compute_stake_level against its description: "the highest one
\* whose bill fits", for the target and for what the reserve pays now.
LevelsAreHighest ==
    LET t == Targets(seen.list, seen.stakes, distributable_lamports, cap_lamports)
        zeros == [i \in DOMAIN t.chosen |-> 0]
        some == Increased(t, usable_reserve_lamports)
        Payable(level) ==
            bill([i \in DOMAIN some |-> t.externals[some[i]]], [i \in DOMAIN some |-> t.pools[some[i]]],
                 cap_lamports, level) + Len(some) * RentExempt <= usable_reserve_lamports
    IN  /\ t.level = Max({l \in 0..t.ceiling : bill(t.externals, zeros, cap_lamports, l) <= t.remaining})
        /\ some # <<>> =>
               ReachableLevel(t, cap_lamports, usable_reserve_lamports) = Max({l \in 0..t.level : Payable(l)})

\* The shares of an even split and the rent of its increases are within what is
\* to be distributed, when no stake is on the way.
SharesAreFunded ==
    LET share == lamports_per_validator(seen.list, distributable_lamports)
    IN  (\A i \in DOMAIN seen.list : seen.list[i].transient = 0) =>
            Len(seen.list) * share + Cardinality(Raised(changes)) * RentExempt <= distributable_lamports

\* Each plan is as even as the lamports allow: the level of an equalized plan is
\* the highest that can be paid for, and the shares of an even split are funded.
PlansAreBest ==
    [][pc = "r reserve" /\ pc' = "gather" =>
           IF setting.equalize
           THEN (\E i \in DOMAIN seen.list : Actionable(seen.list[i])) => LevelsAreHighest
           ELSE SharesAreFunded]_bot_vars

\* The service brings the pool up to date in every epoch that lasts, whatever
\* failed before: an update that is refused is tried without merges, and an
\* exception does not end the loop.
ServiceUpdates == ~pool_updated ~> pool_updated
=============================================================================
