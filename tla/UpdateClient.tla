---------------------------- MODULE UpdateClient ---------------------------
(***************************************************************************)
(* The update of a pool at the start of an epoch, as the update command of *)
(* the command-line client and update_stake_pool of the Python client run  *)
(* it: read the pool, the epoch and the validator list; send one           *)
(* transaction for every chunk of the list, all but the last one without   *)
(* waiting; then one that sums the records up and removes the entries that *)
(* are done.  Records are addressed by their position.  Between any two    *)
(* steps the epoch may end, others update, clean up or change the list,    *)
(* and a transaction that nobody waits for may be lost or land late.       *)
(***************************************************************************)
EXTENDS Integers, SequencesExt

CONSTANTS
    Votes,                      \* validators
    FeeAccounts,
    MAX_VALIDATORS_TO_UPDATE,   \* records of one transaction
    Options,                    \* [force, stale_only, no_merge, no_update] of a command
    MaxLen,                     \* bound: records of the list
    MaxEpoch,                   \* bound: the last epoch
    MaxChanges,                 \* bound: changes by the staker and the manager
    MaxLoose                    \* bound: transactions nobody waits for

\* What the constants have to be.
UpdateAssumption ==
    /\ MAX_VALIDATORS_TO_UPDATE \in Nat \ {0}
    /\ Options \subseteq
           [force : BOOLEAN, stale_only : BOOLEAN, no_merge : BOOLEAN, no_update : BOOLEAN]
    /\ {MaxLen, MaxEpoch, MaxChanges, MaxLoose} \subseteq Nat

VARIABLES
    epoch, rewarding,            \* Clock::epoch, EpochRewards::active
    list,                        \* the records of the validator list
    last_update_epoch, manager_fee_account,  \* of the pool
    pc, option, seen, todo,      \* the command: step, options, what it read, what it sends
    loose,                       \* transactions on their way that nobody waits for
    began,                       \* the epoch in which the command was started
    changes                      \* changes made so far

pool == <<last_update_epoch, manager_fee_account>>
chain == <<epoch, rewarding, list, pool, changes>>
client == <<pc, option, seen, todo, began>>
vars == <<chain, client, loose>>

\* The stake accounts of a record: their addresses are derived from its vote
\* account and its seeds.
Pair(r) == <<r.vote, r.seed>>

Record(vote, seed) ==
    [vote |-> vote, seed |-> seed, status |-> "Active", last_update_epoch |-> epoch,
     from |-> <<vote, seed>>]

-----------------------------------------------------------------------------
(***************************************************************************)
(* The instructions, on the records.                                       *)
(***************************************************************************)
\* What an update makes of a record for which it was given the accounts
\* `pair`: the lamports come from these, which `from` remembers; the entry of
\* a removed validator is done once its accounts are merged away.
Updated(r, pair, no_merge, done) ==
    [r EXCEPT !.last_update_epoch = epoch,
              !.from = pair,
              !.status = IF ~no_merge /\ r.vote \in done
                         THEN "ReadyForRemoval" ELSE @]

InSlice(l, ins) == ins.start + Len(ins.pairs) <= Len(l)

\* Mutant: a record is updated from whatever accounts stand at its place.
Mutant_UpdateRecords(l, ins, done) ==
    [i \in 1..Len(l) |->
        IF i \in ins.start + 1 .. ins.start + Len(ins.pairs)
        THEN Updated(l[i], ins.pairs[i - ins.start], ins.no_merge, done)
        ELSE l[i]]

\* A record whose accounts are not the ones at its place is passed over.
UpdateRecords(l, ins, done) ==
    [i \in 1..Len(l) |->
        IF /\ i \in ins.start + 1 .. ins.start + Len(ins.pairs)
           /\ ins.pairs[i - ins.start] = Pair(l[i])
        THEN Updated(l[i], Pair(l[i]), ins.no_merge, done)
        ELSE l[i]]

IsRemoved(r) == r.status = "ReadyForRemoval"

Retained(l) == SelectSeq(l, LAMBDA r : ~IsRemoved(r))

Deactivating == {r.vote : r \in {x \in Range(list) : x.status = "Deactivating"}}

UpdateValidatorListBalance(ins) ==
    /\ ~rewarding
    /\ InSlice(list, ins)
    /\ \E done \in SUBSET Deactivating : list' = UpdateRecords(list, ins, done)
    /\ UNCHANGED <<epoch, rewarding, pool, changes>>

\* In an epoch in which the pool is up to date, stake that is being deactivated
\* makes an update that merges fail as a whole.
MergeMayFail(ins) == last_update_epoch = epoch /\ ~ins.no_merge

UpdateStakePoolBalance(fee) ==
    /\ fee = manager_fee_account
    /\ \A r \in Range(list) : r.last_update_epoch >= epoch
    /\ last_update_epoch' = epoch

\* The last transaction of an update: both instructions or none.
Final(ins) ==
    /\ UpdateStakePoolBalance(ins.fee)
    /\ list' = Retained(list)
    /\ UNCHANGED <<epoch, rewarding, manager_fee_account, changes>>

Execute(ins) == IF ins.name = "final" THEN Final(ins) ELSE UpdateValidatorListBalance(ins)

MayFail(ins) == ~ENABLED Execute(ins) \/ (ins.name = "list" /\ MergeMayFail(ins))

-----------------------------------------------------------------------------
(***************************************************************************)
(* The builders of instruction.rs.                                         *)
(***************************************************************************)
update_validator_list_balance_chunk(l, len, start, no_merge) ==
    [name |-> "list", start |-> start, no_merge |-> no_merge,
     pairs |-> [i \in 1..len |-> Pair(l[start + i])]]

\* Mutant: a chunk is left out if one of its records is up to date.
Mutant_NothingStale(l, len, start, current_epoch) ==
    \E i \in start + 1 .. start + len : l[i].last_update_epoch >= current_epoch

\* update_stale_validator_list_balance_chunk builds nothing for such a chunk.
NothingStale(l, len, start, current_epoch) ==
    \A i \in start + 1 .. start + len : l[i].last_update_epoch >= current_epoch

\* Mutant: chunks are counted from one.
Mutant_ChunkStarts(n) == [i \in 1..(n + MAX_VALIDATORS_TO_UPDATE - 1) \div MAX_VALIDATORS_TO_UPDATE
                              |-> i * MAX_VALIDATORS_TO_UPDATE]

\* Where the chunks of a list of n records start, and how long they are.
ChunkStarts(n) == [i \in 1..(n + MAX_VALIDATORS_TO_UPDATE - 1) \div MAX_VALIDATORS_TO_UPDATE
                       |-> (i - 1) * MAX_VALIDATORS_TO_UPDATE]
ChunkLen(n, start) ==
    IF n - start < MAX_VALIDATORS_TO_UPDATE THEN n - start ELSE MAX_VALIDATORS_TO_UPDATE

final_instructions(fee) == [name |-> "final", fee |-> fee]

update_stake_pool(l, fee, no_merge) ==
    [i \in DOMAIN ChunkStarts(Len(l)) |->
        LET start == ChunkStarts(Len(l))[i]
        IN  update_validator_list_balance_chunk(l, ChunkLen(Len(l), start), start, no_merge)]
    \o <<final_instructions(fee)>>

update_stale_stake_pool(l, fee, no_merge, current_epoch) ==
    LET stale == SelectSeq(ChunkStarts(Len(l)),
                     LAMBDA start : ~NothingStale(l, ChunkLen(Len(l), start), start, current_epoch))
    IN  [i \in DOMAIN stale |->
            update_validator_list_balance_chunk(l, ChunkLen(Len(l), stale[i]), stale[i], no_merge)]
        \o <<final_instructions(fee)>>

-----------------------------------------------------------------------------
(***************************************************************************)
(* The command.                                                            *)
(***************************************************************************)
Nothing == [last_update_epoch |-> 0, fee |-> "none", epoch |-> 0]
NoOption == [force |-> FALSE, stale_only |-> FALSE, no_merge |-> FALSE, no_update |-> FALSE]

Over == pc \in {"idle", "ok", "error"}

\* The command returns, and its variables are gone.
Return(result) ==
    /\ pc' = result
    /\ option' = NoOption /\ seen' = Nothing /\ todo' = <<>>
    /\ UNCHANGED began

Start(o) ==
    /\ Over
    /\ pc' = "pool"
    /\ option' = o
    /\ began' = epoch
    /\ UNCHANGED <<seen, todo, chain, loose>>

\* With --no-update the command does nothing, and reports success.
ReadPool ==
    /\ pc = "pool"
    /\ \/ option.no_update /\ Return("ok")
       \/ /\ ~option.no_update
          /\ seen' = [seen EXCEPT !.last_update_epoch = last_update_epoch, !.fee = manager_fee_account]
          /\ pc' = "epoch"
          /\ UNCHANGED <<option, todo, began>>
    /\ UNCHANGED <<chain, loose>>

NotRequired == seen.last_update_epoch = epoch /\ ~option.force

ReadEpoch ==
    /\ pc = "epoch"
    /\ \/ NotRequired /\ Return("ok")
       \/ /\ ~NotRequired
          /\ seen' = [seen EXCEPT !.epoch = epoch]
          /\ pc' = "list"
          /\ UNCHANGED <<option, todo, began>>
    /\ UNCHANGED <<chain, loose>>

ReadList ==
    /\ pc = "list"
    /\ todo' = IF option.stale_only
               THEN update_stale_stake_pool(list, seen.fee, option.no_merge, seen.epoch)
               ELSE update_stake_pool(list, seen.fee, option.no_merge)
    /\ pc' = "send"
    /\ UNCHANGED <<option, seen, began, chain, loose>>

\* The simulation before sending refuses a transaction that would fail now.
Refused ==
    /\ pc = "send"
    /\ MayFail(Head(todo))
    /\ Return("error")
    /\ UNCHANGED <<chain, loose>>

\* send_transaction_no_wait, for all list instructions but the last.
SendNoWait ==
    /\ pc = "send"
    /\ Len(todo) > 2
    /\ ENABLED Execute(Head(todo))
    /\ Cardinality(loose \cup {Head(todo)}) <= MaxLoose
    /\ loose' = loose \cup {Head(todo)}
    /\ todo' = Tail(todo)
    /\ UNCHANGED <<pc, option, seen, began, chain>>

\* send_transaction, for the last list instruction and the final transaction.
Send ==
    /\ pc = "send"
    /\ Len(todo) <= 2
    /\ ENABLED Execute(Head(todo))
    /\ pc' = "wait"
    /\ UNCHANGED <<option, seen, todo, began, chain, loose>>

Land ==
    /\ pc = "wait"
    /\ Execute(Head(todo))
    /\ \/ /\ Len(todo) = 2
          /\ pc' = "send"
          /\ todo' = Tail(todo)
          /\ UNCHANGED <<option, seen, began>>
       \/ Len(todo) = 1 /\ Return("ok")
    /\ UNCHANGED loose

\* It fails, or it expires with its blockhash.
Fail ==
    /\ pc = "wait"
    /\ Return("error")
    /\ UNCHANGED <<chain, loose>>

\* The connection is lost: the transaction is still on its way.
Disconnect ==
    /\ pc = "wait"
    /\ Cardinality(loose \cup {Head(todo)}) <= MaxLoose
    /\ loose' = loose \cup {Head(todo)}
    /\ Return("error")
    /\ UNCHANGED chain

\* A transaction nobody waits for lands; another command may have sent the
\* same, which is still on its way.
LandLoose(ins) ==
    /\ ins \in loose
    /\ Execute(ins)
    /\ loose' \in {loose, loose \ {ins}}
    /\ UNCHANGED client

Lose ==
    /\ \E ins \in loose : loose' = loose \ {ins}
    /\ UNCHANGED <<chain, client>>

-----------------------------------------------------------------------------
(***************************************************************************)
(* Everybody else.  The staker changes the list of an updated pool only.   *)
(***************************************************************************)
UpToDate == last_update_epoch = epoch

NextEpoch ==
    /\ epoch < MaxEpoch
    /\ epoch' = epoch + 1
    /\ rewarding' \in BOOLEAN
    /\ UNCHANGED <<list, pool, changes>>

RewardsPaid ==
    /\ rewarding
    /\ rewarding' = FALSE
    /\ UNCHANGED <<epoch, list, pool, changes>>

\* Mutant: nobody looks whether the validator is in the list.
Mutant_AddValidator(vote, seed) ==
    /\ UpToDate
    /\ Len(list) < MaxLen
    /\ list' = Append(list, Record(vote, seed))
    /\ UNCHANGED <<epoch, rewarding, pool>>

AddValidator(vote, seed) ==
    /\ UpToDate
    /\ Len(list) < MaxLen
    /\ \A r \in Range(list) : r.vote # vote
    /\ list' = Append(list, Record(vote, seed))
    /\ UNCHANGED <<epoch, rewarding, pool>>

RemoveValidator(i) ==
    /\ UpToDate
    /\ list[i].status = "Active"
    /\ list' = [list EXCEPT ![i].status = "Deactivating"]
    /\ UNCHANGED <<epoch, rewarding, pool>>

\* IncreaseValidatorStake and DecreaseValidatorStake choose the transient seed,
\* and write the lamports they move into the record.
MoveStake(i, seed) ==
    /\ UpToDate
    /\ list[i].status = "Active"
    /\ list' = [list EXCEPT ![i].seed = seed, ![i].from = <<list[i].vote, seed>>]
    /\ UNCHANGED <<epoch, rewarding, pool>>

SetManager(fee) ==
    /\ manager_fee_account' = fee
    /\ UNCHANGED <<epoch, rewarding, list, last_update_epoch>>

Change ==
    /\ changes < MaxChanges
    /\ changes' = changes + 1
    /\ \/ \E vote \in Votes, seed \in {0, 1} : AddValidator(vote, seed)
       \/ \E i \in DOMAIN list : RemoveValidator(i) \/ \E seed \in {0, 1} : MoveStake(i, seed)
       \/ \E fee \in FeeAccounts : SetManager(fee)

\* Instructions of other people, made from the accounts of the moment.
OtherUpdate ==
    \/ \E start \in 0..Len(list) - 1, no_merge \in BOOLEAN :
           UpdateValidatorListBalance(
               update_validator_list_balance_chunk(list, ChunkLen(Len(list), start), start, no_merge))
    \/ Final(final_instructions(manager_fee_account))

OtherCleanup ==
    /\ \E r \in Range(list) : IsRemoved(r)
    /\ list' = Retained(list)
    /\ UNCHANGED <<epoch, rewarding, pool, changes>>

Others ==
    /\ NextEpoch \/ RewardsPaid \/ Change \/ OtherUpdate \/ OtherCleanup
    /\ UNCHANGED <<client, loose>>

Command == ReadPool \/ ReadEpoch \/ ReadList \/ Refused \/ SendNoWait \/ Send

Network ==
    \/ Land \/ Fail \/ Disconnect \/ Lose
    \/ \E ins \in loose : LandLoose(ins)

Next == (\E o \in Options : Start(o)) \/ Command \/ Network \/ Others

InitList(votes) == [i \in 1..Len(votes) |-> Record(votes[i], 0)]

Init ==
    /\ epoch = 1 /\ rewarding = FALSE
    /\ \E votes \in SetToSeqs(Votes), n \in 1..MaxLen : list = InitList(SubSeq(votes, 1, n))
    /\ last_update_epoch = 1 /\ manager_fee_account \in FeeAccounts
    /\ pc = "idle" /\ option = NoOption /\ seen = Nothing /\ todo = <<>> /\ began = 1
    /\ loose = {} /\ changes = 0

Spec == Init /\ [][Next]_vars

\* The command is run again and again, and goes on; the rewards of an epoch are
\* paid; a transaction that is sent again and again lands sometime.
Fairness ==
    /\ WF_vars(\E o \in Options : Start(o))
    /\ WF_vars(Command)
    /\ WF_vars(Land \/ Fail \/ Disconnect)
    /\ WF_vars(RewardsPaid /\ UNCHANGED <<client, loose>>)
    /\ WF_vars(Lose)
    /\ SF_vars(Land /\ Len(todo) = 2)
    /\ SF_vars(Land /\ Len(todo) = 1)
    /\ \A start \in 0..MaxLen :
           SF_vars(\E ins \in loose :
                       /\ ins.name = "list" /\ ins.start = start /\ InSlice(list, ins)
                       /\ \A i \in 1..Len(ins.pairs) : ins.pairs[i] = Pair(list[start + i])
                       /\ LandLoose(ins))

FairSpec == Spec /\ Fairness

-----------------------------------------------------------------------------
(***************************************************************************)
(* Properties.                                                             *)
(***************************************************************************)
\* Every vote account has one record, and no record is ahead of its time.
UpdateTypeOK ==
    /\ Len(list) <= MaxLen
    /\ \A i, j \in DOMAIN list : list[i].vote = list[j].vote => i = j
    /\ \A r \in Range(list) : r.last_update_epoch \in 1..epoch
    /\ last_update_epoch \in 1..epoch
    /\ pc \in {"idle", "pool", "epoch", "list", "send", "wait", "ok", "error"}
    /\ Cardinality(loose) <= MaxLoose

\* A record shows the lamports of its own stake accounts and of no others,
\* although the position of a record and the accounts for it come from a list
\* that was read before.
OwnAccounts == \A r \in Range(list) : r.from = Pair(r)

\* A command that reports success leaves a pool that was brought up to date no
\* earlier than the epoch in which the command was started, whatever was lost
\* and whoever else was at work, unless --no-update kept it from doing anything.
OkMeansUpdated ==
    [][pc # "ok" /\ pc' = "ok" /\ ~option.no_update => last_update_epoch' >= began]_vars

\* When nothing has changed since the list was read, the instructions that were
\* built bring every record up to date, also when chunks that need no update
\* are left out.
PlanSuffices ==
    LET l == FoldLeft(LAMBDA done, ins : IF ins.name = "list" THEN UpdateRecords(done, ins, {}) ELSE done,
                      list, todo')
    IN  ReadList /\ seen.epoch = epoch => \A r \in Range(l) : r.last_update_epoch = epoch
PlansSuffice == [][PlanSuffices]_vars

\* Someone who runs the command until it succeeds brings the pool up to date,
\* if transactions that are sent often enough land and the epoch lasts.
UpdateConverges == []<>UpToDate
=============================================================================
