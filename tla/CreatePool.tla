----------------------------- MODULE CreatePool ----------------------------
(***************************************************************************)
(* The create-pool command of the command-line client and the Initialize   *)
(* instruction.  A pool takes four transactions: the reserve, the mint,    *)
(* the fee account, and the pool with its validator list.  An operator     *)
(* whose command fails on the way runs it again, with the same keypairs or *)
(* with other ones.  A command looks at an account before it makes it, but *)
(* the transaction of an earlier attempt may still land after that look,   *)
(* and a request that fails looks like an account that does not exist.     *)
(***************************************************************************)
EXTENDS Fee, FiniteSets

CONSTANTS
    ReserveKeys, MintKeys, PoolKeys, ListKeys,
    NoKey,                  \* an authority that is no pool's
    Attempts,               \* arguments of create-pool
    InitialStates, InitialPoolStates,   \* of the accounts before the first attempt
    RentExempt,
    MAX_VALIDATORS_IN_POOL,
    MaxMade, MaxAttempts, MaxFaults, MaxGifts   \* bounds

\* What the constants have to be.
CreateAssumption ==
    /\ Attempts \subseteq
           [reserve : ReserveKeys, mint : MintKeys, pool : PoolKeys, list : ListKeys,
            max : Nat, epoch_fee : Fee, withdrawal_fee : Fee, deposit_fee : Fee,
            unsafe_fees : BOOLEAN]
    /\ RentExempt \in Nat /\ NoKey \notin PoolKeys
    /\ {MaxMade, MaxAttempts, MaxFaults, MaxGifts} \subseteq Nat

VARIABLES
    reserve, mint, fee_account, pool, list,   \* the accounts, by keypair
    pc,            \* where the command is
    attempt,       \* its arguments
    tx,            \* the transaction it waits for
    loose,         \* transactions of earlier attempts that may still land
    attempts, faults, gifts    \* so far

accounts == <<reserve, mint, fee_account, pool, list>>
client == <<pc, attempt, tx, attempts>>
vars == <<accounts, client, loose, faults, gifts>>

\* "foreign": lamports were sent to the address, nothing was created there.
\* "empty": created for its program, but not initialized.
States == {"none", "foreign", "empty", "init"}

NoAttempt == [pool |-> NoKey]
NoTx == [kind |-> "none", creates |-> {}, args |-> NoAttempt]

\* What was done to the accounts before the first attempt.  Somebody may have
\* made the mint, with an authority of their own.
Made(account) == {k \in DOMAIN account : account[k].state # "none"}

CreateInit ==
    /\ reserve \in [ReserveKeys -> {[state |-> s, authority |-> NoKey, lamports |-> RentExempt] :
                                        s \in InitialStates \ {"init"}}]
    /\ mint \in [MintKeys -> {[state |-> s, authority |-> NoKey, supply |-> 0] : s \in InitialStates}]
    /\ fee_account = [m \in MintKeys |-> FALSE]
    /\ pool \in [PoolKeys -> {[state |-> s] : s \in InitialPoolStates}]
    /\ list \in [ListKeys -> {[state |-> s, max |-> 1] : s \in InitialStates \ {"init"}}]
    /\ Cardinality(Made(reserve) \cup Made(mint) \cup Made(pool) \cup Made(list)) <= MaxMade
    /\ pc = "idle" /\ attempt = NoAttempt /\ tx = NoTx /\ loose = {}
    /\ attempts = 0 /\ faults = 0 /\ gifts = 0

-----------------------------------------------------------------------------
(***************************************************************************)
(* The program.                                                            *)
(***************************************************************************)
\* The pool and the list are new or not in use.
Uninitialized(creates, args) ==
    /\ IF "pool" \in creates THEN pool[args.pool].state = "none" ELSE pool[args.pool].state = "empty"
    /\ IF "list" \in creates THEN list[args.list].state = "none" ELSE list[args.list].state = "empty"

ReserveUsable(args) ==
    /\ reserve[args.reserve].state = "init"
    /\ reserve[args.reserve].authority = args.pool
    /\ reserve[args.reserve].lamports >= RentExempt

MintUsable(args) ==
    /\ mint[args.mint].state = "init"
    /\ mint[args.mint].supply = 0
    /\ mint[args.mint].authority = args.pool
    /\ fee_account[args.mint]

FeesAllowed(args) ==
    ~check_too_high(args.epoch_fee) /\ ~check_too_high(args.withdrawal_fee)
        /\ ~check_too_high(args.deposit_fee)

\* The size of the list fits the number of validators.
SizeFits(creates, args) ==
    /\ "list" \notin creates => list[args.list].max = args.max
    /\ args.max \in 1..MAX_VALIDATORS_IN_POOL

\* Mutant: what the reserve holds belongs to nobody.
Mutant_InitialTokens(args) == 0

\* The lamports of the reserve are minted one to one to the manager.
InitialTokens(args) == reserve[args.reserve].lamports - RentExempt

Initialize(creates, args) ==
    /\ Uninitialized(creates, args)
    /\ SizeFits(creates, args)
    /\ FeesAllowed(args)
    /\ MintUsable(args)
    /\ ReserveUsable(args)
    /\ mint' = [mint EXCEPT ![args.mint].supply = InitialTokens(args)]
    /\ list' = [list EXCEPT ![args.list] = [state |-> "init", max |-> args.max]]
    /\ pool' = [pool EXCEPT ![args.pool] =
           [state |-> "init", reserve |-> args.reserve, mint |-> args.mint, list |-> args.list,
            total_lamports |-> reserve[args.reserve].lamports - RentExempt,
            epoch_fee |-> args.epoch_fee, withdrawal_fee |-> args.withdrawal_fee,
            deposit_fee |-> args.deposit_fee]]
    /\ UNCHANGED <<reserve, fee_account>>

\* The transactions that only involve other programs.  An account is created
\* where there is none, and initialized once.
Creatable(account, creating) == account.state = IF creating THEN "none" ELSE "empty"

MakeReserve(creates, args) ==
    /\ Creatable(reserve[args.reserve], "reserve" \in creates)
    /\ reserve' = [reserve EXCEPT ![args.reserve].state = "init", ![args.reserve].authority = args.pool]
    /\ UNCHANGED <<mint, fee_account, pool, list>>

MakeMint(creates, args) ==
    /\ Creatable(mint[args.mint], "mint" \in creates)
    /\ mint' = [mint EXCEPT ![args.mint].state = "init", ![args.mint].authority = args.pool]
    /\ UNCHANGED <<reserve, fee_account, pool, list>>

MakeFeeAccount(creates, args) ==
    /\ "fee_account" \in creates => mint[args.mint].state = "init" /\ ~fee_account[args.mint]
    /\ fee_account' = [fee_account EXCEPT ![args.mint] = TRUE]
    /\ UNCHANGED <<reserve, mint, pool, list>>

Execute(t) ==
    \/ t.kind = "reserve" /\ MakeReserve(t.creates, t.args)
    \/ t.kind = "mint" /\ MakeMint(t.creates, t.args)
    \/ t.kind = "fee_account" /\ MakeFeeAccount(t.creates, t.args)
    \/ t.kind = "pool" /\ Initialize(t.creates, t.args)

-----------------------------------------------------------------------------
(***************************************************************************)
(* The command.                                                            *)
(***************************************************************************)
IsZero(fee) == fee.numerator = 0 \/ fee.denominator = 0

check_stake_pool_fees(args) ==
    /\ ~IsZero(args.epoch_fee)
    /\ ~(IsZero(args.withdrawal_fee) /\ IsZero(args.deposit_fee))

Return(result) ==
    pc' = result /\ tx' = NoTx /\ attempt' = NoAttempt /\ UNCHANGED attempts

Send(kind, creates) ==
    /\ pc' = "waiting"
    /\ tx' = [kind |-> kind, creates |-> creates, args |-> attempt]
    /\ UNCHANGED <<attempt, attempts>>

Continue(next) == pc' = next /\ tx' = NoTx /\ UNCHANGED <<attempt, attempts>>

\* What a look at an account shows; a failed request shows nothing.
Looks(account) ==
    \/ UNCHANGED faults /\ account.state = "none"
    \/ faults < MaxFaults /\ account.state # "none" /\ faults' = faults + 1
Sees(account, states) == account.state \in states /\ UNCHANGED faults

command_create_pool(args) ==
    /\ pc \in {"idle", "ok", "error"}
    /\ attempts < MaxAttempts
    /\ attempts' = attempts + 1
    /\ \/ /\ args.unsafe_fees \/ check_stake_pool_fees(args)
          /\ pc' = "reserve" /\ attempt' = args
       \/ /\ ~args.unsafe_fees /\ ~check_stake_pool_fees(args)
          /\ pc' = "error" /\ UNCHANGED attempt
    /\ UNCHANGED <<accounts, tx, loose, faults, gifts>>

\* Mutant: an account that is there already is made again.
Mutant_setup_reserve_stake_account ==
    /\ pc = "reserve"
    /\ Send("reserve", {"reserve"})
    /\ UNCHANGED <<accounts, loose, faults, gifts>>

setup_reserve_stake_account ==
    LET account == reserve[attempt.reserve]
    IN  /\ pc = "reserve"
        /\ \/ Sees(account, {"init"}) /\ Continue("mint")
           \/ Sees(account, {"empty"}) /\ Send("reserve", {})
           \/ (Looks(account) \/ Sees(account, {"foreign"})) /\ Send("reserve", {"reserve"})
        /\ UNCHANGED <<accounts, loose, gifts>>

setup_mint_account ==
    LET account == mint[attempt.mint]
    IN  /\ pc = "mint"
        /\ \/ /\ Sees(account, {"init"})
              /\ IF account.authority = attempt.pool THEN Continue("fee_account") ELSE Return("error")
           \/ Sees(account, {"empty"}) /\ Send("mint", {})
           \/ (Looks(account) \/ Sees(account, {"foreign"})) /\ Send("mint", {"mint"})
        /\ UNCHANGED <<accounts, loose, gifts>>

\* The account is looked at twice: here and in add_associated_token_account.
setup_pool_fee_account ==
    /\ pc = "fee_account"
    /\ \/ fee_account[attempt.mint] /\ Continue("pool") /\ UNCHANGED faults
       \/ fee_account[attempt.mint] /\ faults < MaxFaults /\ faults' = faults + 1
              /\ \E creates \in {{}, {"fee_account"}} : Send("fee_account", creates)
       \/ ~fee_account[attempt.mint] /\ Send("fee_account", {"fee_account"}) /\ UNCHANGED faults
    /\ UNCHANGED <<accounts, loose, gifts>>

\* How the list and the pool look: not there, ready, or in use.
Look(account, look) ==
    \/ look = "none" /\ (account.state = "none" \/ faults < MaxFaults)
    \/ look = "ready" /\ account.state \in {"foreign", "empty"}
    \/ look = "in use" /\ account.state = "init"

\* Transaction::new panics when a keypair signs that the message does not ask
\* for: the pool's, unless the pool is to be created.
SignersMatch(creates) == "pool" \in creates

setup_and_initialize_validator_list_with_stake_pool ==
    /\ pc = "pool"
    /\ \E l, p \in {"none", "ready", "in use"} :
           /\ Look(list[attempt.list], l) /\ Look(pool[attempt.pool], p)
           /\ faults' = IF \/ l = "none" /\ list[attempt.list].state # "none"
                           \/ p = "none" /\ pool[attempt.pool].state # "none"
                        THEN faults + 1 ELSE faults
           /\ LET creates == (IF l = "none" THEN {"list"} ELSE {})
                             \cup (IF p = "none" THEN {"pool"} ELSE {})
              IN  \/ "in use" \in {l, p} /\ Return("ok")
                  \/ "in use" \notin {l, p} /\ SignersMatch(creates) /\ Send("pool", creates)
                  \/ "in use" \notin {l, p} /\ ~SignersMatch(creates) /\ Return("error")
    /\ UNCHANGED <<accounts, loose, gifts>>

After(kind) ==
    CASE kind = "reserve" -> "mint" [] kind = "mint" -> "fee_account"
      [] kind = "fee_account" -> "pool" [] kind = "pool" -> "ok"

\* The transaction lands and the command hears of it.
Land ==
    /\ pc = "waiting"
    /\ Execute(tx)
    /\ IF tx.kind = "pool" THEN Return("ok") ELSE Continue(After(tx.kind))
    /\ UNCHANGED <<loose, faults, gifts>>

Fail ==
    /\ pc = "waiting"
    /\ ~ENABLED Execute(tx)
    /\ Return("error")
    /\ UNCHANGED <<accounts, loose, faults, gifts>>

\* The command ends, by a lost connection or by its operator's hand; its
\* transaction is on its way.
Disconnect ==
    /\ pc = "waiting" /\ faults < MaxFaults
    /\ faults' = faults + 1
    /\ loose' = loose \cup {tx}
    /\ Return("error")
    /\ UNCHANGED <<accounts, gifts>>

LandLate ==
    /\ \E t \in loose : Execute(t) /\ loose' = loose \ {t}
    /\ UNCHANGED <<client, faults, gifts>>

Lose ==
    /\ \E t \in loose : loose' = loose \ {t}
    /\ UNCHANGED <<accounts, client, faults, gifts>>

\* Lamports may be sent to the reserve.
Gift ==
    /\ gifts < MaxGifts /\ gifts' = gifts + 1
    /\ \E r \in ReserveKeys :
           /\ reserve[r].state \in {"empty", "init"}
           /\ reserve' = [reserve EXCEPT ![r].lamports = reserve[r].lamports + 1]
    /\ UNCHANGED <<mint, fee_account, pool, list, client, loose, faults>>

Command ==
    \/ setup_reserve_stake_account \/ setup_mint_account \/ setup_pool_fee_account
    \/ setup_and_initialize_validator_list_with_stake_pool

CreateNext ==
    \/ \E args \in Attempts : command_create_pool(args)
    \/ Command \/ Land \/ Fail \/ Disconnect \/ LandLate \/ Lose \/ Gift

CreateSpec == CreateInit /\ [][CreateNext]_vars

\* The operator tries again until the command succeeds; a transaction that is
\* waited for lands or fails.
CreateFairness ==
    /\ WF_vars(\E args \in Attempts : command_create_pool(args))
    /\ WF_vars(Command)
    /\ WF_vars(Land \/ Fail)

-----------------------------------------------------------------------------
CreateTypeOK ==
    /\ \A r \in ReserveKeys : reserve[r].state \in States /\ reserve[r].lamports \in Nat
    /\ \A m \in MintKeys : mint[m].state \in States /\ mint[m].supply \in Nat
    /\ \A p \in PoolKeys : pool[p].state \in States
    /\ \A l \in ListKeys : list[l].state \in States
    /\ fee_account \in [MintKeys -> BOOLEAN]
    /\ pc \in {"idle", "reserve", "mint", "fee_account", "pool", "waiting", "ok", "error"}
    /\ attempts \in 0..MaxAttempts /\ faults \in 0..MaxFaults /\ gifts \in 0..MaxGifts

Initialized == {p \in PoolKeys : pool[p].state = "init"}

\* create-pool returns Ok only when the pool it was asked for exists, or when
\* the validator list it was given serves a pool (the early returns of
\* setup_and_initialize_validator_list_with_stake_pool), whatever was lost or
\* landed late before.
OkMeansCreated ==
    [][pc # "ok" /\ pc' = "ok" =>
           \E p \in Initialized' : p = attempt.pool \/ pool'[p].list = attempt.list]_vars

\* However the attempts of create-pool are mixed, every pool has a reserve and
\* a mint that obey it, and a validator list that no other pool has
\* (process_initialize).
PoolsOwnTheirAccounts ==
    \A p \in Initialized :
        /\ reserve[pool[p].reserve].authority = p
        /\ mint[pool[p].mint].authority = p
        /\ list[pool[p].list].state = "init"
        /\ \A q \in Initialized \ {p} : pool[q].list # pool[p].list

\* Each pool starts with one token for each lamport its reserve holds above the
\* rent, also when lamports were sent to the reserve between the attempts
\* (process_initialize).
BackedFromTheStart ==
    \A p \in Initialized :
        /\ mint[pool[p].mint].supply = pool[p].total_lamports
        /\ pool[p].total_lamports <= reserve[pool[p].reserve].lamports - RentExempt

\* An operator who tries again with the same keypairs gets a pool, wherever the
\* earlier attempts stopped (the setup functions continue from what exists).
RetryConverges == <>(pc = "ok")
=============================================================================
