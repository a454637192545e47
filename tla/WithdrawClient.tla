--------------------------- MODULE WithdrawClient --------------------------
(***************************************************************************)
(* The withdraw-stake command of the command-line client, on the pool of   *)
(* StakePool.  The command reads the pool, the list and the reserve,       *)
(* chooses the stake accounts to withdraw from, and sends one transaction  *)
(* with a WithdrawStake for each.  Others use the pool between its reads   *)
(* and its transaction.  The instructions of the transaction run one after *)
(* the other with nothing in between; when one fails, all is as before.    *)
(***************************************************************************)
EXTENDS StakePool, SequencesExt

CONSTANTS
    ListOrder,          \* the validators, in the order of the list
    Requests,           \* what users ask for: [tokens, from, receiver, fee_exempt]
    Anywhere, Reserve,  \* values of `from`, which may also be a validator
    ActiveLamports, TransientLamports, Reserves,   \* of the pools at the start
    HeldByOthers,       \* pool tokens
    Prices,             \* lamports of a pool token in these pools
    MaxOthers           \* bound: steps of others

\* Where the stake goes: to accounts made for it, to one account of the user,
\* which a split fills only once, or by merges to a delegated account.
Receivers == {"new", "given", "delegated"}

\* What the constants have to be.
WithdrawAssumption ==
    /\ ListOrder \in [1..Cardinality(Validators) -> Validators]
    /\ Requests \subseteq [tokens : U64, from : Validators \cup {Anywhere, Reserve},
                           receiver : Receivers, fee_exempt : BOOLEAN]
    /\ {Anywhere, Reserve} \cap Validators = {}
    /\ MaxOthers \in Nat /\ HeldByOthers \in Nat

VARIABLES
    pc, request,      \* the command
    seen,             \* the pool as the command read it, and the list
    plan,             \* the withdrawals that are still to be made
    saved,            \* the state before the transaction
    tokens,           \* pool tokens of the user
    fee,              \* StakePool::stake_withdrawal_fee
    others            \* steps of others so far

command == <<pc, request, seen, plan, saved>>
all == <<vars, command, tokens, fee, others>>

\* The state that a failed transaction restores.
PoolState ==
    [total_lamports |-> total_lamports, pool_token_supply |-> pool_token_supply, status |-> status,
     active |-> active, transient |-> transient, reserve |-> reserve, vstake |-> vstake,
     tstake |-> tstake, mint |-> mint, preferred_deposit |-> preferred_deposit,
     preferred_withdraw |-> preferred_withdraw, tokens |-> tokens]
Nothing == <<>>
NoRequest == [tokens |-> 0, from |-> Anywhere, receiver |-> "new", fee_exempt |-> FALSE]

\* Validators with and without transient stake, one of them perhaps on its way
\* out, and tokens that have gained value.
WithdrawInit ==
    /\ \E a \in [Validators -> ActiveLamports], t \in [Validators -> TransientLamports] :
           /\ active = a /\ transient = t
           /\ status \in [Validators -> {"Active", "DeactivatingValidator"}]
           /\ \A v \in Validators : status[v] # "Active" => t[v] = 0
           /\ vstake = [v \in Validators |->
                  Stake(a[v], a[v] - RentExempt, "past", IF status[v] = "Active" THEN "never" ELSE "now")]
           /\ tstake = [v \in Validators |->
                  IF t[v] = 0 THEN NoAccount ELSE Stake(t[v], t[v] - RentExempt, "now", "never")]
    /\ reserve \in Reserves
    /\ total_lamports = reserve - RentExempt + Total(active) + Total(transient)
    /\ \E price \in Prices : pool_token_supply = total_lamports \div price
    /\ mint = pool_token_supply
    /\ tokens = saturating_sub(mint, HeldByOthers)
    /\ preferred_deposit = NoValidator
    /\ preferred_withdraw \in {v \in Validators : status[v] = "Active"} \cup {NoValidator}
    /\ pool_updated = TRUE /\ rewarding = FALSE
    /\ record_updated = [v \in Validators |-> TRUE]
    /\ fee \in PoolFees
    /\ pc = "idle" /\ request = NoRequest /\ seen = Nothing /\ plan = <<>> /\ saved = Nothing
    /\ others = 0

-----------------------------------------------------------------------------
(***************************************************************************)
(* The choice of accounts.                                                 *)
(***************************************************************************)
min_balance == RentExempt + minimum_delegation

Position(v) == CHOOSE i \in DOMAIN ListOrder : ListOrder[i] = v

\* Mutant: the preferred validator has no place of its own.
Mutant_Before(lamports, u, v) ==
    \/ lamports[u] > lamports[v]
    \/ lamports[u] = lamports[v] /\ Position(u) < Position(v)

\* The preferred validator, then by lamports; the sort is stable.
Before(lamports, u, v) ==
    \/ u = seen.pool.preferred_withdraw
    \/ /\ v # seen.pool.preferred_withdraw
       /\ \/ lamports[u] > lamports[v]
          \/ lamports[u] = lamports[v] /\ Position(u) < Position(v)

sorted_accounts(source, lamports) ==
    LET order == SetToSortSeq(Listed, LAMBDA u, v : Before(lamports, u, v))
    IN  [i \in DOMAIN order |->
            [source |-> source, vote |-> order[i], lamports |-> lamports[order[i]]]]

\* The accounts of the list, and with them the reserve.
ListAccounts ==
    sorted_accounts("validator", active)
    \o sorted_accounts("transient",
           [v \in Validators |-> saturating_sub(transient[v], min_balance)])

Candidates ==
    seen.accounts \o <<[source |-> "reserve", vote |-> NoValidator, lamports |-> reserve - RentExempt]>>

inverse_fee(f) == [numerator |-> f.denominator - f.numerator, denominator |-> f.denominator]

\* The tokens that lamports can be withdrawn for.
AvailableFor(lamports, skip_fee) ==
    LET tokens_wo_fee == calc_pool_tokens_for_deposit(seen.pool.total_lamports, seen.pool.pool_token_supply, lamports)
    IN  IF skip_fee THEN tokens_wo_fee
        ELSE (tokens_wo_fee * inverse_fee(fee).denominator) \div inverse_fee(fee).numerator

DividesByZero(skip_fee) == ~skip_fee /\ inverse_fee(fee).numerator = 0

\* What is left to plan after an account; the account that covers the rest is
\* the last one.
Take(skip_fee, left, account) ==
    IF left.covered \/ account.lamports <= min_balance THEN left
    ELSE LET available == AvailableFor(account.lamports, skip_fee)
             taken == IF available < left.amount THEN available ELSE left.amount
         IN  [amount |-> left.amount - taken, covered |-> taken = left.amount,
              items |-> Append(left.items,
                            [source |-> account.source, vote |-> account.vote, tokens |-> taken])]

Refusal == [kind |-> "error", items |-> <<>>]
Panic == [kind |-> "panic", items |-> <<>>]
Items(items) == [kind |-> "plan", items |-> items]

prepare_withdraw_accounts(pool_amount, skip_fee) ==
    IF DividesByZero(skip_fee) /\ \E i \in DOMAIN Candidates : Candidates[i].lamports > min_balance
    THEN Panic
    ELSE LET left == FoldLeft(LAMBDA l, account : Take(skip_fee, l, account),
                              [amount |-> pool_amount, covered |-> FALSE, items |-> <<>>], Candidates)
         IN  IF left.amount > 0 THEN Refusal ELSE Items(left.items)

\* With a vote account: its stake account, if it seems to hold enough.
FromValidator(v, pool_amount) ==
    LET spare == saturating_sub(saturating_sub(vstake[v].lamports, minimum_delegation), RentExempt)
        available == calc_lamports_withdraw_amount(seen.pool.total_lamports, seen.pool.pool_token_supply, spare)
    IN  IF vstake[v].state = "none" \/ available < pool_amount THEN Refusal
        ELSE Items(<<[source |-> "validator", vote |-> v, tokens |-> pool_amount]>>)

Chosen ==
    CASE request.from = Reserve ->
             Items(<<[source |-> "reserve", vote |-> NoValidator, tokens |-> request.tokens]>>)
      [] request.from \in Validators -> FromValidator(request.from, request.tokens)
      [] request.from = Anywhere -> prepare_withdraw_accounts(request.tokens, request.fee_exempt)

-----------------------------------------------------------------------------
(***************************************************************************)
(* The command and its transaction.                                        *)
(***************************************************************************)
Return(result) ==
    /\ pc' = result
    /\ plan' = <<>> /\ saved' = Nothing /\ seen' = Nothing /\ request' = NoRequest

Start(r) ==
    /\ pc = "idle"
    /\ pc' = "start"
    /\ request' = r
    /\ UNCHANGED <<vars, seen, plan, saved, tokens, fee, others>>

ReadPool ==
    /\ pc = "start"
    /\ \/ tokens < request.tokens /\ Return("error")
       \/ /\ tokens >= request.tokens
          /\ seen' = [pool |-> PoolState, accounts |-> <<>>]
          /\ pc' = "read"
          /\ UNCHANGED <<request, plan, saved>>
    /\ UNCHANGED <<vars, tokens, fee, others>>

\* get_validator_list; a withdrawal from the reserve does without.
ReadList ==
    /\ pc = "read"
    /\ \/ request.from \in Validators \ Listed /\ Return("error")
       \/ /\ request.from \notin Validators \ Listed
          /\ seen' = IF request.from = Anywhere THEN [seen EXCEPT !.accounts = ListAccounts] ELSE seen
          /\ pc' = "listed"
          /\ UNCHANGED <<request, plan, saved>>
    /\ UNCHANGED <<vars, tokens, fee, others>>

\* The reserve, or the stake account of the vote account, is read.
MakePlan ==
    /\ pc = "listed"
    /\ \/ Chosen.kind # "plan" /\ Return(Chosen.kind)
       \/ /\ Chosen.kind = "plan"
          /\ plan' = Chosen.items
          /\ pc' = "planned"
          /\ UNCHANGED <<request, seen, saved>>
    /\ UNCHANGED <<vars, tokens, fee, others>>

\* The transaction lands, or it is refused or lost before that.
Begin ==
    /\ pc = "planned"
    /\ \/ pc' = "running" /\ saved' = PoolState /\ UNCHANGED <<request, seen, plan>>
       \/ Return("error")
    /\ UNCHANGED <<vars, tokens, fee, others>>

\* The account a withdrawal of this validator must name.
SourceOf(v) ==
    IF ~HasActiveStake /\ (HasTransientStake \/ transient[v] # 0) THEN "transient" ELSE "validator"

Withdraw(item) ==
    /\ request.receiver # "used"
    /\ item.tokens <= tokens
    /\ \/ /\ item.source = "reserve"
          /\ WithdrawStakeFromReserve(item.tokens, fee, request.fee_exempt)
       \/ /\ item.source # "reserve"
          /\ item.source = SourceOf(item.vote)
          /\ WithdrawStake(item.vote, item.tokens, fee, request.fee_exempt)

\* The approval is for the tokens of all withdrawals.
Instruction ==
    /\ pc = "running" /\ plan # <<>>
    /\ Withdraw(Head(plan))
    /\ tokens' = tokens - Head(plan).tokens
    /\ plan' = Tail(plan)
    /\ request' = IF request.receiver = "given" THEN [request EXCEPT !.receiver = "used"] ELSE request
    /\ UNCHANGED <<pc, seen, saved, fee, others>>

Commit ==
    /\ pc = "running" /\ plan = <<>>
    /\ Return("ok")
    /\ UNCHANGED <<vars, tokens, fee, others>>

\* A withdrawal fails, or a merge into the account of the user: so does the
\* transaction, and what it did is undone.
Rollback ==
    /\ pc = "running"
    /\ IF plan # <<>> THEN ~ENABLED Withdraw(Head(plan)) ELSE request.receiver = "delegated"
    /\ total_lamports' = saved.total_lamports
    /\ pool_token_supply' = saved.pool_token_supply
    /\ status' = saved.status
    /\ active' = saved.active
    /\ transient' = saved.transient
    /\ reserve' = saved.reserve
    /\ vstake' = saved.vstake
    /\ tstake' = saved.tstake
    /\ mint' = saved.mint
    /\ preferred_deposit' = saved.preferred_deposit
    /\ preferred_withdraw' = saved.preferred_withdraw
    /\ tokens' = saved.tokens
    /\ Return("error")
    /\ UNCHANGED <<pool_updated, record_updated, rewarding, fee, others>>

\* Others, who do not touch the tokens of this user.
OtherSteps ==
    /\ pc \in {"start", "read", "listed", "planned"}
    /\ others < MaxOthers
    /\ others' = others + 1
    /\ \/ \E lamports \in DepositAmounts : DepositSol(lamports, fee)
       \/ \E v \in Validators :
              \/ RemoveValidatorFromPool(v)
              \/ \E lamports \in StakeAmounts : IncreaseValidatorStake(v, lamports, FALSE)
       \/ \E v \in Preferable \cup {NoValidator} : SetPreferredWithdraw(v)
    /\ UNCHANGED <<command, tokens, fee>>

WithdrawNext ==
    \/ \E r \in Requests : Start(r)
    \/ ReadPool \/ ReadList \/ MakePlan \/ Begin \/ Instruction \/ Commit \/ Rollback
    \/ OtherSteps

WithdrawSpec == WithdrawInit /\ [][WithdrawNext]_all

-----------------------------------------------------------------------------
WithdrawTypeOK ==
    /\ TypeOK
    /\ pc \in {"idle", "start", "read", "listed", "planned", "running", "ok", "error", "panic"}
    /\ others \in 0..MaxOthers
    /\ tokens \in U64
    /\ plan \in Seq([source : {"validator", "transient", "reserve"},
                     vote : Validators \cup {NoValidator}, tokens : U64])

\* The pool is as the command read it.
FreshPlan == pc = "planned" /\ seen.pool = PoolState

\* A command that returns Ok has withdrawn for exactly the tokens it was asked
\* for, over however many accounts (command_withdraw_stake approves
\* pool_amount once and splits it in prepare_withdraw_accounts).
OkMeansAll ==
    [][pc = "running" /\ pc' = "ok" => saved.tokens - tokens = request.tokens]_all

\* A withdrawal from anywhere is never refused for the preferred validator's
\* sake when nobody changed the pool since (IncorrectWithdrawVoteAddress in
\* process_withdraw_stake): sorted_accounts puts that validator first.
PreferredFirst ==
    FreshPlan /\ request.from = Anywhere /\ plan # <<>> /\ plan[1].source = "validator"
        => PreferredAllows(plan[1].vote)

\* What an item of the plan is worth to the program.
Worth(item) == LamportsFor(Burnt(item.tokens, fee, request.fee_exempt))

\* One active account that can pay for the item and keep its minimum.
Fits(item) ==
    /\ item.source = "validator" /\ status[item.vote] = "Active"
    /\ HasActiveStake
    /\ Worth(item) > 0
    /\ active[item.vote] >= Worth(item) + minimum_stake_lamports

\* A plan of one active account that can pay for it, and keep its minimum, is
\* one that the program carries out when nobody changed the pool since: the
\* client's choice and the checks of process_withdraw_stake agree.
SmallRequestsServed ==
    FreshPlan /\ request.from = Anywhere /\ Len(plan) = 1 /\ Fits(plan[1])
        => ENABLED Withdraw(plan[1])
=============================================================================
