---------------------------- MODULE WsolSession ----------------------------
(***************************************************************************)
(* DepositWsolWithSession and WithdrawWsolWithSession: wrapped SOL (WSOL)  *)
(* goes into the pool and comes out of it, on the signature of a user or   *)
(* of a session that acts for the user.  The lamports of a deposit pass    *)
(* through a temporary token account and the program signer before they    *)
(* reach the reserve; a paymaster pays the rent of the temporary account   *)
(* and gets it back.                                                       *)
(*                                                                         *)
(* Each instruction is one action.  The calls a handler makes one after    *)
(* the other are functions on the balances they move, so the order of the  *)
(* calls, and what a refused call or check finds, is kept.  The pool is    *)
(* the part of StakePool these instructions touch; PoolView shows that the *)
(* session instructions are, for the pool, its DepositSol and WithdrawSol. *)
(***************************************************************************)
EXTENDS PoolMath, Sums

CONSTANTS
    Wallets,             \* of the users
    Closers,             \* users who may close their WSOL account
    Sessions,            \* session accounts
    SessionUser,         \* the user each session acts for
    RentExempt,          \* rent-exempt reserve of a stake account
    TokenRent,           \* rent-exempt balance of a token account
    InitialReserve,
    InitialWsol,         \* WSOL each user starts with
    InitialPayer,        \* lamports of the paymaster
    Amounts,             \* lamports of a deposit, pool tokens of a withdrawal
    PoolFees,
    Gifts,               \* lamports strangers send to an account
    MaxSol               \* bound: lamports in all accounts

ASSUME SessionAssumption ==
    /\ IsFiniteSet(Wallets) /\ Closers \subseteq Wallets /\ SessionUser \in [Sessions -> Wallets]
    /\ TokenRent \in 1..MaxU64 /\ RentExempt \in 1..MaxU64
    /\ InitialReserve \in RentExempt..MaxU64
    /\ UNION {Amounts, Gifts, {InitialWsol, InitialPayer, MaxSol}} \subseteq U64
    /\ PoolFees \subseteq {fee \in Fee : ~check_too_high(fee)}
    /\ InitialReserve + InitialPayer + Cardinality(Wallets) * (InitialWsol + TokenRent) <= MaxSol

VARIABLES
    total_lamports, pool_token_supply, pool_updated, mint, reserve,   \* as in StakePool
    wsol,        \* the users' associated token accounts for WSOL
    transient,   \* lamports at the address of a user's temporary token account
    signer,      \* lamports of the program signer
    payer,       \* lamports of the paymaster
    tokens,      \* pool tokens of each user
    fees,        \* pool tokens of the manager and of referrers
    alive        \* sessions that have not expired

pool == <<total_lamports, pool_token_supply, pool_updated, mint>>
vars == <<pool, reserve, wsol, transient, signer, payer, tokens, fees, alive>>

NoWsol == [open |-> FALSE, lamports |-> 0, amount |-> 0]

Held ==
    reserve + signer + payer + SumOver(Wallets, [u \in Wallets |-> wsol[u].lamports + transient[u]])

Room(lamports) == Held + lamports <= MaxSol

Init ==
    /\ reserve = InitialReserve
    /\ total_lamports = reserve - RentExempt
    /\ pool_token_supply = total_lamports
    /\ mint = total_lamports
    /\ pool_updated = TRUE
    /\ wsol = [u \in Wallets |-> [open |-> TRUE, lamports |-> InitialWsol + TokenRent, amount |-> InitialWsol]]
    /\ transient = [u \in Wallets |-> 0]
    /\ signer = 0
    /\ payer = InitialPayer
    /\ tokens = [u \in Wallets |-> 0]
    /\ fees = total_lamports
    /\ alive = Sessions
-----------------------------------------------------------------------------
(***************************************************************************)
(* The calls of a deposit, on the balances they move: lamports of the      *)
(* paymaster, the temporary account, the program signer, the reserve and   *)
(* the user's WSOL account, and the WSOL the two token accounts count.     *)
(***************************************************************************)
Balances(u) ==
    [payer |-> payer, transient |-> transient[u], counted |-> 0, signer |-> signer,
     reserve |-> reserve, wsol |-> wsol[u].lamports, amount |-> wsol[u].amount]

\* The account is created with its rent, or topped up to it when there are
\* lamports at its address already.
create_pda_account(b) ==
    LET required == saturating_sub(TokenRent, b.transient)
    IN  [b EXCEPT !.payer = @ - required, !.transient = @ + required]

\* A new account of the native mint counts what it holds above its rent.
initialize_account3(b) == [b EXCEPT !.counted = b.transient - TokenRent]

transfer_checked(b, lamports) ==
    [b EXCEPT !.wsol = @ - lamports, !.amount = @ - lamports,
              !.transient = @ + lamports, !.counted = @ + lamports]

close_account(b) ==
    [b EXCEPT !.signer = @ + b.transient, !.transient = 0, !.counted = 0]

\* Mutant: the rent is paid back to the user.
Mutant_RefundRent(b) == [b EXCEPT !.signer = @ - TokenRent, !.wsol = @ + TokenRent]

RefundRent(b) == [b EXCEPT !.signer = @ - TokenRent, !.payer = @ + TokenRent]

\* Mutant: the rent goes to the reserve as well.
Mutant_ForwardToReserve(b, lamports) ==
    [b EXCEPT !.signer = @ - lamports - TokenRent, !.reserve = @ + lamports + TokenRent]

ForwardToReserve(b, lamports) ==
    [b EXCEPT !.signer = @ - lamports, !.reserve = @ + lamports]

\* Mutant: whatever the temporary account counts is let through.
Mutant_AmountArrived(b, lamports) == b.counted >= lamports

\* The temporary account counts exactly the deposit.
AmountArrived(b, lamports) == b.counted = lamports

\* The user behind a signature, which may be a session's.
extract_user_from_signer_or_session(s) == IF s \in Sessions THEN SessionUser[s] ELSE s
Authorised(s) == s \in Sessions => s \in alive

\* Mutant: the lamports are transferred from the reserve to itself and counted
\* again.
Mutant_DepositedReserve(b, lamports, is_wsol_path) == b.reserve + lamports

\* process_deposit_sol moves the lamports itself, unless they came this way.
DepositedReserve(b, lamports, is_wsol_path) ==
    IF is_wsol_path THEN b.reserve ELSE b.reserve + lamports

\* process_deposit_sol, with the balances b in place of the accounts.
process_deposit_sol(b, lamports, fee, to, is_wsol_path) ==
    LET new     == calc_pool_tokens_for_deposit(total_lamports, pool_token_supply, lamports)
        new_fee == apply(fee, new)
    IN  /\ pool_updated
        /\ new - new_fee > 0
        /\ mint + new \in U64 /\ total_lamports + lamports \in U64
        /\ DepositedReserve(b, lamports, is_wsol_path) \in U64
        /\ reserve' = DepositedReserve(b, lamports, is_wsol_path)
        /\ tokens' = [tokens EXCEPT ![to] = @ + new - new_fee]
        /\ fees' = fees + new_fee
        /\ mint' = mint + new
        /\ pool_token_supply + new \in U64
        /\ pool_token_supply' = pool_token_supply + new
        /\ total_lamports' = total_lamports + lamports
        /\ UNCHANGED pool_updated

DepositWsolWithSession(s, lamports, fee, to) ==
    LET u       == extract_user_from_signer_or_session(s)
        funded  == initialize_account3(create_pda_account(Balances(u)))
        arrived == transfer_checked(funded, lamports)
        done    == ForwardToReserve(RefundRent(close_account(arrived)), lamports)
    IN  /\ Authorised(s)
        /\ wsol[u].open
        /\ funded.payer >= 0
        /\ arrived.amount >= 0
        /\ AmountArrived(arrived, lamports)
        /\ process_deposit_sol(done, lamports, fee, to, TRUE)
        /\ wsol' = [wsol EXCEPT ![u] = [open |-> TRUE, lamports |-> done.wsol, amount |-> done.amount]]
        /\ transient' = [transient EXCEPT ![u] = done.transient]
        /\ signer' = done.signer
        /\ payer' = done.payer
        /\ UNCHANGED alive

-----------------------------------------------------------------------------
\* Mutant: the fee is not taken from the user.
Mutant_TakenFrom(pool_tokens, burnt) == burnt

\* The user pays with the tokens that are burnt and the fee.
TakenFrom(pool_tokens, burnt) == pool_tokens

\* What the burnt part of pool_tokens is worth.
PoolTokensFee(pool_tokens, fee, fee_valid) == IF fee_valid THEN apply(fee, pool_tokens) ELSE 0
WithdrawLamports(pool_tokens, fee, fee_valid) ==
    calc_lamports_withdraw_amount(total_lamports, pool_token_supply,
        pool_tokens - PoolTokensFee(pool_tokens, fee, fee_valid))

\* process_withdraw_sol from the pool tokens of user u, without a fee when the
\* fee account cannot take one.  The caller says where the lamports go.
process_withdraw_sol(u, pool_tokens, fee, fee_valid) ==
    LET pool_tokens_fee == PoolTokensFee(pool_tokens, fee, fee_valid)
        burnt    == pool_tokens - pool_tokens_fee
        lamports == WithdrawLamports(pool_tokens, fee, fee_valid)
    IN  /\ pool_updated
        /\ lamports # 0
        /\ saturating_sub(reserve, lamports) >= RentExempt
        /\ pool_tokens <= tokens[u]
        /\ pool_token_supply >= burnt /\ total_lamports >= lamports
        /\ tokens' = [tokens EXCEPT ![u] = @ - TakenFrom(pool_tokens, burnt)]
        /\ fees' = fees + pool_tokens_fee
        /\ mint' = mint - burnt
        /\ reserve' = reserve - lamports
        /\ pool_token_supply' = pool_token_supply - burnt
        /\ total_lamports' = total_lamports - lamports
        /\ UNCHANGED pool_updated

\* Mutant: the WSOL account is not told of its new lamports.
Mutant_sync_native(a) == a

\* The account counts what it holds above its rent.
sync_native(a) == [a EXCEPT !.amount = a.lamports - TokenRent]

\* Lamports sent to a WSOL account.
Credited(a, lamports) == [a EXCEPT !.lamports = a.lamports + lamports]

\* The account must exist by the time the handler would create it.
WithdrawWsolWithSession(s, pool_tokens, fee, fee_valid) ==
    LET u        == extract_user_from_signer_or_session(s)
        lamports == WithdrawLamports(pool_tokens, fee, fee_valid)
    IN  /\ Authorised(s)
        /\ wsol[u].open
        /\ wsol[u].lamports + lamports \in U64
        /\ process_withdraw_sol(u, pool_tokens, fee, fee_valid)
        /\ wsol' = [wsol EXCEPT ![u] = sync_native(Credited(wsol[u], lamports))]
        /\ UNCHANGED <<transient, signer, payer, alive>>

-----------------------------------------------------------------------------
(***************************************************************************)
(* What happens around the two instructions.                               *)
(***************************************************************************)
Expire(s) ==
    /\ s \in alive
    /\ alive' = alive \ {s}
    /\ UNCHANGED <<pool, reserve, wsol, transient, signer, payer, tokens, fees>>

\* A user closes the WSOL account and takes its lamports, or opens it again.
CloseWsol(u) ==
    /\ wsol[u].open
    /\ wsol' = [wsol EXCEPT ![u] = NoWsol]
    /\ UNCHANGED <<pool, reserve, transient, signer, payer, tokens, fees, alive>>

OpenWsol(u, lamports) ==
    /\ ~wsol[u].open
    /\ Room(lamports + TokenRent)
    /\ wsol' = [wsol EXCEPT ![u] =
           [open |-> TRUE, lamports |-> lamports + TokenRent, amount |-> lamports]]
    /\ UNCHANGED <<pool, reserve, transient, signer, payer, tokens, fees, alive>>

\* Strangers send lamports to a WSOL account, to the address of a temporary
\* account, to the program signer or to the reserve.
GiveWsol(u, lamports) ==
    /\ wsol[u].open
    /\ wsol' = [wsol EXCEPT ![u] = Credited(wsol[u], lamports)]
    /\ UNCHANGED <<pool, reserve, transient, signer, payer, tokens, fees, alive>>

GiveTransient(u, lamports) ==
    /\ transient' = [transient EXCEPT ![u] = @ + lamports]
    /\ UNCHANGED <<pool, reserve, wsol, signer, payer, tokens, fees, alive>>

GiveSigner(lamports) ==
    /\ signer' = signer + lamports
    /\ UNCHANGED <<pool, reserve, wsol, transient, payer, tokens, fees, alive>>

GiveReserve(lamports) ==
    /\ reserve' = reserve + lamports
    /\ UNCHANGED <<pool, wsol, transient, signer, payer, tokens, fees, alive>>

Give(lamports) ==
    /\ Room(lamports)
    /\ \/ \E u \in Wallets : GiveWsol(u, lamports) \/ GiveTransient(u, lamports)
       \/ GiveSigner(lamports)
       \/ GiveReserve(lamports)

AdvanceEpoch ==
    /\ pool_updated' = FALSE
    /\ UNCHANGED <<total_lamports, pool_token_supply, mint, reserve, wsol, transient, signer,
                   payer, tokens, fees, alive>>

\* UpdateStakePoolBalance of a pool without validators.
UpdateStakePoolBalance(epoch_fee, fee_valid) ==
    LET now == reserve - RentExempt
        fee == IF fee_valid
               THEN calc_epoch_fee_amount(total_lamports, pool_token_supply, epoch_fee,
                                          saturating_sub(now, total_lamports))
               ELSE 0
    IN  /\ mint + fee \in U64
        /\ mint' = mint + fee
        /\ fees' = fees + fee
        /\ pool_token_supply' = mint + fee
        /\ total_lamports' = now
        /\ pool_updated' = TRUE
        /\ UNCHANGED <<reserve, wsol, transient, signer, payer, tokens, alive>>

Next ==
    \/ \E s \in Wallets \cup Sessions, amount \in Amounts, fee \in PoolFees :
           \/ \E to \in Wallets : DepositWsolWithSession(s, amount, fee, to)
           \/ \E fee_valid \in BOOLEAN : WithdrawWsolWithSession(s, amount, fee, fee_valid)
    \/ \E fee \in PoolFees, fee_valid \in BOOLEAN : UpdateStakePoolBalance(fee, fee_valid)
    \/ AdvanceEpoch
    \/ \E s \in Sessions : Expire(s)
    \/ \E u \in Closers : CloseWsol(u) \/ OpenWsol(u, InitialWsol)
    \/ \E lamports \in Gifts : Give(lamports)

Spec == Init /\ [][Next]_vars

-----------------------------------------------------------------------------
(***************************************************************************)
(* Properties.                                                             *)
(***************************************************************************)
\* Balances are 64-bit numbers; an open WSOL account is rent exempt.
SessionTypeOK ==
    /\ {total_lamports, pool_token_supply, mint, signer, payer, fees} \subseteq U64
    /\ reserve \in RentExempt..MaxU64
    /\ pool_updated \in BOOLEAN /\ alive \subseteq Sessions
    /\ transient \in [Wallets -> U64] /\ tokens \in [Wallets -> U64]
    /\ wsol \in [Wallets -> [open : BOOLEAN, lamports : U64, amount : U64]]
    /\ \A u \in Wallets : wsol[u].open => wsol[u].lamports >= TokenRent

\* Every WSOL an account counts is there: no deposit and no withdrawal leaves an
\* account that counts more than it holds above its rent.  The pool tokens of
\* the users, the manager and the referrers are the supply of the mint: the
\* burnt tokens and the fee of a session withdrawal are what the user gave.
BooksBalance ==
    /\ \A u \in Wallets : wsol[u].open => wsol[u].amount <= wsol[u].lamports - TokenRent
    /\ mint = fees + SumOver(Wallets, tokens)

\* The lamports of a deposit pass through the program signer and leave nothing
\* behind or with it: its own lamports never pay for a refund, and they grow
\* only when somebody sends it some.
SignerPassesThrough ==
    [][signer' # signer => signer' > signer /\ UNCHANGED <<pool, reserve, payer>>]_vars

\* The paymaster never ends an instruction with less than before.
PaymasterRefunded == [][payer' >= payer]_vars

\* Whoever gives pool tokens in a step gets every lamport that leaves the reserve.
BurnersPaid ==
    \A u \in Wallets : tokens'[u] < tokens[u] =>
        /\ reserve' < reserve
        /\ wsol'[u].lamports - wsol[u].lamports = reserve - reserve'
        /\ wsol'[u].amount = wsol'[u].lamports - TokenRent

\* A withdrawal reaches the WSOL the user can spend: whoever gives pool tokens
\* gets, in the same instruction, every lamport that left the reserve counted.
BurnerIsPaid == [][BurnersPaid]_vars
=============================================================================
