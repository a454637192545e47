------------------------------ MODULE PoolMath ------------------------------
(***************************************************************************)
(* The conversions between lamports and pool tokens of `impl StakePool` in *)
(* program/src/state.rs.  total and supply are the fields total_lamports   *)
(* and pool_token_supply.  Products are taken in 128 bits, so only the     *)
(* conversion of a result back to 64 bits can fail: callers ask for a      *)
(* result in U64.                                                          *)
(***************************************************************************)
EXTENDS Fee

\* Mutant: the tokens are rounded up.
Mutant_calc_pool_tokens_for_deposit(total, supply, lamports) ==
    IF total = 0 \/ supply = 0
    THEN lamports
    ELSE (lamports * supply + total - 1) \div total

calc_pool_tokens_for_deposit(total, supply, lamports) ==
    IF total = 0 \/ supply = 0
    THEN lamports
    ELSE (lamports * supply) \div total

\* Mutant: the lamports are rounded up.
Mutant_calc_lamports_withdraw_amount(total, supply, pool_tokens) ==
    IF pool_tokens * total < supply \/ supply = 0
    THEN 0
    ELSE (pool_tokens * total + supply - 1) \div supply

calc_lamports_withdraw_amount(total, supply, pool_tokens) ==
    IF pool_tokens * total < supply \/ supply = 0
    THEN 0
    ELSE (pool_tokens * total) \div supply

\* The pool tokens minted to the manager for rewards that total does not
\* include yet.
calc_epoch_fee_amount(total, supply, epoch_fee, reward_lamports) ==
    LET fee_lamports == apply(epoch_fee, reward_lamports)
    IN  IF reward_lamports = 0
        THEN 0
        ELSE IF total + reward_lamports = fee_lamports \/ supply = 0
        THEN reward_lamports
        ELSE (supply * fee_lamports) \div (total + reward_lamports - fee_lamports)

\* Rounded up; defined when supply is not 0.
get_lamports_per_pool_token(total, supply) == (total + supply - 1) \div supply
=============================================================================
