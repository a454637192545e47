----------------------------- MODULE WsolPool ------------------------------
(***************************************************************************)
(* The session instructions as the pool sees them: the refinement of       *)
(* StakePool, without validators, by WsolSession.  The accounts of the     *)
(* pool are those of WsolSession; wallets, temporary accounts, the program *)
(* signer, the paymaster and the sessions are not the pool's.              *)
(***************************************************************************)
EXTENDS WsolSession

\* For the pool, a session deposit is a DepositSol and a session withdrawal a
\* WithdrawSol: every behaviour is one of StakePool.
Pool == INSTANCE StakePool WITH
    Validators <- {}, NoValidator <- "none", MaxValidators <- 0,
    StakeMinimumDelegation <- 1, MINIMUM_ACTIVE_STAKE <- 1,
    InitialReserves <- {InitialReserve}, DepositAmounts <- Amounts, UserStakes <- {},
    WithdrawAmounts <- Amounts, StakeAmounts <- {}, Rewards <- {}, Donations <- Gifts,
    Burns <- {}, Preferable <- {}, Destakable <- {}, Delinquents <- {},
    preferred_deposit <- "none", preferred_withdraw <- "none", status <- <<>>, active <- <<>>,
    transient <- <<>>, record_updated <- <<>>, vstake <- <<>>, tstake <- <<>>, rewarding <- FALSE

PoolView == Pool!Spec
=============================================================================
