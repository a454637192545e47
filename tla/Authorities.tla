---------------------------- MODULE Authorities ----------------------------
(***************************************************************************)
(* Who may do what to a pool: the manager, the staker, the funding         *)
(* authorities, the manager's fee account and the metadata of the pool     *)
(* token, with the instructions that change them and the checks of state.rs*)
(* that the other instructions make.  An account passed to an instruction  *)
(* is a key and whether it signed; a key in Lost never signs.              *)
(***************************************************************************)
EXTENDS Naturals, Sequences

CONSTANTS
    Keys,          \* wallets
    Lost,          \* wallets whose private key nobody has
    FeeAccounts,   \* token accounts of the pool mint
    Names,         \* contents of the token metadata
    Unset           \* an Option that is None, or an account that is not passed

\* What the constants have to be.
AuthoritiesAssumption ==
    /\ Lost \subseteq Keys /\ Keys # Lost
    /\ FeeAccounts # {} /\ Names # {}
    /\ Unset \notin Keys

Pda == "deposit authority"       \* find_deposit_authority_program_address
Withdraw == "withdraw authority" \* find_withdraw_authority_program_address
System == "system program"

VARIABLES
    manager, staker, manager_fee_account,
    stake_deposit_authority, sol_deposit_authority, sol_withdraw_authority,
    usable,       \* fee accounts that exist and are initialised
    metadata      \* the metadata account of the pool token, or Unset

funding == <<stake_deposit_authority, sol_deposit_authority, sol_withdraw_authority>>
authorities == <<manager, staker, manager_fee_account, funding>>
auth_vars == <<authorities, usable, metadata>>

\* Accounts as instructions get them.
Account == {[key |-> k, is_signer |-> s] : k \in Keys, s \in BOOLEAN}
Passable == {a \in Account : a.is_signer => a.key \notin Lost}
           \cup {[key |-> k, is_signer |-> FALSE] : k \in {Pda, System}}

-----------------------------------------------------------------------------
(***************************************************************************)
(* The checks of `impl StakePool`.                                         *)
(***************************************************************************)
check_manager(a) == a.key = manager /\ a.is_signer

check_staker(a) == a.key = staker /\ a.is_signer

\* The account belongs to the token program, is initialised, and of the mint.
check_manager_fee_info(f) == f \in usable

check_stake_deposit_authority(key) == stake_deposit_authority = key

check_sol_deposit_authority(maybe) ==
    sol_deposit_authority # Unset =>
        maybe # Unset /\ maybe.key = sol_deposit_authority /\ maybe.is_signer

check_sol_withdraw_authority(maybe) ==
    sol_withdraw_authority # Unset =>
        maybe # Unset /\ maybe.key = sol_withdraw_authority /\ maybe.is_signer

-----------------------------------------------------------------------------
\* The authorities that Initialize stores: one deposit authority, if it is
\* passed, for stake and SOL.
InitialAuthorities(deposit) ==
    /\ stake_deposit_authority = IF deposit = Unset THEN Pda ELSE deposit
    /\ sol_deposit_authority = deposit
    /\ sol_withdraw_authority = Unset

\* The manager signs Initialize, and the fee account is checked.
AuthInit ==
    /\ manager \in Keys \ Lost
    /\ staker \in Keys
    /\ usable = FeeAccounts
    /\ manager_fee_account \in usable
    /\ \E deposit \in Keys \cup {Unset} : InitialAuthorities(deposit)
    /\ metadata = Unset

\* Mutant: the new manager does not have to sign.
Mutant_SetManager(m, new, fee_account) ==
    /\ check_manager(m)
    /\ check_manager_fee_info(fee_account)
    /\ manager' = new.key
    /\ manager_fee_account' = fee_account
    /\ UNCHANGED <<staker, funding, usable, metadata>>

SetManager(m, new, fee_account) ==
    /\ check_manager(m)
    /\ new.is_signer
    /\ check_manager_fee_info(fee_account)
    /\ manager' = new.key
    /\ manager_fee_account' = fee_account
    /\ UNCHANGED <<staker, funding, usable, metadata>>

SetStaker(a, new) ==
    /\ check_staker(a) \/ check_manager(a)
    /\ staker' = new
    /\ UNCHANGED <<manager, manager_fee_account, funding, usable, metadata>>

FundingTypes == {"StakeDeposit", "SolDeposit", "SolWithdraw"}

SetFundingAuthority(m, type, new) ==
    /\ check_manager(m)
    /\ stake_deposit_authority' =
           IF type # "StakeDeposit" THEN stake_deposit_authority
           ELSE IF new = Unset THEN Pda ELSE new
    /\ sol_deposit_authority' = IF type = "SolDeposit" THEN new ELSE sol_deposit_authority
    /\ sol_withdraw_authority' = IF type = "SolWithdraw" THEN new ELSE sol_withdraw_authority
    /\ UNCHANGED <<manager, staker, manager_fee_account, usable, metadata>>

-----------------------------------------------------------------------------
(***************************************************************************)
(* The metadata program, as the pool calls it: the mint authority creates  *)
(* the account once; the update authority changes it while it is mutable.  *)
(***************************************************************************)
create_metadata_accounts_v3(name, update_authority) ==
    /\ metadata = Unset
    /\ metadata' = [name |-> name, update_authority |-> update_authority, is_mutable |-> TRUE]

update_metadata_accounts_v2(name, update_authority) ==
    /\ metadata # Unset
    /\ metadata.update_authority = update_authority /\ metadata.is_mutable
    /\ metadata' = [metadata EXCEPT !.name = name, !.is_mutable = TRUE]

CreateTokenMetadata(m, payer, name) ==
    /\ payer.is_signer
    /\ check_manager(m)
    /\ create_metadata_accounts_v3(name, Withdraw)
    /\ UNCHANGED <<authorities, usable>>

UpdateTokenMetadata(m, name) ==
    /\ check_manager(m)
    /\ update_metadata_accounts_v2(name, Withdraw)
    /\ UNCHANGED <<authorities, usable>>

\* The owner of a fee account closes it, or somebody creates it again.
CloseFeeAccount(f) ==
    /\ f \in usable
    /\ usable' = usable \ {f}
    /\ UNCHANGED <<authorities, metadata>>

OpenFeeAccount(f) ==
    /\ f \notin usable
    /\ usable' = usable \cup {f}
    /\ UNCHANGED <<authorities, metadata>>

-----------------------------------------------------------------------------
(***************************************************************************)
(* The gates of the users' instructions.                                   *)
(***************************************************************************)
\* process_deposit_stake: the owner of the stake account has made the deposit
\* authority its staker and withdrawer; the program signs for its own address,
\* any other authority must sign itself.
StakeDepositAllowed(authority) ==
    /\ check_stake_deposit_authority(authority.key)
    /\ authority.key # Pda => authority.is_signer

\* A withdrawal is charged no fee if the fee account cannot take one.
WithdrawalFee(f, rate) == IF check_manager_fee_info(f) THEN rate ELSE 0

\* process_withdraw_sol with the pool's fee account: a fee is transferred there.
SolWithdrawalAllowed(maybe, rate) ==
    /\ check_sol_withdraw_authority(maybe)
    /\ WithdrawalFee(manager_fee_account, rate) > 0 => manager_fee_account \in usable

\* process_deposit_sol: there is no such bypass for deposits.
SolDepositAllowed(maybe, rate) ==
    /\ check_sol_deposit_authority(maybe)
    /\ rate > 0 => manager_fee_account \in usable

ProgramSigner == [key |-> "program signer", is_signer |-> FALSE]

\* Mutant: nothing takes the place of a missing authority.
Mutant_InnerAccounts(maybe) ==
    IF maybe = Unset THEN <<ProgramSigner>> ELSE <<maybe, ProgramSigner>>

\* The last accounts process_withdraw_wsol_with_session hands to
\* process_withdraw_sol: the authority, or the system program in its place, and
\* the program signer.
InnerAccounts(maybe) ==
    <<IF maybe = Unset THEN [key |-> System, is_signer |-> FALSE] ELSE maybe, ProgramSigner>>

\* How process_withdraw_sol reads them.
AuthorityIn(accounts) == IF Len(accounts) > 0 THEN accounts[1] ELSE Unset
ProgramSignerIn(accounts) == IF Len(accounts) > 1 THEN accounts[2] ELSE Unset

-----------------------------------------------------------------------------
(***************************************************************************)
(* Any instruction may come with any accounts.                             *)
(***************************************************************************)
AuthNext ==
    \/ \E m, new \in Passable, f \in FeeAccounts : SetManager(m, new, f)
    \/ \E a \in Passable, new \in Keys : SetStaker(a, new)
    \/ \E m \in Passable, type \in FundingTypes, new \in Keys \cup {Unset} :
           SetFundingAuthority(m, type, new)
    \/ \E m, payer \in Passable, name \in Names : CreateTokenMetadata(m, payer, name)
    \/ \E m \in Passable, name \in Names : UpdateTokenMetadata(m, name)
    \/ \E f \in FeeAccounts : CloseFeeAccount(f) \/ OpenFeeAccount(f)

AuthSpec == AuthInit /\ [][AuthNext]_auth_vars

-----------------------------------------------------------------------------
(***************************************************************************)
(* Properties.                                                             *)
(***************************************************************************)
\* Authorities are keys, or absent where they may be.
AuthTypeOK ==
    /\ manager \in Keys /\ staker \in Keys /\ manager_fee_account \in FeeAccounts
    /\ stake_deposit_authority \in Keys \cup {Pda}
    /\ {sol_deposit_authority, sol_withdraw_authority} \subseteq Keys \cup {Unset}
    /\ usable \subseteq FeeAccounts
    /\ metadata = Unset \/ metadata.name \in Names

\* Nobody can be locked out of a pool: the staker and the funding authorities
\* may be keys that nobody has, but somebody who can sign is always able to
\* replace the staker, to open each of the three gates again, the one for
\* withdrawals also when the manager's fee account is gone, and to change the
\* metadata, whoever created it: a manager signs for taking over.
NoLockout ==
    \E k \in Keys \ Lost :
        LET a == [key |-> k, is_signer |-> TRUE]
        IN  /\ \A new \in Keys : ENABLED SetStaker(a, new)
            /\ ENABLED (/\ SetFundingAuthority(a, "StakeDeposit", Unset)
                        /\ StakeDepositAllowed([key |-> Pda, is_signer |-> FALSE])')
            /\ ENABLED (SetFundingAuthority(a, "SolDeposit", Unset) /\ SolDepositAllowed(Unset, 0)')
            /\ \A rate \in {0, 1} :
                   ENABLED (SetFundingAuthority(a, "SolWithdraw", Unset) /\ SolWithdrawalAllowed(Unset, rate)')
            /\ metadata # Unset => \A name \in Names : ENABLED UpdateTokenMetadata(a, name)

\* A session withdrawal passes the check of the withdraw authority exactly when
\* a plain one with the same authority does, and the program signer is found
\* behind it.
SessionGateAgrees ==
    \A maybe \in Passable \cup {Unset} :
        /\ check_sol_withdraw_authority(AuthorityIn(InnerAccounts(maybe)))
               <=> check_sol_withdraw_authority(maybe)
        /\ ProgramSignerIn(InnerAccounts(maybe)) = ProgramSigner
=============================================================================
