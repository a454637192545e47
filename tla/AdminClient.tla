---------------------------- MODULE AdminClient ----------------------------
(***************************************************************************)
(* The administration commands of the command-line client (set-manager,    *)
(* set-staker, set-funding-authority, create- and update-token-metadata)   *)
(* run by several operators against one pool.  A command reads the pool,   *)
(* builds a transaction from what it read and its arguments, signs, sends  *)
(* and waits.  A transaction lands some time later, fails, or expires with *)
(* its blockhash; a client that loses its connection returns an error and  *)
(* leaves the transaction on its way.  The update of the pool that a       *)
(* command may run first is in UpdateClient; it changes nothing here.      *)
(***************************************************************************)
EXTENDS Authorities

CONSTANTS
    Operators,     \* operators, each with the keypair it passes as --manager
    Commands,      \* the commands they may type
    MaxCommands    \* bound: commands that are started

\* What the constants have to be.
AdminAssumption == Operators \subseteq Keys \ Lost /\ MaxCommands \in Nat

VARIABLES
    pc,        \* where each operator's command is
    command,   \* the command
    read,      \* manager and fee account as it read them
    tx,        \* the transaction it waits for
    flight,    \* transactions that may still land
    started,   \* number of commands started
    number     \* which of them each operator's command is

client == <<pc, command, read, tx, flight, started, number>>
vars == <<auth_vars, client>>

NoCommand == [name |-> "none"]
NotRead == [manager |-> Unset, fee |-> Unset]
NoTx == [id |-> 0, built |-> [ins |-> "none"]]

AdminInit ==
    /\ AuthInit
    /\ pc = [o \in Operators |-> "idle"]
    /\ command = [o \in Operators |-> NoCommand]
    /\ read = [o \in Operators |-> NotRead]
    /\ tx = [o \in Operators |-> NoTx]
    /\ flight = {}
    /\ started = 0
    /\ number = [o \in Operators |-> 0]

-----------------------------------------------------------------------------
(***************************************************************************)
(* The transactions, as the builders of instruction.rs make them: every    *)
(* account of signers is marked as a signer.                               *)
(***************************************************************************)
set_manager(m, new, fee) ==
    [ins |-> "SetManager", m |-> m, new |-> new, fee |-> fee, signers |-> {m, new}]

set_staker(m, new) ==
    [ins |-> "SetStaker", m |-> m, new |-> new, signers |-> {m}]

set_funding_authority(m, type, new) ==
    [ins |-> "SetFundingAuthority", m |-> m, type |-> type, new |-> new, signers |-> {m}]

create_token_metadata(m, payer, name) ==
    [ins |-> "CreateTokenMetadata", m |-> m, payer |-> payer, name |-> name, signers |-> {m, payer}]

update_token_metadata(m, name) ==
    [ins |-> "UpdateTokenMetadata", m |-> m, name |-> name, signers |-> {m}]

Signed(key) == [key |-> key, is_signer |-> TRUE]

\* What a transaction does when it lands.
Execute(t) ==
    \/ t.ins = "SetManager" /\ SetManager(Signed(t.m), Signed(t.new), t.fee)
    \/ t.ins = "SetStaker" /\ SetStaker(Signed(t.m), t.new)
    \/ t.ins = "SetFundingAuthority" /\ SetFundingAuthority(Signed(t.m), t.type, t.new)
    \/ t.ins = "CreateTokenMetadata" /\ CreateTokenMetadata(Signed(t.m), Signed(t.payer), t.name)
    \/ t.ins = "UpdateTokenMetadata" /\ UpdateTokenMetadata(Signed(t.m), t.name)

-----------------------------------------------------------------------------
(***************************************************************************)
(* The commands.  What is not given on the command line is taken from the  *)
(* pool as it was read.                                                    *)
(***************************************************************************)
Given(option, default) == IF option = Unset THEN default ELSE option

\* Mutant: the new manager is not among the signers.
Mutant_command_set_manager(o, c, r) ==
    [tx |-> set_manager(o, r.manager, Given(c.fee, r.fee)), keypairs |-> {o, r.manager}]

command_set_manager(o, c, r) ==
    [tx |-> set_manager(o, Given(c.new, r.manager), Given(c.fee, r.fee)),
     keypairs |-> IF c.new = Unset THEN {o} ELSE {o, c.new}]

command_set_staker(o, c) == [tx |-> set_staker(o, c.new), keypairs |-> {o}]

command_set_funding_authority(o, c) ==
    [tx |-> set_funding_authority(o, c.type, c.new), keypairs |-> {o}]

command_create_token_metadata(o, c, r) ==
    [tx |-> create_token_metadata(r.manager, o, c.value), keypairs |-> {o}]

command_update_token_metadata(o, c, r) ==
    [tx |-> update_token_metadata(r.manager, c.value), keypairs |-> {o}]

Built(o) ==
    LET c == command[o]
    IN  CASE c.name = "set-manager" -> command_set_manager(o, c, read[o])
          [] c.name = "set-staker" -> command_set_staker(o, c)
          [] c.name = "set-funding-authority" -> command_set_funding_authority(o, c)
          [] c.name = "create-token-metadata" -> command_create_token_metadata(o, c, read[o])
          [] c.name = "update-token-metadata" -> command_update_token_metadata(o, c, read[o])

Start(o, c) ==
    /\ pc[o] \in {"idle", "ok", "error"}
    /\ started < MaxCommands
    /\ started' = started + 1
    /\ number' = [number EXCEPT ![o] = started']
    /\ pc' = [pc EXCEPT ![o] = "start"]
    /\ command' = [command EXCEPT ![o] = c]
    /\ UNCHANGED <<auth_vars, read, tx, flight>>

\* get_stake_pool, and get_token_account for a fee account that is given.
Read(o) ==
    LET refused == /\ command[o].name = "set-manager"
                   /\ command[o].fee \notin usable \cup {Unset}
    IN  /\ pc[o] = "start"
        /\ read' = [read EXCEPT ![o] =
               IF refused THEN NotRead ELSE [manager |-> manager, fee |-> manager_fee_account]]
        /\ pc' = [pc EXCEPT ![o] = IF refused THEN "error" ELSE "read"]
        /\ UNCHANGED <<auth_vars, command, tx, flight, started, number>>

\* Signing fails when a keypair is missing; the simulation before sending, when
\* the transaction would fail now.
Send(o) ==
    LET b    == Built(o)
        t    == [id |-> number[o], built |-> b.tx]
        sent == b.tx.signers \subseteq b.keypairs /\ ENABLED Execute(b.tx)
    IN  /\ pc[o] = "read"
        /\ pc' = [pc EXCEPT ![o] = IF sent THEN "waiting" ELSE "error"]
        /\ tx' = [tx EXCEPT ![o] = IF sent THEN t ELSE NoTx]
        /\ flight' = IF sent THEN flight \cup {t} ELSE flight
        /\ read' = [read EXCEPT ![o] = NotRead]
        /\ UNCHANGED <<auth_vars, command, started, number>>

Waiting(t) == {o \in Operators : pc[o] = "waiting" /\ tx[o] = t}

\* The transaction leaves the network, and whoever waits for it is to learn how.
Leave(t, result) ==
    /\ t \in flight
    /\ flight' = flight \ {t}
    /\ pc' = [o \in Operators |-> IF o \in Waiting(t) THEN result ELSE pc[o]]
    /\ tx' = [o \in Operators |-> IF o \in Waiting(t) THEN NoTx ELSE tx[o]]
    /\ UNCHANGED <<command, read, started, number>>

Land(t) == Execute(t.built) /\ Leave(t, "landed")

Fail(t) == ~ENABLED Execute(t.built) /\ Leave(t, "error") /\ UNCHANGED auth_vars

Expire(t) == Leave(t, "error") /\ UNCHANGED auth_vars

\* The confirmation arrives, perhaps after others have landed too.
Confirm(o) ==
    /\ pc[o] = "landed"
    /\ pc' = [pc EXCEPT ![o] = "ok"]
    /\ UNCHANGED <<auth_vars, command, read, tx, flight, started, number>>

Disconnect(o) ==
    /\ pc[o] \in {"waiting", "landed"}
    /\ pc' = [pc EXCEPT ![o] = "error"]
    /\ tx' = [tx EXCEPT ![o] = NoTx]
    /\ UNCHANGED <<auth_vars, command, read, flight, started, number>>

FeeAccountsChange ==
    \E f \in FeeAccounts : (CloseFeeAccount(f) \/ OpenFeeAccount(f)) /\ UNCHANGED client

Next ==
    \/ \E o \in Operators :
           \/ \E c \in Commands : Start(o, c)
           \/ Read(o)
           \/ Send(o)
           \/ Confirm(o)
           \/ Disconnect(o)
    \/ \E t \in flight : Land(t) \/ Fail(t) \/ Expire(t)
    \/ FeeAccountsChange

Spec == AdminInit /\ [][Next]_vars

-----------------------------------------------------------------------------
(***************************************************************************)
(* Properties.                                                             *)
(***************************************************************************)
\* Operators have a command where one is running, and transactions are known.
AdminTypeOK ==
    /\ AuthTypeOK
    /\ pc \in [Operators -> {"idle", "start", "read", "waiting", "landed", "ok", "error"}]
    /\ \A o \in Operators : pc[o] # "idle" => command[o] \in Commands
    /\ \A o \in Operators : pc[o] = "waiting" => tx[o] \in flight
    /\ started \in 0..MaxCommands

\* What a command asks for is so.
InForce(c) ==
    /\ c.name = "set-manager" =>
           c.new \in {Unset, manager} /\ c.fee \in {Unset, manager_fee_account}
    /\ c.name = "set-staker" => staker = c.new
    /\ c.name = "set-funding-authority" =>
           /\ c.type = "StakeDeposit" => stake_deposit_authority = Given(c.new, Pda)
           /\ c.type = "SolDeposit" => sol_deposit_authority = c.new
           /\ c.type = "SolWithdraw" => sol_withdraw_authority = c.new
    /\ c.name \in {"create-token-metadata", "update-token-metadata"} =>
           metadata # Unset /\ metadata.name = c.value

\* A command reports success for a transaction that has landed, and when it
\* landed, what the command was asked for became so, although other operators'
\* transactions landed since the command read the pool.  By the time of the
\* report another one may have changed it again.
OkMeansEffective ==
    [][\A o \in Operators :
           /\ pc'[o] = "ok" /\ pc[o] # "ok" => pc[o] = "landed"
           /\ pc'[o] = "landed" /\ pc[o] # "landed" => InForce(command[o])']_vars
=============================================================================
