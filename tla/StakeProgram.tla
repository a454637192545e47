---------------------------- MODULE StakeProgram ----------------------------
(***************************************************************************)
(* The stake program, as the pool's instructions use it through the calls  *)
(* stake_split, stake_delegate, stake_deactivate, stake_merge and          *)
(* stake_withdraw.  It is not part of the repository.                      *)
(*                                                                         *)
(* The pool compares the epochs of a delegation with the current one only, *)
(* so an epoch here is "now", "past" or "never", and Age turns "now" into  *)
(* "past" when the epoch ends.  A delegation warms up and cools down in    *)
(* one epoch.  An instruction whose call is refused has no effect, so each *)
(* operation comes with the condition under which it is accepted.          *)
(***************************************************************************)
EXTENDS U64

CONSTANTS
    RentExempt,               \* rent-exempt reserve of a stake account
    StakeMinimumDelegation    \* least delegation the stake program accepts

ASSUME StakeProgramAssumption ==
    /\ RentExempt \in 1..MaxU64
    /\ StakeMinimumDelegation \in 1..MaxU64

Account == [state : {"none", "initialized", "stake"},
            lamports : U64, stake : U64,
            activation : {"now", "past"},
            deactivation : {"now", "past", "never"}]

Stake(lamports, stake, activation, deactivation) ==
    [state |-> "stake", lamports |-> lamports, stake |-> stake,
     activation |-> activation, deactivation |-> deactivation]

Initialized(lamports) ==
    [state |-> "initialized", lamports |-> lamports, stake |-> 0,
     activation |-> "past", deactivation |-> "never"]

NoAccount ==
    [state |-> "none", lamports |-> 0, stake |-> 0,
     activation |-> "past", deactivation |-> "never"]

\* The same account with other lamports.
WithLamports(a, lamports) ==
    [state |-> a.state, lamports |-> lamports, stake |-> a.stake,
     activation |-> a.activation, deactivation |-> a.deactivation]

\* The account one epoch later.
Age(a) ==
    [state |-> a.state, lamports |-> a.lamports, stake |-> a.stake,
     activation |-> "past",
     deactivation |-> IF a.deactivation = "now" THEN "past" ELSE a.deactivation]

NeverActive(a) == a.activation = "now" /\ a.deactivation = "now"

Inactive(a) ==
    \/ a.state = "initialized"
    \/ a.state = "stake" /\ (a.deactivation = "past" \/ NeverActive(a))

ActivationEpoch(a) ==
    a.state = "stake" /\ a.activation = "now" /\ a.deactivation = "never"

FullyActive(a) ==
    a.state = "stake" /\ a.activation = "past" /\ a.deactivation = "never"

Deactivating(a) ==
    a.state = "stake" /\ a.activation = "past" /\ a.deactivation = "now"

\* Delegated stake that counts in this epoch.
Effective(a) == FullyActive(a) \/ Deactivating(a)

(***************************************************************************)
(* Merge moves every lamport of src to dst.  A stake that is deactivating  *)
(* merges with nothing, one that is fully active only with its like.       *)
(***************************************************************************)
CanMerge(dst, src) ==
    /\ \/ Inactive(dst) /\ (Inactive(src) \/ ActivationEpoch(src))
       \/ ActivationEpoch(dst) /\ (Inactive(src) \/ ActivationEpoch(src))
       \/ FullyActive(dst) /\ FullyActive(src)
    /\ dst.lamports + src.lamports <= MaxU64

\* Delegation that dst gains.
MergedStake(dst, src) ==
    IF Inactive(dst) THEN 0
    ELSE IF FullyActive(dst) THEN src.stake
    ELSE IF Inactive(src) THEN src.lamports
    ELSE RentExempt + src.stake

Merged(dst, src) ==
    [state |-> dst.state, lamports |-> dst.lamports + src.lamports,
     stake |-> dst.stake + MergedStake(dst, src),
     activation |-> dst.activation, deactivation |-> dst.deactivation]

(***************************************************************************)
(* Split moves lamports of a delegated account to a new account that       *)
(* already holds funded lamports.  Taking everything closes the source.    *)
(***************************************************************************)
Deficit(funded) == saturating_sub(RentExempt, funded)

SplitStake(src, lamports, funded) ==
    IF lamports = src.lamports THEN lamports - RentExempt
    ELSE lamports - Deficit(funded)

CanSplit(src, lamports, funded) ==
    /\ lamports <= src.lamports
    /\ SplitStake(src, lamports, funded) >= StakeMinimumDelegation
    /\ lamports # src.lamports =>
           /\ src.lamports - lamports >= RentExempt + StakeMinimumDelegation
           /\ src.stake - lamports >= StakeMinimumDelegation
           /\ Effective(src) => Deficit(funded) = 0
    /\ funded + lamports <= MaxU64

AfterSplit(src, lamports) ==
    IF lamports = src.lamports THEN NoAccount
    ELSE Stake(src.lamports - lamports, src.stake - lamports,
               src.activation, src.deactivation)

SplitOff(src, lamports, funded) ==
    Stake(funded + lamports, SplitStake(src, lamports, funded),
          src.activation, src.deactivation)

\* An initialized account gives up lamports, by a split or a withdrawal,
\* when it stays rent exempt.
CanDraw(balance, lamports) == balance - lamports >= RentExempt

\* The lamports a delegated account may give up: all but the rent-exempt
\* reserve and the delegation, which an inactive stake does not hold back.
Withdrawable(a) ==
    a.lamports - RentExempt - (IF Inactive(a) THEN 0 ELSE a.stake)

\* Delegation of a new account split off the reserve.
Delegated(lamports) == Stake(lamports, lamports - RentExempt, "now", "never")

CanDelegate(lamports) == lamports - RentExempt >= StakeMinimumDelegation

Deactivated(a) ==
    [state |-> a.state, lamports |-> a.lamports, stake |-> a.stake,
     activation |-> a.activation, deactivation |-> "now"]
=============================================================================
