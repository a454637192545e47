------------------------- MODULE StakePool_lemmas -------------------------
(***************************************************************************)
(* Facts for the proofs about StakePool: sums over the validator list,     *)
(* accounts that the stake program leaves sound, the inductive invariant.  *)
(***************************************************************************)
EXTENDS StakePool, PoolMath_proofs, FiniteSetTheorems

-----------------------------------------------------------------------------
(***************************************************************************)
(* Sums over the validator list.                                           *)
(***************************************************************************)
\* The pairs that Total counts.
Units(f) == {p \in Validators \X (1..MaxU64) : p[2] <= f[p[1]]}

\* The units of a list are finitely many.
LEMMA UnitsFinite ==
    ASSUME NEW f
    PROVE  IsFiniteSet(Units(f)) /\ Cardinality(Units(f)) \in Nat
<1>1. IsFiniteSet(1..MaxU64)
  BY MaxU64Assumption, FS_Interval
<1>2. IsFiniteSet(Validators \X (1..MaxU64))
  BY <1>1, PoolAssumption, FS_Product, Zenon
<1>3. Units(f) \in SUBSET (Validators \X (1..MaxU64))
  BY DEF Units
<1>4. IsFiniteSet(Units(f))
  BY <1>2, <1>3, FS_Subset
<1> QED
  BY <1>4, FS_CardinalityType

\* A sum over the list is a natural number.
LEMMA TotalNat ==
    ASSUME NEW f
    PROVE  Total(f) \in Nat
  BY UnitsFinite, Zenon DEF Total, Units

\* The units of one validator.
LEMMA ColumnSize ==
    ASSUME NEW v \in Validators, NEW n \in U64
    PROVE  /\ IsFiniteSet({v} \X (1..n))
           /\ Cardinality({v} \X (1..n)) = n
<1>1. n \in Nat
  BY MaxU64Assumption DEF U64
<1>2. IsFiniteSet(1..n) /\ Cardinality(1..n) = n
  BY <1>1, FS_Interval
<1>3. IsFiniteSet({v}) /\ Cardinality({v}) = 1
  BY FS_Singleton, Zenon
<1> QED
  BY <1>1, <1>2, <1>3, FS_Product

\* The units of the validators other than v.
Others(f, v) == {p \in Units(f) : p[1] # v}

\* A sum is the validator's part and that of the others.
LEMMA TotalSplit ==
    ASSUME NEW f \in [Validators -> U64], NEW v \in Validators
    PROVE  /\ Cardinality(Others(f, v)) \in Nat
           /\ Total(f) = Cardinality(Others(f, v)) + f[v]
<1> DEFINE rest == Others(f, v)
           col  == {v} \X (1..f[v])
<1>1. f[v] \in U64 /\ f[v] \in Nat /\ f[v] <= MaxU64
  BY MaxU64Assumption DEF U64
<1>2. IsFiniteSet(rest)
  <2>1. rest \in SUBSET Units(f)
    BY DEF Others
  <2> QED
    BY <2>1, UnitsFinite, FS_Subset
<1>3. IsFiniteSet(col) /\ Cardinality(col) = f[v]
  BY <1>1, ColumnSize
<1>4. Units(f) = rest \cup col
  BY <1>1, MaxU64Assumption DEF Units, Others
<1>5. rest \cap col = {}
  BY DEF Others
<1> HIDE DEF rest, col
<1>6. Cardinality(rest \cup col) = Cardinality(rest) + Cardinality(col) - Cardinality({})
  BY <1>2, <1>3, <1>5, FS_Union
<1>7. Cardinality(rest) \in Nat
  BY <1>2, FS_CardinalityType
<1>8. Total(f) = Cardinality(rest \cup col)
  BY <1>4 DEF Total, Units
<1>9. Total(f) = Cardinality(rest) + f[v]
  BY <1>1, <1>3, <1>6, <1>7, <1>8, FS_EmptySet
<1> QED
  BY <1>7, <1>9 DEF rest

\* One entry of a sum changes.
LEMMA TotalUpdate ==
    ASSUME NEW f \in [Validators -> U64], NEW v \in Validators, NEW n \in U64
    PROVE  Total([f EXCEPT ![v] = n]) = Total(f) - f[v] + n
<1> DEFINE g == [f EXCEPT ![v] = n]
<1>1. g \in [Validators -> U64] /\ g[v] = n
  OBVIOUS
<1>2. Others(g, v) = Others(f, v)
  BY DEF Units, Others
<1> HIDE DEF g
<1>3. Total(g) = Cardinality(Others(g, v)) + n
  BY <1>1, TotalSplit
<1>4. Total(f) = Cardinality(Others(f, v)) + f[v] /\ Cardinality(Others(f, v)) \in Nat
  BY TotalSplit
<1>5. f[v] \in Nat /\ n \in Nat
  BY MaxU64Assumption DEF U64
<1>6. Total(g) = Total(f) - f[v] + n
  BY <1>2, <1>3, <1>4, <1>5
<1> QED
  BY <1>6 DEF g

\* Nothing listed, nothing to sum.
LEMMA TotalZero ==
    Total([v \in Validators |-> 0]) = 0
<1>1. Units([v \in Validators |-> 0]) = {}
  BY MaxU64Assumption DEF Units
<1> QED
  BY <1>1, FS_EmptySet DEF Total, Units

-----------------------------------------------------------------------------
(***************************************************************************)
(* Stake accounts.  A delegated account holds its delegation and the rent- *)
(* exempt reserve, and an account that does not exist holds nothing.  The  *)
(* operations of the stake program keep it so.                             *)
(***************************************************************************)
SoundAccount ==
    {a \in Account : /\ a.state = "none" => a.lamports = 0
                     /\ a.state = "stake" => a.stake + RentExempt <= a.lamports}

\* No account at all is sound.
LEMMA SoundNone ==
    NoAccount \in SoundAccount /\ NoAccount.lamports = 0 /\ NoAccount.state = "none"
  BY MaxU64Assumption DEF SoundAccount, Account, NoAccount, U64

\* A fresh delegation is sound.
LEMMA SoundDelegated ==
    ASSUME NEW l \in U64, CanDelegate(l)
    PROVE  /\ Delegated(l) \in SoundAccount
           /\ Delegated(l).lamports = l /\ Delegated(l).state = "stake"
  BY MaxU64Assumption, StakeProgramAssumption
     DEF SoundAccount, Account, Delegated, CanDelegate, Stake, U64

\* An account that holds its rent and is not delegated is sound.
LEMMA SoundInitialized ==
    ASSUME NEW l \in U64
    PROVE  /\ Initialized(l) \in SoundAccount
           /\ Initialized(l).lamports = l /\ Initialized(l).state = "initialized"
  BY MaxU64Assumption DEF SoundAccount, Account, Initialized, U64

\* Deactivation keeps an account sound.
LEMMA SoundDeactivated ==
    ASSUME NEW a \in SoundAccount
    PROVE  /\ Deactivated(a) \in SoundAccount
           /\ Deactivated(a).lamports = a.lamports /\ Deactivated(a).state = a.state
  BY DEF SoundAccount, Account, Deactivated

\* So does the deactivation of an account that may be deactivating already.
LEMMA SoundDeactivateOnce ==
    ASSUME NEW a \in SoundAccount
    PROVE  /\ DeactivateOnce(a) \in SoundAccount
           /\ DeactivateOnce(a).lamports = a.lamports /\ DeactivateOnce(a).state = a.state
  BY SoundDeactivated DEF DeactivateOnce

\* So does the end of an epoch.
LEMMA SoundAge ==
    ASSUME NEW a \in SoundAccount
    PROVE  /\ Age(a) \in SoundAccount
           /\ Age(a).lamports = a.lamports /\ Age(a).state = a.state
  BY DEF SoundAccount, Account, Age

\* More lamports.
LEMMA SoundGift ==
    ASSUME NEW a \in SoundAccount, NEW l \in U64, a.state # "none", a.lamports + l \in U64
    PROVE  LET b == WithLamports(a, a.lamports + l)
           IN  b \in SoundAccount /\ b.lamports = a.lamports + l /\ b.state = a.state
  BY MaxU64Assumption, StakeProgramAssumption DEF SoundAccount, Account, WithLamports, U64

\* So does a reward.
LEMMA SoundRewarded ==
    ASSUME NEW a \in SoundAccount, NEW l \in U64, a.state = "stake", a.lamports + l \in U64
    PROVE  LET b == Rewarded(a, l)
           IN  b \in SoundAccount /\ b.lamports = a.lamports + l /\ b.state = "stake"
  BY MaxU64Assumption, StakeProgramAssumption
     DEF SoundAccount, Account, Rewarded, Stake, U64

\* The excess that UpdateValidatorListBalance withdraws leaves rent and stake.
LEMMA ExcessBound ==
    ASSUME NEW a \in SoundAccount
    PROVE  LET b == WithLamports(a, a.lamports - Excess(a))
           IN  /\ Excess(a) \in Nat /\ Excess(a) <= a.lamports
               /\ b \in SoundAccount
               /\ b.lamports = a.lamports - Excess(a) /\ b.state = a.state
  BY MaxU64Assumption, StakeProgramAssumption
     DEF SoundAccount, Account, WithLamports, Excess, saturating_sub, U64

\* A merge adds up the lamports, and delegates no more than comes in.
LEMMA SoundMerged ==
    ASSUME NEW dst \in SoundAccount, NEW src \in SoundAccount, CanMerge(dst, src)
    PROVE  /\ Merged(dst, src) \in SoundAccount
           /\ Merged(dst, src).lamports = dst.lamports + src.lamports
           /\ Merged(dst, src).state = dst.state
           /\ dst.state # "none" /\ src.state # "none"
           /\ MergedStake(dst, src) \in Nat /\ MergedStake(dst, src) <= src.lamports
           /\ Merged(dst, src).stake = dst.stake + MergedStake(dst, src)
<1>1. dst.state # "none" /\ src.state # "none"
  BY DEF CanMerge, Inactive, ActivationEpoch, FullyActive
<1>2. MergedStake(dst, src) \in Nat /\ MergedStake(dst, src) <= src.lamports
  BY MaxU64Assumption, StakeProgramAssumption
     DEF CanMerge, MergedStake, Inactive, ActivationEpoch, FullyActive, SoundAccount, Account, U64
<1>3. dst.lamports + src.lamports \in U64
  BY MaxU64Assumption DEF CanMerge, SoundAccount, Account, U64
<1>4. dst.state = "initialized" => MergedStake(dst, src) = 0
  BY DEF MergedStake, Inactive
<1>5. Merged(dst, src) \in SoundAccount
  BY <1>1, <1>2, <1>3, <1>4, MaxU64Assumption, StakeProgramAssumption
     DEF Merged, SoundAccount, Account, U64
<1> QED
  BY <1>1, <1>2, <1>5 DEF Merged

\* A split shares the lamports.
LEMMA SoundSplit ==
    ASSUME NEW src \in SoundAccount, src.state = "stake", NEW l \in U64, NEW funded \in {0, RentExempt},
           CanSplit(src, l, funded)
    PROVE  /\ AfterSplit(src, l) \in SoundAccount
           /\ AfterSplit(src, l).lamports = src.lamports - l
           /\ l # src.lamports => AfterSplit(src, l).state = "stake"
           /\ SplitOff(src, l, funded) \in SoundAccount
           /\ SplitOff(src, l, funded).lamports = funded + l
           /\ SplitOff(src, l, funded).state = "stake"
<1>1. l \in Nat /\ funded \in Nat /\ RentExempt \in Nat /\ StakeMinimumDelegation \in Nat
  BY MaxU64Assumption, StakeProgramAssumption DEF U64
<1>2. /\ Deficit(funded) \in Nat /\ Deficit(funded) + funded >= RentExempt
  BY <1>1 DEF Deficit, saturating_sub
<1>3. SplitOff(src, l, funded) \in SoundAccount
  BY <1>1, <1>2, MaxU64Assumption DEF CanSplit, SplitOff, SplitStake, Stake, SoundAccount, Account, U64
<1>4. AfterSplit(src, l) \in SoundAccount /\ AfterSplit(src, l).lamports = src.lamports - l
  BY <1>1, MaxU64Assumption, SoundNone DEF CanSplit, AfterSplit, Stake, SoundAccount, Account, U64
<1> QED
  BY <1>3, <1>4 DEF SplitOff, AfterSplit, Stake

-----------------------------------------------------------------------------
(***************************************************************************)
(* The inductive invariant.  Solvent needs to know that a stake account    *)
(* the updates do not look at any more is empty, hence Departed; that a    *)
(* record claims no more than its account holds, hence RecordsCovered; and *)
(* that an account which does not exist holds nothing, hence AccountsSound.*)
(***************************************************************************)
AccountsSound ==
    vstake \in [Validators -> SoundAccount] /\ tstake \in [Validators -> SoundAccount]

Departed ==
    \A v \in Validators :
        /\ status[v] \in {"Unlisted", "ReadyForRemoval", "DeactivatingTransient"}
               => vstake[v].state = "none"
        /\ status[v] = "Unlisted" => active[v] = 0 /\ transient[v] = 0

IInv ==
    /\ TypeOK
    /\ AccountsSound
    /\ RecordsCovered
    /\ Departed
    /\ Solvent
    /\ SupplyCoversMint

\* Sound accounts are accounts of the right type.
LEMMA SoundInAccount == SoundAccount \subseteq Account
  BY DEF SoundAccount

\* Initialize establishes it.
LEMMA InitIInv == Init => IInv
<1> SUFFICES ASSUME Init PROVE IInv
  OBVIOUS
<1> USE MaxU64Assumption, StakeProgramAssumption, PoolAssumption
<1>1. AccountsSound
  BY SoundNone DEF Init, AccountsSound
<1>2. TypeOK
  <2>1. reserve \in RentExempt..MaxU64
    BY DEF Init
  <2>2. total_lamports \in U64 /\ pool_token_supply \in U64 /\ mint \in U64
    BY <2>1 DEF Init, U64, minimum_reserve_lamports
  <2>3. /\ active \in [Validators -> U64] /\ transient \in [Validators -> U64]
        /\ status \in [Validators -> Statuses]
        /\ record_updated \in [Validators -> BOOLEAN]
    BY DEF Init, U64, Statuses
  <2>4. vstake \in [Validators -> Account] /\ tstake \in [Validators -> Account]
    BY <1>1, SoundInAccount DEF AccountsSound
  <2>5. /\ preferred_deposit \in Validators \cup {NoValidator}
        /\ preferred_withdraw \in Validators \cup {NoValidator}
        /\ pool_updated \in BOOLEAN /\ rewarding \in BOOLEAN
    BY Zenon DEF Init
  <2> QED
    BY <2>1, <2>2, <2>3, <2>4, <2>5 DEF TypeOK
<1>3. RecordsCovered /\ Departed
  BY SoundNone DEF Init, RecordsCovered, Departed
<1>4. Solvent
  BY TotalZero DEF Init, Solvent, Backing, minimum_reserve_lamports
<1>5. SupplyCoversMint
  BY <1>2 DEF Init, SupplyCoversMint, TypeOK, U64
<1> QED
  BY <1>1, <1>2, <1>3, <1>4, <1>5 DEF IInv

\* The backing after a change of the reserve and of the records of one validator.
LEMMA BackingStep ==
    ASSUME TypeOK, NEW v \in Validators, NEW n \in U64, NEW m \in U64,
           active' = [active EXCEPT ![v] = n], transient' = [transient EXCEPT ![v] = m],
           reserve' \in Nat
    PROVE  Backing' = Backing + (reserve' - reserve) + (n - active[v]) + (m - transient[v])
<1>1. active \in [Validators -> U64] /\ transient \in [Validators -> U64]
  BY DEF TypeOK
<1>2. Total([active EXCEPT ![v] = n]) = Total(active) - active[v] + n
  BY <1>1, TotalUpdate, Zenon
<1>3. Total([transient EXCEPT ![v] = m]) = Total(transient) - transient[v] + m
  BY <1>1, TotalUpdate, Zenon
<1>4. Total(active) \in Nat /\ Total(transient) \in Nat
  BY TotalNat
<1>5. active[v] \in Nat /\ transient[v] \in Nat /\ n \in Nat /\ m \in Nat /\ reserve \in Nat
  BY <1>1, MaxU64Assumption, StakeProgramAssumption DEF U64, TypeOK
<1>6. Backing' = reserve' - RentExempt + Total([active EXCEPT ![v] = n])
                                       + Total([transient EXCEPT ![v] = m])
  BY DEF Backing
<1> QED
  BY <1>2, <1>3, <1>4, <1>5, <1>6, StakeProgramAssumption DEF Backing

\* The backing after a change of the reserve alone.
LEMMA BackingReserve ==
    ASSUME TypeOK, UNCHANGED <<active, transient>>, reserve' \in Nat
    PROVE  Backing' = Backing + (reserve' - reserve)
<1>1. Backing' = reserve' - RentExempt + Total(active) + Total(transient)
  BY DEF Backing
<1> QED
  BY <1>1, TotalNat, MaxU64Assumption, StakeProgramAssumption DEF Backing, TypeOK

\* The backing is a number.
LEMMA BackingInt == TypeOK => Backing \in Int
  BY TotalNat, MaxU64Assumption, StakeProgramAssumption DEF Backing, TypeOK

\* A step that keeps the pool solvent: the total grows by no more than the
\* backing does.
LEMMA SolventStep ==
    ASSUME TypeOK, Solvent, NEW v \in Validators, NEW n \in U64, NEW m \in U64,
           active' = [active EXCEPT ![v] = n], transient' = [transient EXCEPT ![v] = m],
           reserve' \in Nat, total_lamports' \in Nat,
           total_lamports' - total_lamports
               <= (reserve' - reserve) + (n - active[v]) + (m - transient[v])
    PROVE  Solvent'
<1>1. Backing' = Backing + (reserve' - reserve) + (n - active[v]) + (m - transient[v])
  BY BackingStep, Zenon
<1>2. /\ active[v] \in Nat /\ transient[v] \in Nat /\ n \in Nat /\ m \in Nat
      /\ reserve \in Nat /\ total_lamports \in Nat
  BY MaxU64Assumption, StakeProgramAssumption DEF U64, TypeOK
<1> QED
  BY <1>1, <1>2, BackingInt DEF Solvent

\* The pool stays solvent when the reserve gains what total_lamports gains.
LEMMA SolventReserve ==
    ASSUME TypeOK, Solvent, UNCHANGED <<active, transient>>,
           reserve' \in Nat, total_lamports' \in Nat,
           total_lamports' - total_lamports <= reserve' - reserve
    PROVE  Solvent'
<1>1. reserve \in Nat /\ total_lamports \in Nat
  BY MaxU64Assumption, StakeProgramAssumption DEF U64, TypeOK
<1>2. Backing' = Backing + (reserve' - reserve)
  BY BackingReserve
<1>3. Backing \in Int /\ total_lamports <= Backing
  BY BackingInt DEF Solvent
<1>4. total_lamports' <= Backing + (reserve' - reserve)
  <2>1. ASSUME NEW t \in Int, NEW tn \in Int, NEW r \in Int, NEW rn \in Int, NEW b \in Int,
               t <= b, tn - t <= rn - r
        PROVE  tn <= b + (rn - r)
    BY <2>1
  <2>2. /\ total_lamports \in Int /\ total_lamports' \in Int
        /\ reserve \in Int /\ reserve' \in Int
    BY <1>1
  <2> QED
    BY <1>3, <2>1, <2>2, Zenon
<1> QED
  BY <1>2, <1>4 DEF Solvent

\* A stuttering step changes nothing.
LEMMA StutterIInv == IInv /\ UNCHANGED vars => IInv'
<1> SUFFICES ASSUME IInv, UNCHANGED vars PROVE IInv'
  OBVIOUS
<1> USE DEF vars, pool, preferred, list, accounts
<1>1. TypeOK'
  BY DEF IInv, TypeOK
<1>2. AccountsSound' /\ RecordsCovered' /\ Departed' /\ SupplyCoversMint'
  BY DEF IInv, AccountsSound, RecordsCovered, Departed, SupplyCoversMint
<1>3. Solvent'
  BY <1>1 DEF IInv, Solvent, Backing
<1> QED
  BY <1>1, <1>2, <1>3 DEF IInv

\* Steps that leave the reserve, the records and the accounts alone.
LEMMA LedgerUnchangedIInv ==
    ASSUME IInv, TypeOK', SupplyCoversMint',
           UNCHANGED <<total_lamports, status, active, transient, accounts>>
    PROVE  IInv'
<1> USE DEF accounts
<1>1. AccountsSound' /\ RecordsCovered' /\ Departed'
  BY DEF IInv, AccountsSound, RecordsCovered, Departed
<1>2. Solvent'
  BY SolventReserve, MaxU64Assumption, StakeProgramAssumption DEF IInv, TypeOK, U64
<1> QED
  BY <1>1, <1>2 DEF IInv
=============================================================================
