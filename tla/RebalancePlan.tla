--------------------------- MODULE RebalancePlan ---------------------------
(***************************************************************************)
(* The two plans of clients/py/bot/rebalance.py, as functions of what the  *)
(* bot has read: a list of records, the stake that validators have from    *)
(* others, and what may be taken out of the reserve.  A plan is a set of   *)
(* changes, one per validator at most; a change of more than 0 is an       *)
(* increase.                                                               *)
(***************************************************************************)
EXTENDS StakeProgram, SequencesExt

CONSTANT
    MINIMUM_DELEGATION     \* the MINIMUM_ACTIVE_STAKE of the Python client

Change(v, lamports) == [vote |-> v, lamports |-> lamports]

Largest(a, b) == IF a < b THEN b ELSE a
Smallest(a, b) == IF a < b THEN a ELSE b

-----------------------------------------------------------------------------
(***************************************************************************)
(* An even split.                                                          *)
(***************************************************************************)
\* The share of a validator, with the rent that the increases will park.
lamports_per_validator(validators, distributable) ==
    LET first == distributable \div Len(validators)
        num_increases == Cardinality({i \in DOMAIN validators :
                             validators[i].transient = 0 /\ validators[i].active < first})
    IN  (distributable - num_increases * RentExempt) \div Len(validators)

\* Records with transient stake, and changes that are too small, are skipped.
\* The status of a record is not looked at.
plan_even_split(validators, distributable) ==
    LET share == lamports_per_validator(validators, distributable)
        steady == {validators[i] : i \in {i \in DOMAIN validators : validators[i].transient = 0}}
    IN  {Change(r.vote, share - r.active) : r \in {r \in steady :
            \/ r.active - share > RentExempt
            \/ share > r.active /\ share - r.active >= MINIMUM_DELEGATION}}

-----------------------------------------------------------------------------
(***************************************************************************)
(* An even total stake.                                                    *)
(***************************************************************************)
stake_from_pool(external, level, cap) == Smallest(Largest(level - external, 0), cap)

\* What it costs to bring every validator up to a level.
bill(externals, pools, cap, level) ==
    SumFunction([i \in DOMAIN externals |->
        Largest(stake_from_pool(externals[i], level, cap) - pools[i], 0)])

\* Mutant: the search stops one below.
Mutant_compute_stake_level(externals, pools, cap, budget, max_level) ==
    LET levels == 0..Largest(max_level, 0)
        search[low \in levels, high \in levels] ==
            IF low >= high THEN low
            ELSE LET middle == (low + high + 1) \div 2
                 IN  IF bill(externals, pools, cap, middle) < budget
                     THEN search[middle, high] ELSE search[low, middle - 1]
    IN  search[0, Largest(max_level, 0)]

\* The binary search.
compute_stake_level(externals, pools, cap, budget, max_level) ==
    LET levels == 0..Largest(max_level, 0)
        search[low \in levels, high \in levels] ==
            IF low >= high THEN low
            ELSE LET middle == (low + high + 1) \div 2
                 IN  IF bill(externals, pools, cap, middle) <= budget
                     THEN search[middle, high] ELSE search[low, middle - 1]
    IN  search[0, Largest(max_level, 0)]

Actionable(r) == r.status = "Active" /\ r.transient = 0

\* What the bot makes of the records: those it can change, their stake from
\* others and from the pool, and the level and the stakes it wants.
Targets(validators, activated, distributable, cap) ==
    LET chosen == SelectSeq(validators, Actionable)
        skipped == SelectSeq(validators, LAMBDA r : ~Actionable(r))
        untouchable == SumFunction([i \in DOMAIN skipped |-> skipped[i].active + skipped[i].transient])
        externals == [i \in DOMAIN chosen |-> Largest(activated[chosen[i].vote] - chosen[i].active, 0)]
        remaining == Largest(distributable - untouchable, 0)
        ceiling == Max({externals[i] : i \in DOMAIN chosen}) + cap
        level == compute_stake_level(externals, [i \in DOMAIN chosen |-> 0], cap, remaining, ceiling)
    IN  [chosen |-> chosen, externals |-> externals, pools |-> [i \in DOMAIN chosen |-> chosen[i].active],
         remaining |-> remaining, ceiling |-> ceiling, level |-> level,
         stakes |-> [i \in DOMAIN chosen |-> stake_from_pool(externals[i], level, cap)]]

\* A validator keeps at least what its stake account must hold.
Decreases(t) ==
    LET lamports(i) == t.pools[i] - Largest(t.stakes[i], RentExempt + MINIMUM_DELEGATION)
    IN  {Change(t.chosen[i].vote, -lamports(i)) : i \in {i \in DOMAIN t.chosen :
            t.pools[i] > t.stakes[i] /\ lamports(i) >= MINIMUM_DELEGATION}}

\* Those that get more, the least staked ones first, as many as the reserve can
\* pay the rent for; the sort is stable.
Increased(t, usable) ==
    LET total(i) == t.externals[i] + t.pools[i]
        sorted == SetToSortSeq({i \in DOMAIN t.chosen : t.pools[i] < t.stakes[i]},
                      LAMBDA i, j : total(i) < total(j) \/ (total(i) = total(j) /\ i < j))
    IN  SubSeq(sorted, 1, Smallest(Len(sorted), usable \div RentExempt))

\* Mutant: the rent of the new accounts is not set aside.
Mutant_ReachableLevel(t, cap, usable) ==
    LET to_increase == Increased(t, usable)
    IN  compute_stake_level([i \in DOMAIN to_increase |-> t.externals[to_increase[i]]],
                            [i \in DOMAIN to_increase |-> t.pools[to_increase[i]]],
                            cap, usable, t.level)

\* How far the reserve reaches now.
ReachableLevel(t, cap, usable) ==
    LET to_increase == Increased(t, usable)
    IN  compute_stake_level([i \in DOMAIN to_increase |-> t.externals[to_increase[i]]],
                            [i \in DOMAIN to_increase |-> t.pools[to_increase[i]]],
                            cap, usable - Len(to_increase) * RentExempt, t.level)

Increases(t, cap, usable) ==
    LET level == ReachableLevel(t, cap, usable)
        lamports(i) == stake_from_pool(t.externals[i], level, cap) - t.pools[i]
    IN  {Change(t.chosen[i].vote, lamports(i)) : i \in {i \in Range(Increased(t, usable)) :
            lamports(i) > 0 /\ lamports(i) >= MINIMUM_DELEGATION}}

plan_equalized_stake(validators, activated, distributable, cap, usable) ==
    IF \A i \in DOMAIN validators : ~Actionable(validators[i]) THEN {}
    ELSE LET t == Targets(validators, activated, distributable, cap)
         IN  Decreases(t) \cup Increases(t, cap, usable)
=============================================================================
