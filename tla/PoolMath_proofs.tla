-------------------------- MODULE PoolMath_proofs --------------------------
(***************************************************************************)
(* What the conversions of PoolMath guarantee, for amounts of any size.    *)
(***************************************************************************)
EXTENDS PoolMath, TLAPS

\* The quotient of natural numbers is the largest one that fits.
LEMMA Quotient ==
    ASSUME NEW a \in Nat, NEW d \in Nat \ {0}
    PROVE  a \div d \in Nat /\ (a \div d) * d <= a /\ a < (a \div d) * d + d
  OBVIOUS

\* Products grow with their factors.
LEMMA MulMono ==
    ASSUME NEW a \in Nat, NEW b \in Nat, NEW c \in Nat, a <= b
    PROVE  a * c <= b * c /\ c * a <= c * b /\ a * c \in Nat /\ a * c = c * a
  OBVIOUS

\* A rate of at most 100% takes no more than there is.
LEMMA ApplyBound ==
    ASSUME NEW fee \in Fee, ~check_too_high(fee), NEW amt \in Nat
    PROVE  apply(fee, amt) \in Nat /\ apply(fee, amt) <= amt
<1> DEFINE n == fee.numerator
           d == fee.denominator
<1>1. n \in Nat /\ d \in Nat /\ n <= d
  BY MaxU64Assumption DEF Fee, U64, check_too_high
<1>2. CASE d = 0
  BY <1>2 DEF apply
<1>3. CASE d # 0
  <2> DEFINE x == amt * n + d - 1
             q == x \div d
  <2>1. amt * n <= amt * d /\ amt * n \in Nat /\ amt * d \in Nat
    BY <1>1, MulMono
  <2>2. x \in Nat /\ d \in Nat \ {0}
    BY <1>1, <1>3, <2>1
  <2>3. q \in Nat /\ q * d <= x
    BY <2>2, Quotient
  <2>4. q * d < amt * d + d
    BY <1>1, <2>1, <2>3
  <2>5. q * d < (amt + 1) * d
    BY <1>1, <2>1, <2>4
  <2>6. ~(amt + 1 <= q)
    BY <1>1, <2>3, <2>5, MulMono
  <2> QED
    BY <1>3, <2>3, <2>6 DEF apply
<1> QED
  BY <1>2, <1>3

\* A deposit does not lower the price total/supply of a token: the depositor
\* gets at most the tokens that the lamports are worth.
THEOREM DepositFair ==
    ASSUME NEW total \in Nat, NEW supply \in Nat, NEW lamports \in Nat
    PROVE  LET new == calc_pool_tokens_for_deposit(total, supply, lamports)
           IN  /\ new \in Nat
               /\ (total + lamports) * supply >= total * (supply + new) \/ supply = 0
<1> DEFINE new == calc_pool_tokens_for_deposit(total, supply, lamports)
<1>1. CASE total = 0 \/ supply = 0
  <2>1. new = lamports
    BY <1>1 DEF calc_pool_tokens_for_deposit
  <2>2. CASE total = 0
    <3>1. (total + lamports) * supply \in Nat /\ total * (supply + new) = 0
      BY <2>1, <2>2, MulMono
    <3> QED
      BY <2>1, <3>1
  <2> QED
    BY <1>1, <2>1, <2>2
<1>2. CASE total # 0 /\ supply # 0
  <2>1. new = (lamports * supply) \div total
    BY <1>2 DEF calc_pool_tokens_for_deposit
  <2>2. lamports * supply \in Nat /\ total * supply \in Nat
    BY MulMono
  <2>3. new \in Nat /\ new * total <= lamports * supply
    BY <1>2, <2>1, <2>2, Quotient
  <2>4. (total + lamports) * supply = total * supply + lamports * supply
    OBVIOUS
  <2>5. total * (supply + new) = total * supply + new * total
    BY <2>3
  <2> QED
    BY <2>2, <2>3, <2>4, <2>5, MulMono
<1> QED
  BY <1>1, <1>2

\* A withdrawal of at most what the burnt tokens are worth does not lower the
\* price of the tokens that remain.
THEOREM WithdrawFair ==
    ASSUME NEW total \in Nat, NEW supply \in Nat, NEW burnt \in Nat, burnt <= supply,
           NEW lamports \in Nat,
           lamports <= calc_lamports_withdraw_amount(total, supply, burnt)
    PROVE  /\ lamports <= total
           /\ (total - lamports) * supply >= total * (supply - burnt)
<1> DEFINE worth == calc_lamports_withdraw_amount(total, supply, burnt)
<1>1. burnt * total \in Nat /\ burnt * total <= supply * total /\ supply * total = total * supply
  BY MulMono
<1>2. worth \in Nat /\ worth * supply <= burnt * total /\ (supply = 0 => worth = 0)
  <2>1. CASE burnt * total < supply \/ supply = 0
    <3>1. worth = 0
      BY <2>1 DEF calc_lamports_withdraw_amount
    <3> QED
      BY <1>1, <3>1, MulMono
  <2>2. CASE ~(burnt * total < supply \/ supply = 0)
    BY <1>1, <2>2, Quotient DEF calc_lamports_withdraw_amount
  <2> QED
    BY <2>1, <2>2
<1>3. lamports * supply <= worth * supply /\ lamports * supply \in Nat
  BY <1>2, MulMono
<1>4. lamports * supply <= burnt * total
  BY <1>1, <1>2, <1>3
<1>5. lamports <= total
  <2>1. CASE supply = 0
    BY <1>2, <2>1
  <2>2. CASE supply # 0
    <3> SUFFICES ASSUME lamports >= total + 1 PROVE FALSE
      OBVIOUS
    <3>1. (total + 1) * supply <= lamports * supply
      BY MulMono
    <3>2. (total + 1) * supply = total * supply + supply
      OBVIOUS
    <3> QED
      BY <1>1, <1>4, <2>2, <3>1, <3>2
  <2> QED
    BY <2>1, <2>2
<1>6. (total - lamports) * supply = total * supply - lamports * supply
  OBVIOUS
<1>7. total * (supply - burnt) = total * supply - burnt * total
  OBVIOUS
<1> QED
  BY <1>1, <1>4, <1>5, <1>6, <1>7

\* The tokens minted as the fee on an epoch's rewards do not take the price below
\* the one before the rewards.
THEOREM EpochFeeFair ==
    ASSUME NEW total \in Nat, NEW supply \in Nat, NEW reward \in Nat,
           NEW rate \in Fee, ~check_too_high(rate)
    PROVE  LET fee == calc_epoch_fee_amount(total, supply, rate, reward)
           IN  /\ fee \in Nat
               /\ (total + reward) * supply >= total * (supply + fee) \/ supply = 0
<1> DEFINE fl    == apply(rate, reward)
           fee   == calc_epoch_fee_amount(total, supply, rate, reward)
<1>1. fl \in Nat /\ fl <= reward
  BY ApplyBound
<1>2. total * supply \in Nat /\ reward * supply \in Nat
  BY MulMono
<1>3. (total + reward) * supply = total * supply + reward * supply
  OBVIOUS
<1>4. CASE reward = 0
  <2>1. fee = 0
    BY <1>4 DEF calc_epoch_fee_amount
  <2>2. total * (supply + fee) = total * supply
    BY <2>1
  <2> QED
    BY <1>2, <1>3, <2>1, <2>2
<1>5. CASE reward # 0 /\ (total + reward = fl \/ supply = 0)
  <2>1. fee = reward
    BY <1>5 DEF calc_epoch_fee_amount
  <2>2. CASE total + reward = fl
    <3>1. total = 0
      BY <1>1, <2>2
    <3>2. total * (supply + fee) = 0
      BY <2>1, <3>1, MulMono
    <3> QED
      BY <1>2, <1>3, <2>1, <3>2
  <2> QED
    BY <1>5, <2>1, <2>2
<1>6. CASE reward # 0 /\ total + reward # fl /\ supply # 0
  <2> DEFINE d == total + reward - fl
  <2>1. fee = (supply * fl) \div d
    BY <1>6 DEF calc_epoch_fee_amount
  <2>2. d \in Nat \ {0} /\ total <= d
    BY <1>1, <1>6
  <2>3. supply * fl \in Nat /\ supply * fl <= reward * supply
    BY <1>1, MulMono
  <2> HIDE DEF fl, d
  <2>4. fee \in Nat /\ fee * d <= supply * fl
    BY <2>1, <2>2, <2>3, Quotient
  <2> HIDE DEF fee
  <2>5. total * fee <= fee * d /\ total * fee \in Nat
    BY <2>2, <2>4, MulMono
  <2>6. total * (supply + fee) = total * supply + total * fee
    BY <2>4
  <2>7. fee * d \in Nat
    BY <2>2, <2>4, MulMono
  <2>8. total * fee <= reward * supply
    BY <1>2, <2>3, <2>4, <2>5, <2>7
  <2>9. (total + reward) * supply >= total * (supply + fee)
    BY <1>2, <1>3, <2>5, <2>6, <2>8
  <2> QED
    BY <2>4, <2>9 DEF fee
<1> QED
  BY <1>4, <1>5, <1>6
=============================================================================
