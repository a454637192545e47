------------------------ MODULE WsolSession_proofs ------------------------
(***************************************************************************)
(* The theorems about WsolSession, for any number of users and sessions,   *)
(* any amounts and any width of the integers.                              *)
(***************************************************************************)
EXTENDS WsolSession, PoolMath_proofs, FiniteSetTheorems

-----------------------------------------------------------------------------
(***************************************************************************)
(* Sums.                                                                   *)
(***************************************************************************)
\* A sum of natural numbers counts finitely many units, and is a natural number.
LEMMA SumNat ==
    ASSUME NEW S, IsFiniteSet(S), NEW f, \A x \in S : f[x] \in Nat
    PROVE  IsFiniteSet(Units(S, f)) /\ SumOver(S, f) \in Nat
<1> DEFINE cols == {{x} \X (1..f[x]) : x \in S}
<1>1. ASSUME NEW x \in S PROVE IsFiniteSet({x} \X (1..f[x]))
  <2>1. IsFiniteSet(1..f[x])
    BY FS_Interval
  <2>2. IsFiniteSet({x})
    BY FS_Singleton, Zenon
  <2> QED
    BY <2>1, <2>2, FS_Product, Zenon
<1>2. IsFiniteSet(cols)
  <2>1. [x \in S |-> {x} \X (1..f[x])] \in Surjection(S, cols)
    BY Zenon DEF Surjection
  <2> QED
    BY <2>1, FS_Surjection, Zenon
<1>3. IsFiniteSet(Units(S, f))
  BY <1>1, <1>2, FS_UNION, Zenon DEF Units
<1> QED
  BY <1>3, FS_CardinalityType, Zenon DEF SumOver

\* A sum is one entry and the sum of the others.
LEMMA SumSplit ==
    ASSUME NEW S, IsFiniteSet(S), NEW f, \A x \in S : f[x] \in Nat, NEW y \in S
    PROVE  /\ SumOver(S \ {y}, f) \in Nat
           /\ SumOver(S, f) = SumOver(S \ {y}, f) + f[y]
<1> DEFINE rest == Units(S \ {y}, f)
           col  == {y} \X (1..f[y])
<1>1. IsFiniteSet(S \ {y})
  BY FS_Subset, Zenon
<1>2. IsFiniteSet(rest) /\ SumOver(S \ {y}, f) \in Nat
  BY <1>1, SumNat, Zenon
<1>3. IsFiniteSet(col) /\ Cardinality(col) = f[y]
  <2>1. IsFiniteSet(1..f[y]) /\ Cardinality(1..f[y]) = f[y]
    BY FS_Interval
  <2>2. IsFiniteSet({y}) /\ Cardinality({y}) = 1
    BY FS_Singleton, Zenon
  <2>3. IsFiniteSet(col) /\ Cardinality(col) = Cardinality({y}) * Cardinality(1..f[y])
    BY <2>1, <2>2, FS_Product, Zenon
  <2> QED
    BY <2>1, <2>2, <2>3
<1>4. Units(S, f) = rest \cup col
  BY Zenon DEF Units
<1>5. rest \cap col = {}
  BY DEF Units
<1> HIDE DEF rest, col
<1>6. Cardinality(rest \cup col) = Cardinality(rest) + Cardinality(col) - Cardinality({})
  BY <1>2, <1>3, <1>5, FS_Union
<1> QED
  BY <1>2, <1>3, <1>4, <1>6, FS_EmptySet DEF SumOver, rest

\* Functions that agree on the set have the same sum.
LEMMA SumSame ==
    ASSUME NEW S, NEW f, NEW g, \A x \in S : f[x] = g[x]
    PROVE  SumOver(S, f) = SumOver(S, g)
  BY Zenon DEF SumOver, Units

\* One entry of a sum changes.
LEMMA SumUpdate ==
    ASSUME NEW S, IsFiniteSet(S), NEW f, \A x \in S : f[x] \in Nat,
           NEW y \in S, NEW g, g[y] \in Nat, \A x \in S \ {y} : g[x] = f[x]
    PROVE  SumOver(S, g) = SumOver(S, f) - f[y] + g[y]
<1>1. \A x \in S : g[x] \in Nat
  BY Zenon
<1>2. SumOver(S \ {y}, g) = SumOver(S \ {y}, f)
  BY SumSame, Zenon
<1>3. SumOver(S, g) = SumOver(S \ {y}, g) + g[y]
  BY <1>1, SumSplit, Zenon
<1>4. SumOver(S, f) = SumOver(S \ {y}, f) + f[y] /\ SumOver(S \ {y}, f) \in Nat
  BY SumSplit, Zenon
<1> QED
  BY <1>2, <1>3, <1>4

\* No entry of a sum is larger than the sum.
LEMMA SumEntry ==
    ASSUME NEW S, IsFiniteSet(S), NEW f, \A x \in S : f[x] \in Nat, NEW y \in S
    PROVE  f[y] <= SumOver(S, f)
<1>1. SumOver(S, f) = SumOver(S \ {y}, f) + f[y] /\ SumOver(S \ {y}, f) \in Nat
  BY SumSplit, Zenon
<1> QED
  BY <1>1

\* A sum of nothing, and a sum of zeros.
LEMMA SumZero ==
    ASSUME NEW S, NEW f, \A x \in S : f[x] = 0
    PROVE  SumOver(S, f) = 0
<1>1. Units(S, f) = {}
  BY DEF Units
<1> QED
  BY <1>1, FS_EmptySet, Zenon DEF SumOver

\* A sum of equal numbers.
LEMMA SumConst ==
    ASSUME NEW S, IsFiniteSet(S), NEW f, NEW c \in Nat, \A x \in S : f[x] = c
    PROVE  SumOver(S, f) = Cardinality(S) * c
<1>1. Units(S, f) = S \X (1..c)
  BY DEF Units
<1>2. IsFiniteSet(1..c) /\ Cardinality(1..c) = c
  BY FS_Interval
<1>3. Cardinality(S \X (1..c)) = Cardinality(S) * Cardinality(1..c)
  BY <1>2, FS_Product, Zenon
<1> QED
  BY <1>1, <1>2, <1>3, Zenon DEF SumOver

-----------------------------------------------------------------------------
(***************************************************************************)
(* The inductive invariant.  No instruction makes lamports, so the bound   *)
(* on what strangers bring bounds every balance.                           *)
(***************************************************************************)
SessionInv ==
    /\ SessionTypeOK
    /\ BooksBalance
    /\ Held <= MaxSol

\* What the wallet of u and its temporary account hold.
InWallet(u) == wsol[u].lamports + transient[u]

\* The balances are natural numbers.
LEMMA BalancesNat ==
    ASSUME SessionTypeOK
    PROVE  /\ reserve \in Nat /\ signer \in Nat /\ payer \in Nat /\ fees \in Nat /\ mint \in Nat
           /\ total_lamports \in Nat /\ pool_token_supply \in Nat
           /\ \A u \in Wallets : /\ wsol[u].lamports \in Nat /\ wsol[u].amount \in Nat
                                 /\ wsol[u].open \in BOOLEAN
                                 /\ transient[u] \in Nat /\ tokens[u] \in Nat
                                 /\ InWallet(u) \in Nat
           /\ SumOver(Wallets, [u \in Wallets |-> InWallet(u)]) \in Nat
           /\ Held = reserve + signer + payer + SumOver(Wallets, [u \in Wallets |-> InWallet(u)])
           /\ Held \in Nat
           /\ IsFiniteSet(Wallets)
<1>1. reserve \in Nat /\ signer \in Nat /\ payer \in Nat /\ fees \in Nat /\ mint \in Nat
      /\ total_lamports \in Nat /\ pool_token_supply \in Nat
  BY MaxU64Assumption, SessionAssumption DEF SessionTypeOK, U64
<1>2. ASSUME NEW u \in Wallets
      PROVE  /\ wsol[u].lamports \in Nat /\ wsol[u].amount \in Nat /\ wsol[u].open \in BOOLEAN
             /\ transient[u] \in Nat /\ tokens[u] \in Nat
  BY MaxU64Assumption DEF SessionTypeOK, U64
<1>3. IsFiniteSet(Wallets)
  BY SessionAssumption, Zenon
<1>4. \A u \in Wallets : InWallet(u) \in Nat
  BY <1>2 DEF InWallet
<1>5. SumOver(Wallets, [u \in Wallets |-> InWallet(u)]) \in Nat
  BY <1>3, <1>4, SumNat, Zenon
<1>6. Held = reserve + signer + payer + SumOver(Wallets, [u \in Wallets |-> InWallet(u)])
  BY Zenon DEF Held, InWallet
<1> QED
  BY <1>1, <1>2, <1>3, <1>4, <1>5, <1>6

\* What a step on one wallet does to the sum of all balances.
LEMMA HeldStep ==
    ASSUME SessionTypeOK, SessionTypeOK', NEW u \in Wallets,
           \A w \in Wallets \ {u} : wsol'[w] = wsol[w] /\ transient'[w] = transient[w]
    PROVE  Held' = Held + (reserve' - reserve) + (signer' - signer) + (payer' - payer)
                        + (wsol'[u].lamports - wsol[u].lamports) + (transient'[u] - transient[u])
<1> DEFINE f == [w \in Wallets |-> wsol[w].lamports + transient[w]]
<1>1. /\ reserve \in Nat /\ signer \in Nat /\ payer \in Nat /\ Held \in Nat /\ IsFiniteSet(Wallets)
      /\ \A w \in Wallets : wsol[w].lamports \in Nat /\ transient[w] \in Nat
  BY BalancesNat, Zenon
<1>2. /\ reserve' \in Nat /\ signer' \in Nat /\ payer' \in Nat
      /\ \A w \in Wallets : wsol'[w].lamports \in Nat /\ transient'[w] \in Nat
  BY MaxU64Assumption, SessionAssumption DEF SessionTypeOK, U64
<1>3. /\ \A w \in Wallets : f[w] \in Nat /\ f'[w] \in Nat
      /\ \A w \in Wallets \ {u} : f'[w] = f[w]
      /\ f[u] = wsol[u].lamports + transient[u] /\ f'[u] = wsol'[u].lamports + transient'[u]
  BY <1>1, <1>2
<1>4. Held = reserve + signer + payer + SumOver(Wallets, f)
      /\ Held' = reserve' + signer' + payer' + SumOver(Wallets, f')
  BY Zenon DEF Held
<1> HIDE DEF f
<1>5. SumOver(Wallets, f') = SumOver(Wallets, f) - f[u] + f'[u] /\ SumOver(Wallets, f) \in Nat
  BY <1>1, <1>3, SumUpdate, SumNat
<1> QED
  BY <1>1, <1>2, <1>3, <1>4, <1>5

\* The same for a step that touches no wallet.
LEMMA HeldSame ==
    ASSUME SessionTypeOK, UNCHANGED <<wsol, transient>>, reserve' \in Nat, signer' \in Nat, payer' \in Nat
    PROVE  Held' = Held + (reserve' - reserve) + (signer' - signer) + (payer' - payer)
<1> DEFINE sum == SumOver(Wallets, [w \in Wallets |-> wsol[w].lamports + transient[w]])
<1>1. Held = reserve + signer + payer + sum /\ Held' = reserve' + signer' + payer' + sum
  BY Zenon DEF Held
<1>2. reserve \in Nat /\ signer \in Nat /\ payer \in Nat /\ sum \in Nat
  BY BalancesNat, Zenon DEF InWallet
<1> HIDE DEF sum
<1> QED
  BY <1>1, <1>2

\* The balances of a wallet and of the others are part of the sum.
LEMMA HeldParts ==
    ASSUME SessionInv, NEW u \in Wallets
    PROVE  /\ reserve + signer + payer + wsol[u].lamports + transient[u] <= MaxSol
           /\ MaxSol \in Nat /\ MaxSol <= MaxU64
<1>1. /\ reserve \in Nat /\ signer \in Nat /\ payer \in Nat
      /\ wsol[u].lamports \in Nat /\ transient[u] \in Nat
      /\ Held = reserve + signer + payer + SumOver(Wallets, [w \in Wallets |-> InWallet(w)])
      /\ SumOver(Wallets, [w \in Wallets |-> InWallet(w)]) \in Nat
      /\ \A w \in Wallets : InWallet(w) \in Nat
      /\ IsFiniteSet(Wallets)
  BY BalancesNat, Zenon DEF SessionInv
<1>2. InWallet(u) <= SumOver(Wallets, [w \in Wallets |-> InWallet(w)])
  <2> DEFINE f == [w \in Wallets |-> InWallet(w)]
  <2>1. f[u] = InWallet(u) /\ \A w \in Wallets : f[w] \in Nat
    BY <1>1, Zenon
  <2> HIDE DEF f
  <2>2. f[u] <= SumOver(Wallets, f)
    BY <1>1, <2>1, SumEntry, Zenon
  <2> QED
    BY <2>1, <2>2, Zenon DEF f
<1>3. Held <= MaxSol /\ MaxSol \in Nat /\ MaxSol <= MaxU64
  BY SessionAssumption, MaxU64Assumption DEF SessionInv, U64
<1>4. InWallet(u) = wsol[u].lamports + transient[u]
  BY Zenon DEF InWallet
<1> QED
  BY <1>1, <1>2, <1>3, <1>4

LEMMA WalletHeld ==
    ASSUME SessionInv, NEW u \in Wallets
    PROVE  wsol[u].lamports <= Held /\ transient[u] <= Held
<1> DEFINE f == [w \in Wallets |-> InWallet(w)]
<1>1. /\ f[u] = wsol[u].lamports + transient[u] /\ \A w \in Wallets : f[w] \in Nat
      /\ IsFiniteSet(Wallets) /\ wsol[u].lamports \in Nat /\ transient[u] \in Nat
      /\ Held = reserve + signer + payer + SumOver(Wallets, f)
      /\ reserve \in Nat /\ signer \in Nat /\ payer \in Nat
  BY BalancesNat, Zenon DEF SessionInv, InWallet
<1> HIDE DEF f
<1>2. f[u] <= SumOver(Wallets, f) /\ SumOver(Wallets, f) \in Nat
  BY <1>1, SumEntry, SumNat, Zenon
<1> QED
  BY <1>1, <1>2

\* Pool tokens come and go in the hands of one user and of the fee accounts.
LEMMA TokensStep ==
    ASSUME SessionInv, NEW w \in Wallets, NEW k \in Int, tokens[w] + k \in Nat,
           tokens' = [tokens EXCEPT ![w] = tokens[w] + k],
           fees' \in Nat, mint' \in U64, mint' = mint + k + (fees' - fees)
    PROVE  /\ tokens' \in [Wallets -> U64] /\ fees' \in U64
           /\ mint' = fees' + SumOver(Wallets, tokens')
<1>1. /\ \A x \in Wallets : tokens[x] \in Nat
      /\ IsFiniteSet(Wallets) /\ mint \in Nat /\ fees \in Nat
      /\ tokens \in [Wallets -> U64] /\ mint = fees + SumOver(Wallets, tokens)
  BY BalancesNat, Zenon DEF SessionInv, SessionTypeOK, BooksBalance
<1>2. /\ \A x \in Wallets : tokens'[x] \in Nat
      /\ \A x \in Wallets \ {w} : tokens'[x] = tokens[x]
      /\ tokens'[w] = tokens[w] + k /\ tokens' \in [Wallets -> Nat]
  BY <1>1, Zenon
<1>3. /\ SumOver(Wallets, tokens') = SumOver(Wallets, tokens) - tokens[w] + tokens'[w]
      /\ SumOver(Wallets, tokens) \in Nat /\ SumOver(Wallets, tokens') \in Nat
  <2>1. SumOver(Wallets, tokens) \in Nat /\ SumOver(Wallets, tokens') \in Nat
    BY <1>1, <1>2, SumNat, Zenon
  <2>2. SumOver(Wallets, tokens') = SumOver(Wallets, tokens) - tokens[w] + tokens'[w]
    <3> DEFINE g == tokens'
    <3>1. g[w] \in Nat /\ \A x \in Wallets \ {w} : g[x] = tokens[x]
      BY <1>2, Zenon
    <3>2. IsFiniteSet(Wallets) /\ \A x \in Wallets : tokens[x] \in Nat
      BY <1>1, Zenon
    <3> HIDE DEF g
    <3>3. SumOver(Wallets, g) = SumOver(Wallets, tokens) - tokens[w] + g[w]
      BY <3>1, <3>2, SumUpdate
    <3> QED
      BY <3>3, Zenon DEF g
  <2> QED
    BY <2>1, <2>2, Zenon
<1>4. mint' = fees' + SumOver(Wallets, tokens')
  BY <1>1, <1>2, <1>3
<1>5. mint' \in Nat /\ mint' <= MaxU64 /\ MaxU64 \in Nat
  BY MaxU64Assumption DEF U64
<1>6. ASSUME NEW x \in Wallets PROVE tokens'[x] \in U64
  <2>1. tokens'[x] <= SumOver(Wallets, tokens')
    BY <1>1, <1>2, SumEntry, Zenon
  <2> QED
    BY <1>2, <1>3, <1>4, <1>5, <2>1 DEF U64
<1>7. fees' \in U64
  BY <1>3, <1>4, <1>5 DEF U64
<1> QED
  BY <1>2, <1>4, <1>6, <1>7, Zenon

\* What a step leaves of the pool and of its tokens.
PoolSound ==
    /\ total_lamports' \in U64 /\ pool_token_supply' \in U64 /\ mint' \in U64 /\ fees' \in U64
    /\ tokens' \in [Wallets -> U64] /\ mint' = fees' + SumOver(Wallets, tokens')
    /\ pool_updated' \in BOOLEAN /\ alive' \subseteq Sessions
    /\ reserve' \in RentExempt..MaxU64 /\ signer' \in U64 /\ payer' \in U64

\* A WSOL account that is rent exempt and counts no more than it holds.
WsolSound ==
    {a \in [open : BOOLEAN, lamports : U64, amount : U64] :
        a.open => a.lamports >= TokenRent /\ a.amount <= a.lamports - TokenRent}

\* A step on one wallet keeps the invariant.
LEMMA WalletStep ==
    ASSUME SessionInv, PoolSound, NEW u \in Wallets, NEW a \in WsolSound, NEW t \in U64,
           wsol' = [wsol EXCEPT ![u] = a], transient' = [transient EXCEPT ![u] = t],
           Held + (reserve' - reserve) + (signer' - signer) + (payer' - payer)
                + (a.lamports - wsol[u].lamports) + (t - transient[u]) <= MaxSol
    PROVE  SessionInv'
<1>1. /\ transient \in [Wallets -> U64]
      /\ wsol \in [Wallets -> [open : BOOLEAN, lamports : U64, amount : U64]]
      /\ \A w \in Wallets : wsol[w].open => /\ wsol[w].lamports >= TokenRent
                                            /\ wsol[w].amount <= wsol[w].lamports - TokenRent
  BY Zenon DEF SessionInv, SessionTypeOK, BooksBalance
<1>2. transient' \in [Wallets -> U64]
      /\ wsol' \in [Wallets -> [open : BOOLEAN, lamports : U64, amount : U64]]
      /\ \A w \in Wallets : wsol'[w].open => /\ wsol'[w].lamports >= TokenRent
                                             /\ wsol'[w].amount <= wsol'[w].lamports - TokenRent
  BY <1>1, Zenon DEF WsolSound
<1>3. SessionTypeOK' /\ BooksBalance'
  BY <1>2, Zenon DEF PoolSound, SessionTypeOK, BooksBalance
<1>4. Held' <= MaxSol
  <2>1. \A w \in Wallets \ {u} : wsol'[w] = wsol[w] /\ transient'[w] = transient[w]
    BY <1>1, Zenon
  <2>2. Held' = Held + (reserve' - reserve) + (signer' - signer) + (payer' - payer)
                     + (wsol'[u].lamports - wsol[u].lamports) + (transient'[u] - transient[u])
    BY <1>3, <2>1, HeldStep, Zenon DEF SessionInv
  <2>3. wsol'[u] = a /\ transient'[u] = t
    BY <1>1, Zenon
  <2> QED
    BY <2>2, <2>3, Zenon
<1> QED
  BY <1>3, <1>4, Zenon DEF SessionInv

\* So does one that touches no wallet.
LEMMA NoWalletStep ==
    ASSUME SessionInv, PoolSound, UNCHANGED <<wsol, transient>>,
           Held + (reserve' - reserve) + (signer' - signer) + (payer' - payer) <= MaxSol
    PROVE  SessionInv'
<1>1. SessionTypeOK' /\ BooksBalance'
  BY Zenon DEF SessionInv, PoolSound, SessionTypeOK, BooksBalance
<1>2. reserve' \in Nat /\ signer' \in Nat /\ payer' \in Nat
  BY MaxU64Assumption, SessionAssumption DEF PoolSound, U64
<1>3. Held' = Held + (reserve' - reserve) + (signer' - signer) + (payer' - payer)
  BY <1>2, HeldSame, Zenon DEF SessionInv
<1> QED
  BY <1>1, <1>3, Zenon DEF SessionInv

-----------------------------------------------------------------------------
(***************************************************************************)
(* DepositWsolWithSession.                                                 *)
(***************************************************************************)
\* Whoever signs, a wallet of a user is meant.
LEMMA SignerIsUser ==
    ASSUME NEW s \in Wallets \cup Sessions
    PROVE  extract_user_from_signer_or_session(s) \in Wallets
  BY SessionAssumption, Zenon DEF extract_user_from_signer_or_session

\* The balances a deposit works on.
BalanceRecord ==
    [payer : Int, transient : Int, counted : Int, signer : Int, reserve : Int, wsol : Int, amount : Int]

\* The temporary account is topped up to its rent.
LEMMA CreateStep ==
    ASSUME NEW b \in BalanceRecord, NEW c, c = create_pda_account(b),
           NEW required, required = saturating_sub(TokenRent, b.transient)
    PROVE  /\ c \in BalanceRecord /\ required \in Int
           /\ c.payer = b.payer - required /\ c.transient = b.transient + required
           /\ c.signer = b.signer /\ c.reserve = b.reserve /\ c.wsol = b.wsol /\ c.amount = b.amount
<1>1. required \in Int /\ b.payer - required \in Int /\ b.transient + required \in Int
  BY SessionAssumption DEF BalanceRecord, saturating_sub
<1> QED
  BY <1>1, Zenon DEF BalanceRecord, create_pda_account

\* It counts what it holds above its rent.
LEMMA InitializeStep ==
    ASSUME NEW b \in BalanceRecord, NEW c, c = initialize_account3(b)
    PROVE  /\ c \in BalanceRecord /\ c.counted = b.transient - TokenRent
           /\ c.payer = b.payer /\ c.transient = b.transient
           /\ c.signer = b.signer /\ c.reserve = b.reserve /\ c.wsol = b.wsol /\ c.amount = b.amount
<1>1. b.transient - TokenRent \in Int
  BY SessionAssumption DEF BalanceRecord
<1> QED
  BY <1>1, Zenon DEF BalanceRecord, initialize_account3

\* The deposit arrives in it.
LEMMA TransferStep ==
    ASSUME NEW b \in BalanceRecord, NEW lamports \in Int, NEW c, c = transfer_checked(b, lamports)
    PROVE  /\ c \in BalanceRecord
           /\ c.wsol = b.wsol - lamports /\ c.amount = b.amount - lamports
           /\ c.transient = b.transient + lamports /\ c.counted = b.counted + lamports
           /\ c.payer = b.payer /\ c.signer = b.signer /\ c.reserve = b.reserve
<1>1. /\ b.wsol - lamports \in Int /\ b.amount - lamports \in Int
      /\ b.transient + lamports \in Int /\ b.counted + lamports \in Int
  BY DEF BalanceRecord
<1> QED
  BY <1>1, Zenon DEF BalanceRecord, transfer_checked

\* It is closed to the program signer.
LEMMA CloseStep ==
    ASSUME NEW b \in BalanceRecord, NEW c, c = close_account(b)
    PROVE  /\ c \in BalanceRecord
           /\ c.signer = b.signer + b.transient /\ c.transient = 0
           /\ c.payer = b.payer /\ c.reserve = b.reserve /\ c.wsol = b.wsol /\ c.amount = b.amount
<1>1. b.signer + b.transient \in Int /\ 0 \in Int
  BY DEF BalanceRecord
<1> QED
  BY <1>1, Zenon DEF BalanceRecord, close_account

\* The signer pays the rent back and forwards the deposit.
LEMMA ForwardStep ==
    ASSUME NEW b \in BalanceRecord, NEW lamports \in Int,
           NEW c, c = ForwardToReserve(RefundRent(b), lamports)
    PROVE  /\ c.signer = b.signer - TokenRent - lamports /\ c.payer = b.payer + TokenRent
           /\ c.reserve = b.reserve + lamports
           /\ c.transient = b.transient /\ c.wsol = b.wsol /\ c.amount = b.amount
<1> DEFINE d == RefundRent(b)
<1>1. b.signer - TokenRent \in Int /\ b.payer + TokenRent \in Int
  BY SessionAssumption DEF BalanceRecord
<1>2. /\ d \in BalanceRecord /\ d.signer = b.signer - TokenRent /\ d.payer = b.payer + TokenRent
      /\ d.reserve = b.reserve /\ d.transient = b.transient /\ d.wsol = b.wsol /\ d.amount = b.amount
  BY <1>1, Zenon DEF BalanceRecord, RefundRent
<1>3. c = ForwardToReserve(d, lamports)
  BY Zenon
<1> HIDE DEF d
<1>4. /\ c.signer = d.signer - lamports /\ c.reserve = d.reserve + lamports /\ c.payer = d.payer
      /\ c.transient = d.transient /\ c.wsol = d.wsol /\ c.amount = d.amount
  BY <1>2, <1>3, Zenon DEF BalanceRecord, ForwardToReserve
<1> QED
  BY <1>2, <1>4, Zenon

\* What the calls of a deposit come to.  The check that the temporary account
\* counts exactly the deposit makes what was at its address plus the paymaster's
\* top-up the rent, which is what goes back to the paymaster.
LEMMA DepositMoves ==
    ASSUME SessionInv, NEW s \in Wallets \cup Sessions, NEW lamports \in U64, NEW fee, NEW to,
           DepositWsolWithSession(s, lamports, fee, to),
           NEW u, u = extract_user_from_signer_or_session(s)
    PROVE  /\ u \in Wallets /\ wsol[u].open
           /\ lamports <= wsol[u].amount /\ transient[u] <= TokenRent
           /\ wsol' = [wsol EXCEPT ![u] = [open |-> TRUE, lamports |-> wsol[u].lamports - lamports,
                                           amount |-> wsol[u].amount - lamports]]
           /\ transient' = [transient EXCEPT ![u] = 0]
           /\ signer' = signer /\ payer' = payer + transient[u]
           /\ reserve' = reserve + lamports /\ reserve' \in U64
<1> DEFINE b0 == Balances(u)
           b1 == create_pda_account(b0)
           b2 == initialize_account3(b1)
           b3 == transfer_checked(b2, lamports)
           b4 == close_account(b3)
           b5 == ForwardToReserve(RefundRent(b4), lamports)
           required == saturating_sub(TokenRent, b0.transient)
<1>1. u \in Wallets
  BY SignerIsUser, Zenon
<1>2. /\ wsol[u].lamports \in Nat /\ wsol[u].amount \in Nat /\ transient[u] \in Nat
      /\ signer \in Nat /\ payer \in Nat /\ reserve \in Nat /\ lamports \in Nat
      /\ TokenRent \in Nat /\ TokenRent > 0
  BY <1>1, BalancesNat, SessionAssumption, MaxU64Assumption DEF SessionInv, U64
<1>3. /\ wsol[u].open /\ b3.amount >= 0 /\ AmountArrived(b3, lamports)
      /\ process_deposit_sol(b5, lamports, fee, to, TRUE)
      /\ wsol' = [wsol EXCEPT ![u] = [open |-> TRUE, lamports |-> b5.wsol, amount |-> b5.amount]]
      /\ transient' = [transient EXCEPT ![u] = b5.transient]
      /\ signer' = b5.signer /\ payer' = b5.payer
  BY Zenon DEF DepositWsolWithSession
<1> HIDE DEF b0, b1, b2, b3, b4, b5, required
<1>4. /\ b0 \in BalanceRecord
      /\ b0.payer = payer /\ b0.transient = transient[u] /\ b0.signer = signer
      /\ b0.reserve = reserve /\ b0.wsol = wsol[u].lamports /\ b0.amount = wsol[u].amount
  BY <1>2 DEF Balances, BalanceRecord, b0
<1>5. /\ b1 \in BalanceRecord /\ required \in Int
      /\ b1.payer = payer - required /\ b1.transient = transient[u] + required
      /\ b1.signer = signer /\ b1.reserve = reserve
      /\ b1.wsol = wsol[u].lamports /\ b1.amount = wsol[u].amount
  <2>1. /\ b1 \in BalanceRecord /\ required \in Int
        /\ b1.payer = b0.payer - required /\ b1.transient = b0.transient + required
        /\ b1.signer = b0.signer /\ b1.reserve = b0.reserve /\ b1.wsol = b0.wsol /\ b1.amount = b0.amount
    BY <1>4, CreateStep, Zenon DEF b1, required
  <2> QED
    BY <1>4, <2>1, Zenon
<1>6. /\ b2 \in BalanceRecord /\ b2.counted = (transient[u] + required) - TokenRent
      /\ b2.payer = payer - required /\ b2.transient = transient[u] + required
      /\ b2.signer = signer /\ b2.reserve = reserve
      /\ b2.wsol = wsol[u].lamports /\ b2.amount = wsol[u].amount
  <2>1. /\ b2 \in BalanceRecord /\ b2.counted = b1.transient - TokenRent
        /\ b2.payer = b1.payer /\ b2.transient = b1.transient
        /\ b2.signer = b1.signer /\ b2.reserve = b1.reserve /\ b2.wsol = b1.wsol /\ b2.amount = b1.amount
    BY <1>5, InitializeStep, Zenon DEF b2
  <2> QED
    BY <1>5, <2>1, Zenon
<1>7. /\ b3 \in BalanceRecord
      /\ b3.wsol = wsol[u].lamports - lamports /\ b3.amount = wsol[u].amount - lamports
      /\ b3.transient = transient[u] + required + lamports
      /\ b3.counted = (transient[u] + required) - TokenRent + lamports
      /\ b3.payer = payer - required /\ b3.signer = signer /\ b3.reserve = reserve
  <2>1. lamports \in Int
    BY <1>2
  <2>2. /\ b3 \in BalanceRecord
        /\ b3.wsol = b2.wsol - lamports /\ b3.amount = b2.amount - lamports
        /\ b3.transient = b2.transient + lamports /\ b3.counted = b2.counted + lamports
        /\ b3.payer = b2.payer /\ b3.signer = b2.signer /\ b3.reserve = b2.reserve
    BY <1>6, <2>1, TransferStep, Zenon DEF b3
  <2> QED
    BY <1>6, <2>2, Zenon
<1>8. /\ b4 \in BalanceRecord
      /\ b4.signer = signer + (transient[u] + required + lamports) /\ b4.transient = 0
      /\ b4.payer = payer - required /\ b4.reserve = reserve
      /\ b4.wsol = wsol[u].lamports - lamports /\ b4.amount = wsol[u].amount - lamports
  <2>1. /\ b4 \in BalanceRecord
        /\ b4.signer = b3.signer + b3.transient /\ b4.transient = 0
        /\ b4.payer = b3.payer /\ b4.reserve = b3.reserve /\ b4.wsol = b3.wsol /\ b4.amount = b3.amount
    BY <1>7, CloseStep, Zenon DEF b4
  <2> QED
    BY <1>7, <2>1, Zenon
<1>9. /\ b5.signer = (signer + (transient[u] + required + lamports)) - TokenRent - lamports
      /\ b5.payer = (payer - required) + TokenRent
      /\ b5.reserve = reserve + lamports /\ b5.transient = 0
      /\ b5.wsol = wsol[u].lamports - lamports /\ b5.amount = wsol[u].amount - lamports
  <2>1. lamports \in Int
    BY <1>2
  <2>2. /\ b5.signer = b4.signer - TokenRent - lamports /\ b5.payer = b4.payer + TokenRent
        /\ b5.reserve = b4.reserve + lamports
        /\ b5.transient = b4.transient /\ b5.wsol = b4.wsol /\ b5.amount = b4.amount
    BY <1>8, <2>1, ForwardStep, Zenon DEF b5
  <2> QED
    BY <1>8, <2>2, Zenon
<1>10. (transient[u] + required) - TokenRent + lamports = lamports
  BY <1>3, <1>7, Zenon DEF AmountArrived
<1>11. transient[u] <= TokenRent /\ required = TokenRent - transient[u]
  <2>1. required = saturating_sub(TokenRent, transient[u])
    BY <1>4, Zenon DEF required
  <2> QED
    BY <1>2, <1>5, <1>10, <2>1 DEF saturating_sub
<1>12. lamports <= wsol[u].amount
  BY <1>2, <1>3, <1>7
<1>13. signer' = signer /\ payer' = payer + transient[u] /\ transient' = [transient EXCEPT ![u] = 0]
  <2>1. b5.signer = signer /\ b5.payer = payer + transient[u]
    BY <1>2, <1>9, <1>11
  <2> QED
    BY <1>3, <1>9, <2>1, Zenon
<1>14. reserve' = reserve + lamports /\ reserve' \in U64
  BY <1>3, <1>9, Zenon DEF process_deposit_sol, DepositedReserve
<1> QED
  BY <1>1, <1>3, <1>9, <1>11, <1>12, <1>13, <1>14, Zenon

\* A fee is a part of what it is taken from.
LEMMA SessionFee ==
    ASSUME NEW fee \in PoolFees, NEW amt \in Nat
    PROVE  apply(fee, amt) \in Nat /\ apply(fee, amt) <= amt /\ fee \in Fee /\ ~check_too_high(fee)
  BY SessionAssumption, ApplyBound, Zenon

\* A deposit keeps the invariant.
LEMMA DepositStep ==
    ASSUME SessionInv, NEW s \in Wallets \cup Sessions, NEW lamports \in U64, NEW fee \in PoolFees,
           NEW to \in Wallets, DepositWsolWithSession(s, lamports, fee, to)
    PROVE  SessionInv'
<1> DEFINE u == extract_user_from_signer_or_session(s)
           new == calc_pool_tokens_for_deposit(total_lamports, pool_token_supply, lamports)
           new_fee == apply(fee, new)
           k == new - new_fee
<1>1. /\ u \in Wallets /\ wsol[u].open
      /\ lamports <= wsol[u].amount /\ transient[u] <= TokenRent
      /\ wsol' = [wsol EXCEPT ![u] = [open |-> TRUE, lamports |-> wsol[u].lamports - lamports,
                                      amount |-> wsol[u].amount - lamports]]
      /\ transient' = [transient EXCEPT ![u] = 0]
      /\ signer' = signer /\ payer' = payer + transient[u]
      /\ reserve' = reserve + lamports /\ reserve' \in U64
  BY DepositMoves, Zenon
<1>2. \E b : process_deposit_sol(b, lamports, fee, to, TRUE)
  BY Zenon DEF DepositWsolWithSession
<1>3. /\ k > 0 /\ mint' \in U64 /\ total_lamports' \in U64 /\ pool_token_supply' \in U64
      /\ tokens' = [tokens EXCEPT ![to] = tokens[to] + k] /\ fees' = fees + new_fee
      /\ mint' = mint + new /\ pool_updated' = pool_updated
  BY <1>2, Zenon DEF process_deposit_sol
<1>4. alive' = alive
  BY Zenon DEF DepositWsolWithSession
<1> HIDE DEF u
<1>5. /\ total_lamports \in Nat /\ pool_token_supply \in Nat /\ lamports \in Nat /\ mint \in Nat
      /\ fees \in Nat /\ tokens[to] \in Nat /\ reserve \in Nat /\ signer \in Nat /\ payer \in Nat
      /\ wsol[u].lamports \in Nat /\ wsol[u].amount \in Nat /\ transient[u] \in Nat
      /\ TokenRent \in Nat /\ MaxU64 \in Nat /\ RentExempt \in Nat /\ RentExempt <= reserve
      /\ wsol[u].amount <= wsol[u].lamports - TokenRent
  BY <1>1, BalancesNat, MaxU64Assumption, SessionAssumption
     DEF SessionInv, SessionTypeOK, BooksBalance, U64
<1>6. new \in Nat
  BY <1>5, DepositFair, Zenon
<1> HIDE DEF new
<1>7. new_fee \in Nat /\ new_fee <= new
  BY <1>6, SessionFee, Zenon
<1> HIDE DEF new_fee
<1>8. /\ tokens' \in [Wallets -> U64] /\ fees' \in U64
      /\ mint' = fees' + SumOver(Wallets, tokens')
  <2>1. /\ k \in Int /\ tokens[to] + k \in Nat /\ fees' \in Nat
        /\ mint' = mint + k + (fees' - fees)
    BY <1>3, <1>5, <1>6, <1>7
  <2> QED
    BY <1>3, <2>1, TokensStep, Zenon
<1> HIDE DEF k
<1>9. /\ reserve + signer + payer + wsol[u].lamports + transient[u] <= MaxSol
      /\ MaxSol \in Nat /\ MaxSol <= MaxU64
  BY <1>1, HeldParts, Zenon
<1>10. PoolSound
  <2>1. signer' \in U64 /\ payer' \in U64 /\ reserve' \in RentExempt..MaxU64
    BY <1>1, <1>5, <1>9 DEF U64
  <2>2. pool_updated' \in BOOLEAN /\ alive' \subseteq Sessions
    BY <1>3, <1>4, Zenon DEF SessionInv, SessionTypeOK
  <2> QED
    BY <1>3, <1>8, <2>1, <2>2, Zenon DEF PoolSound
<1> DEFINE a == [open |-> TRUE, lamports |-> wsol[u].lamports - lamports,
                 amount |-> wsol[u].amount - lamports]
<1>11. a \in WsolSound /\ 0 \in U64
  <2>1. /\ wsol[u].lamports - lamports \in U64 /\ wsol[u].amount - lamports \in U64
        /\ wsol[u].lamports - lamports >= TokenRent /\ 0 \in U64
        /\ wsol[u].amount - lamports <= (wsol[u].lamports - lamports) - TokenRent
    BY <1>1, <1>5, <1>9 DEF U64
  <2> QED
    BY <2>1, Zenon DEF WsolSound
<1>12. Held + (reserve' - reserve) + (signer' - signer) + (payer' - payer)
            + (a.lamports - wsol[u].lamports) + (0 - transient[u]) <= MaxSol
  <2>1. Held \in Nat /\ Held <= MaxSol
    BY BalancesNat, Zenon DEF SessionInv
  <2>2. /\ reserve' - reserve = lamports /\ signer' - signer = 0 /\ payer' - payer = transient[u]
        /\ a.lamports - wsol[u].lamports = 0 - lamports
    BY <1>1, <1>5
  <2> QED
    BY <1>5, <1>9, <2>1, <2>2
<1> HIDE DEF a
<1> QED
  BY <1>1, <1>10, <1>11, <1>12, WalletStep, Zenon DEF a

-----------------------------------------------------------------------------
(***************************************************************************)
(* WithdrawWsolWithSession.                                                *)
(***************************************************************************)
\* The fee and the worth of a withdrawal.
LEMMA WithdrawAmountsNat ==
    ASSUME SessionTypeOK, NEW pool_tokens \in Nat, NEW fee \in PoolFees, NEW fee_valid \in BOOLEAN
    PROVE  /\ PoolTokensFee(pool_tokens, fee, fee_valid) \in Nat
           /\ PoolTokensFee(pool_tokens, fee, fee_valid) <= pool_tokens
           /\ WithdrawLamports(pool_tokens, fee, fee_valid) \in Nat
<1> DEFINE taken == PoolTokensFee(pool_tokens, fee, fee_valid)
           burnt == pool_tokens - taken
<1>1. taken \in Nat /\ taken <= pool_tokens
  BY SessionFee DEF PoolTokensFee
<1> HIDE DEF taken
<1>2. total_lamports \in Nat /\ pool_token_supply \in Nat /\ burnt \in Nat
  BY <1>1, BalancesNat
<1>3. burnt * total_lamports \in Nat
  BY <1>2, MulMono
<1>4. pool_token_supply # 0 => (burnt * total_lamports) \div pool_token_supply \in Nat
  BY <1>2, <1>3, Quotient, Zenon
<1>5. WithdrawLamports(pool_tokens, fee, fee_valid)
          = calc_lamports_withdraw_amount(total_lamports, pool_token_supply, burnt)
  BY Zenon DEF WithdrawLamports, taken
<1> QED
  BY <1>1, <1>4, <1>5 DEF calc_lamports_withdraw_amount, taken

\* A credited WSOL account.
LEMMA CreditedRecord ==
    ASSUME NEW a \in [open : BOOLEAN, lamports : U64, amount : U64], NEW lamports
    PROVE  Credited(a, lamports) = [open |-> a.open, lamports |-> a.lamports + lamports, amount |-> a.amount]
  BY DEF Credited

\* What a withdrawal moves.
LEMMA WithdrawMoves ==
    ASSUME SessionInv, NEW s \in Wallets \cup Sessions, NEW pool_tokens \in U64,
           NEW fee \in PoolFees, NEW fee_valid \in BOOLEAN,
           WithdrawWsolWithSession(s, pool_tokens, fee, fee_valid),
           NEW u, u = extract_user_from_signer_or_session(s),
           NEW lamports, lamports = WithdrawLamports(pool_tokens, fee, fee_valid)
    PROVE  /\ u \in Wallets /\ wsol[u].open /\ lamports \in Nat \ {0}
           /\ wsol[u].lamports + lamports \in U64
           /\ wsol' = [wsol EXCEPT ![u] = [open |-> TRUE, lamports |-> wsol[u].lamports + lamports,
                                           amount |-> (wsol[u].lamports + lamports) - TokenRent]]
           /\ reserve' = reserve - lamports /\ reserve' \in RentExempt..MaxU64
           /\ process_withdraw_sol(u, pool_tokens, fee, fee_valid)
           /\ UNCHANGED <<transient, signer, payer, alive>>
<1>1. u \in Wallets
  BY SignerIsUser, Zenon
<1>2. /\ wsol[u].open /\ wsol[u].lamports + lamports \in U64
      /\ process_withdraw_sol(u, pool_tokens, fee, fee_valid)
      /\ wsol' = [wsol EXCEPT ![u] = sync_native(Credited(wsol[u], lamports))]
      /\ UNCHANGED <<transient, signer, payer, alive>>
  BY Zenon DEF WithdrawWsolWithSession
<1>3. lamports \in Nat /\ pool_tokens \in Nat
  BY WithdrawAmountsNat DEF SessionInv, U64
<1>4. /\ lamports # 0 /\ saturating_sub(reserve, lamports) >= RentExempt
      /\ reserve' = reserve - lamports
  BY <1>2, Zenon DEF process_withdraw_sol
<1>5. reserve' \in RentExempt..MaxU64
  <2>1. /\ RentExempt \in Nat \ {0} /\ MaxU64 \in Nat /\ reserve \in Nat /\ reserve <= MaxU64
    BY SessionAssumption, MaxU64Assumption DEF SessionInv, SessionTypeOK
  <2> QED
    BY <1>3, <1>4, <2>1 DEF saturating_sub
<1>6. sync_native(Credited(wsol[u], lamports))
          = [open |-> TRUE, lamports |-> wsol[u].lamports + lamports,
             amount |-> (wsol[u].lamports + lamports) - TokenRent]
  <2> DEFINE c == Credited(wsol[u], lamports)
  <2>1. wsol[u] \in [open : BOOLEAN, lamports : U64, amount : U64]
    BY <1>1, Zenon DEF SessionInv, SessionTypeOK
  <2>2. c = [open |-> wsol[u].open, lamports |-> wsol[u].lamports + lamports, amount |-> wsol[u].amount]
    BY <2>1, CreditedRecord, Zenon
  <2>3. c \in [open : BOOLEAN, lamports : U64, amount : U64]
    BY <1>2, <2>1, <2>2
  <2> HIDE DEF c
  <2>4. sync_native(c) = [open |-> c.open, lamports |-> c.lamports, amount |-> c.lamports - TokenRent]
    BY <2>3 DEF sync_native
  <2> QED
    BY <1>2, <2>2, <2>4 DEF c
<1> QED
  BY <1>1, <1>2, <1>3, <1>4, <1>5, <1>6, Zenon

\* A withdrawal keeps the invariant.
LEMMA WithdrawStep ==
    ASSUME SessionInv, NEW s \in Wallets \cup Sessions, NEW pool_tokens \in U64,
           NEW fee \in PoolFees, NEW fee_valid \in BOOLEAN,
           WithdrawWsolWithSession(s, pool_tokens, fee, fee_valid)
    PROVE  SessionInv'
<1> DEFINE u == extract_user_from_signer_or_session(s)
           lamports == WithdrawLamports(pool_tokens, fee, fee_valid)
           taken == PoolTokensFee(pool_tokens, fee, fee_valid)
           burnt == pool_tokens - taken
           k == 0 - pool_tokens
           a == [open |-> TRUE, lamports |-> wsol[u].lamports + lamports,
                 amount |-> (wsol[u].lamports + lamports) - TokenRent]
<1>1. /\ u \in Wallets /\ wsol[u].open /\ lamports \in Nat \ {0}
      /\ wsol[u].lamports + lamports \in U64
      /\ wsol' = [wsol EXCEPT ![u] = a]
      /\ reserve' = reserve - lamports /\ reserve' \in RentExempt..MaxU64
      /\ process_withdraw_sol(u, pool_tokens, fee, fee_valid)
      /\ UNCHANGED <<transient, signer, payer, alive>>
  BY WithdrawMoves
<1>2. pool_tokens \in Nat /\ taken \in Nat /\ taken <= pool_tokens
  BY WithdrawAmountsNat DEF SessionInv, U64
<1> HIDE DEF u, a
<1>3. /\ pool_tokens <= tokens[u] /\ pool_token_supply >= burnt /\ total_lamports >= lamports
      /\ tokens' = [tokens EXCEPT ![u] = tokens[u] - pool_tokens]
      /\ fees' = fees + taken /\ mint' = mint - burnt
      /\ pool_token_supply' = pool_token_supply - burnt
      /\ total_lamports' = total_lamports - lamports /\ pool_updated' = pool_updated
  BY <1>1, Zenon DEF process_withdraw_sol, TakenFrom
<1> HIDE DEF lamports, taken
<1>4. /\ total_lamports \in Nat /\ pool_token_supply \in Nat /\ mint \in Nat /\ fees \in Nat
      /\ tokens[u] \in Nat /\ reserve \in Nat /\ signer \in Nat /\ payer \in Nat
      /\ wsol[u].lamports \in Nat /\ transient[u] \in Nat /\ TokenRent \in Nat /\ MaxU64 \in Nat
      /\ total_lamports <= MaxU64 /\ pool_token_supply <= MaxU64 /\ mint <= MaxU64
      /\ Held \in Nat /\ Held <= MaxSol /\ MaxSol \in Nat
  BY <1>1, BalancesNat, MaxU64Assumption, SessionAssumption DEF SessionInv, SessionTypeOK, U64
<1>5. tokens[u] <= mint
  <2>1. tokens[u] <= SumOver(Wallets, tokens) /\ SumOver(Wallets, tokens) \in Nat
    BY <1>1, BalancesNat, SumEntry, SumNat, Zenon DEF SessionInv
  <2>2. mint = fees + SumOver(Wallets, tokens)
    BY Zenon DEF SessionInv, BooksBalance
  <2> QED
    BY <1>4, <2>1, <2>2
<1>6. /\ total_lamports' \in U64 /\ pool_token_supply' \in U64 /\ mint' \in U64
  BY <1>1, <1>2, <1>3, <1>4, <1>5 DEF U64
<1>7. /\ tokens' \in [Wallets -> U64] /\ fees' \in U64
      /\ mint' = fees' + SumOver(Wallets, tokens')
  <2>1. /\ k \in Int /\ tokens[u] + k \in Nat /\ fees' \in Nat
        /\ mint' = mint + k + (fees' - fees)
    BY <1>2, <1>3, <1>4
  <2>2. tokens' = [tokens EXCEPT ![u] = tokens[u] + k]
    <3>1. tokens[u] - pool_tokens = tokens[u] + k
      BY <1>2, <1>4
    <3> QED
      BY <1>3, <3>1, Zenon
  <2> QED
    BY <1>1, <1>6, <2>1, <2>2, TokensStep, Zenon
<1>8. PoolSound
  <2>1. pool_updated' \in BOOLEAN /\ alive' \subseteq Sessions /\ signer' \in U64 /\ payer' \in U64
    BY <1>1, <1>3, Zenon DEF SessionInv, SessionTypeOK
  <2> QED
    BY <1>1, <1>6, <1>7, <2>1, Zenon DEF PoolSound
<1>9. a \in WsolSound /\ a.lamports = wsol[u].lamports + lamports
  <2>1. wsol[u].lamports >= TokenRent
    BY <1>1, Zenon DEF SessionInv, SessionTypeOK
  <2>2. /\ (wsol[u].lamports + lamports) - TokenRent \in U64
        /\ wsol[u].lamports + lamports >= TokenRent
        /\ (wsol[u].lamports + lamports) - TokenRent <= (wsol[u].lamports + lamports) - TokenRent
    BY <1>1, <1>4, <2>1 DEF U64
  <2> QED
    BY <1>1, <2>2, Zenon DEF WsolSound, a
<1>10. /\ transient[u] \in U64 /\ transient' = [transient EXCEPT ![u] = transient[u]]
  BY <1>1, Zenon DEF SessionInv, SessionTypeOK
<1>11. Held + (reserve' - reserve) + (signer' - signer) + (payer' - payer)
            + (a.lamports - wsol[u].lamports) + (transient[u] - transient[u]) <= MaxSol
  <2>1. /\ reserve' - reserve = 0 - lamports /\ signer' - signer = 0 /\ payer' - payer = 0
        /\ a.lamports - wsol[u].lamports = lamports /\ transient[u] - transient[u] = 0
    BY <1>1, <1>4, <1>9
  <2> QED
    BY <1>1, <1>4, <2>1
<1> QED
  BY <1>1, <1>8, <1>9, <1>10, <1>11, WalletStep, Zenon

-----------------------------------------------------------------------------
(***************************************************************************)
(* What happens around the two instructions.                               *)
(***************************************************************************)
\* The pool of a step that leaves it and the tokens alone.
LEMMA PoolSame ==
    ASSUME SessionInv, UNCHANGED <<total_lamports, pool_token_supply, mint, tokens, fees>>,
           pool_updated' \in BOOLEAN, alive' \subseteq Sessions,
           reserve' \in RentExempt..MaxU64, signer' \in U64, payer' \in U64
    PROVE  PoolSound
  BY Zenon DEF SessionInv, SessionTypeOK, BooksBalance, PoolSound

\* A user closes or opens a WSOL account, or is sent WSOL.
LEMMA WsolStep ==
    ASSUME SessionInv, NEW u \in Wallets, NEW a \in WsolSound, wsol' = [wsol EXCEPT ![u] = a],
           UNCHANGED <<pool, reserve, transient, signer, payer, tokens, fees, alive>>,
           Held + (a.lamports - wsol[u].lamports) <= MaxSol
    PROVE  SessionInv'
<1>1. PoolSound
  BY PoolSame, Zenon DEF pool, SessionInv, SessionTypeOK
<1>2. transient[u] \in U64 /\ transient' = [transient EXCEPT ![u] = transient[u]]
  BY Zenon DEF SessionInv, SessionTypeOK
<1>3. /\ reserve' - reserve = 0 /\ signer' - signer = 0 /\ payer' - payer = 0
      /\ transient[u] - transient[u] = 0 /\ Held \in Nat
      /\ a.lamports \in Int /\ wsol[u].lamports \in Int
  BY BalancesNat, MaxU64Assumption DEF SessionInv, WsolSound, U64
<1>4. Held + (reserve' - reserve) + (signer' - signer) + (payer' - payer)
           + (a.lamports - wsol[u].lamports) + (transient[u] - transient[u]) <= MaxSol
  BY <1>3
<1> QED
  BY <1>1, <1>2, <1>4, WalletStep, Zenon

LEMMA CloseWsolStep ==
    ASSUME SessionInv, NEW u \in Wallets, CloseWsol(u)
    PROVE  SessionInv'
<1>1. NoWsol \in WsolSound /\ NoWsol.lamports = 0
  BY MaxU64Assumption DEF NoWsol, WsolSound, U64
<1>2. Held + (NoWsol.lamports - wsol[u].lamports) <= MaxSol
  <2>1. Held \in Nat /\ Held <= MaxSol /\ MaxSol \in Nat /\ wsol[u].lamports \in Nat
    BY BalancesNat, SessionAssumption, MaxU64Assumption DEF SessionInv, U64
  <2> QED
    BY <1>1, <2>1
<1> QED
  BY <1>1, <1>2, WsolStep, Zenon DEF CloseWsol

LEMMA OpenWsolStep ==
    ASSUME SessionInv, NEW u \in Wallets, OpenWsol(u, InitialWsol)
    PROVE  SessionInv'
<1> DEFINE a == [open |-> TRUE, lamports |-> InitialWsol + TokenRent, amount |-> InitialWsol]
<1>1. /\ InitialWsol \in Nat /\ TokenRent \in Nat /\ MaxSol \in Nat /\ MaxSol <= MaxU64
      /\ MaxU64 \in Nat
  BY SessionAssumption, MaxU64Assumption DEF U64
<1>2. Held \in Nat /\ wsol[u].lamports \in Nat
  BY BalancesNat, Zenon DEF SessionInv
<1>3. Held + (InitialWsol + TokenRent) <= MaxSol
  BY Zenon DEF OpenWsol, Room
<1>4. a \in WsolSound /\ a.lamports = InitialWsol + TokenRent
  <2>1. /\ InitialWsol + TokenRent \in U64 /\ InitialWsol \in U64
        /\ InitialWsol + TokenRent >= TokenRent /\ InitialWsol <= (InitialWsol + TokenRent) - TokenRent
    BY <1>1, <1>2, <1>3 DEF U64
  <2> QED
    BY <2>1, Zenon DEF WsolSound
<1>5. wsol' = [wsol EXCEPT ![u] = a] /\ UNCHANGED <<pool, reserve, transient, signer, payer, tokens, fees, alive>>
  BY Zenon DEF OpenWsol
<1> HIDE DEF a
<1>6. Held + (a.lamports - wsol[u].lamports) <= MaxSol
  BY <1>1, <1>2, <1>3, <1>4
<1> QED
  BY <1>4, <1>5, <1>6, WsolStep, Zenon

LEMMA GiveWsolStep ==
    ASSUME SessionInv, NEW u \in Wallets, NEW lamports \in U64, Room(lamports), GiveWsol(u, lamports)
    PROVE  SessionInv'
<1> DEFINE a == [open |-> wsol[u].open, lamports |-> wsol[u].lamports + lamports, amount |-> wsol[u].amount]
<1>1. /\ lamports \in Nat /\ wsol[u].lamports \in Nat /\ wsol[u].amount \in Nat /\ wsol[u].open
      /\ TokenRent \in Nat /\ wsol[u].lamports >= TokenRent
      /\ wsol[u].amount <= wsol[u].lamports - TokenRent
      /\ Held \in Nat /\ reserve \in Nat /\ signer \in Nat /\ payer \in Nat /\ transient[u] \in Nat
  BY BalancesNat, SessionAssumption, MaxU64Assumption
     DEF SessionInv, SessionTypeOK, BooksBalance, GiveWsol, U64
<1>2. Held + lamports <= MaxSol /\ MaxSol \in Nat /\ MaxSol <= MaxU64 /\ MaxU64 \in Nat
  BY SessionAssumption, MaxU64Assumption DEF Room, U64
<1>3. wsol[u].lamports <= Held
  BY WalletHeld, Zenon
<1>4. a = Credited(wsol[u], lamports)
  <2>1. wsol[u] \in [open : BOOLEAN, lamports : U64, amount : U64]
    BY Zenon DEF SessionInv, SessionTypeOK
  <2> QED
    BY <2>1, CreditedRecord, Zenon
<1>5. a \in WsolSound /\ a.lamports = wsol[u].lamports + lamports
  <2>1. /\ wsol[u].lamports + lamports \in U64 /\ wsol[u].amount \in U64
        /\ wsol[u].lamports + lamports >= TokenRent
        /\ wsol[u].amount <= (wsol[u].lamports + lamports) - TokenRent
    BY <1>1, <1>2, <1>3 DEF U64
  <2>2. wsol[u].open \in BOOLEAN
    BY BalancesNat, Zenon DEF SessionInv
  <2> QED
    BY <2>1, <2>2, Zenon DEF WsolSound
<1>6. wsol' = [wsol EXCEPT ![u] = a] /\ UNCHANGED <<pool, reserve, transient, signer, payer, tokens, fees, alive>>
  BY <1>4, Zenon DEF GiveWsol
<1> HIDE DEF a
<1>7. Held + (a.lamports - wsol[u].lamports) <= MaxSol
  BY <1>1, <1>2, <1>5
<1> QED
  BY <1>5, <1>6, <1>7, WsolStep, Zenon

LEMMA GiveTransientStep ==
    ASSUME SessionInv, NEW u \in Wallets, NEW lamports \in U64, Room(lamports), GiveTransient(u, lamports)
    PROVE  SessionInv'
<1> DEFINE t == transient[u] + lamports
           a == wsol[u]
<1>1. PoolSound
  BY PoolSame, Zenon DEF pool, SessionInv, SessionTypeOK, GiveTransient
<1>2. /\ lamports \in Nat /\ wsol[u].lamports \in Nat /\ Held \in Nat
      /\ reserve \in Nat /\ signer \in Nat /\ payer \in Nat /\ transient[u] \in Nat
  BY BalancesNat DEF SessionInv, U64
<1>3. Held + lamports <= MaxSol /\ MaxSol \in Nat /\ MaxSol <= MaxU64 /\ MaxU64 \in Nat
  BY SessionAssumption, MaxU64Assumption DEF Room, U64
<1>4. transient[u] <= Held
  BY WalletHeld, Zenon
<1>5. t \in U64
  BY <1>2, <1>3, <1>4 DEF U64
<1>6. a \in WsolSound /\ wsol' = [wsol EXCEPT ![u] = a]
  BY Zenon DEF SessionInv, SessionTypeOK, BooksBalance, WsolSound, GiveTransient
<1>7. transient' = [transient EXCEPT ![u] = t]
  BY Zenon DEF GiveTransient
<1>8. Held + (reserve' - reserve) + (signer' - signer) + (payer' - payer)
           + (a.lamports - wsol[u].lamports) + (t - transient[u]) <= MaxSol
  <2>1. /\ reserve' - reserve = 0 /\ signer' - signer = 0 /\ payer' - payer = 0
        /\ a.lamports - wsol[u].lamports = 0 /\ t - transient[u] = lamports
    BY <1>2 DEF GiveTransient
  <2> QED
    BY <1>2, <1>3, <2>1
<1> HIDE DEF t, a
<1> QED
  BY <1>1, <1>5, <1>6, <1>7, <1>8, WalletStep, Zenon

\* The program signer or the reserve is sent lamports.
LEMMA GiveOthersStep ==
    ASSUME SessionInv, NEW lamports \in U64, Room(lamports),
           GiveSigner(lamports) \/ GiveReserve(lamports)
    PROVE  SessionInv'
<1>1. /\ lamports \in Nat /\ Held \in Nat /\ Held + lamports <= MaxSol
      /\ MaxSol \in Nat /\ MaxSol <= MaxU64 /\ MaxU64 \in Nat /\ RentExempt \in Nat
      /\ reserve \in Nat /\ signer \in Nat /\ payer \in Nat
      /\ reserve >= RentExempt /\ payer \in U64
  BY BalancesNat, SessionAssumption, MaxU64Assumption DEF SessionInv, SessionTypeOK, Room, U64
<1>2. reserve <= Held /\ signer <= Held
  <2> DEFINE sum == SumOver(Wallets, [w \in Wallets |-> InWallet(w)])
  <2>1. Held = reserve + signer + payer + sum /\ sum \in Nat
    BY BalancesNat, Zenon DEF SessionInv
  <2> HIDE DEF sum
  <2> QED
    BY <1>1, <2>1
<1>3. CASE GiveSigner(lamports)
  <2>1. signer' = signer + lamports /\ reserve' = reserve /\ payer' = payer
    BY <1>3, Zenon DEF GiveSigner
  <2>2. signer' \in U64
    BY <1>1, <1>2, <2>1 DEF U64
  <2>3. PoolSound
    BY <1>3, <2>2, PoolSame, Zenon DEF pool, SessionInv, SessionTypeOK, GiveSigner
  <2>4. Held + (reserve' - reserve) + (signer' - signer) + (payer' - payer) <= MaxSol
    BY <1>1, <2>1
  <2> QED
    BY <1>3, <2>3, <2>4, NoWalletStep, Zenon DEF GiveSigner
<1>4. CASE GiveReserve(lamports)
  <2>1. reserve' = reserve + lamports /\ signer' = signer /\ payer' = payer
    BY <1>4, Zenon DEF GiveReserve
  <2>2. reserve' \in RentExempt..MaxU64
    BY <1>1, <1>2, <2>1
  <2>3. PoolSound
    BY <1>4, <2>2, PoolSame, Zenon DEF pool, SessionInv, SessionTypeOK, GiveReserve
  <2>4. Held + (reserve' - reserve) + (signer' - signer) + (payer' - payer) <= MaxSol
    BY <1>1, <2>1
  <2> QED
    BY <1>4, <2>3, <2>4, NoWalletStep, Zenon DEF GiveReserve
<1> QED
  BY <1>3, <1>4, Zenon

\* Nothing moves: an epoch ends or a session expires.
LEMMA QuietStep ==
    ASSUME SessionInv, UNCHANGED <<total_lamports, pool_token_supply, mint, reserve, wsol, transient,
                                   signer, payer, tokens, fees>>,
           pool_updated' \in BOOLEAN, alive' \subseteq Sessions
    PROVE  SessionInv'
<1>1. PoolSound
  BY PoolSame, Zenon DEF SessionInv, SessionTypeOK
<1>2. Held + (reserve' - reserve) + (signer' - signer) + (payer' - payer) <= MaxSol
  <2>1. /\ reserve' - reserve = 0 /\ signer' - signer = 0 /\ payer' - payer = 0
        /\ Held \in Nat /\ Held <= MaxSol
    BY BalancesNat DEF SessionInv
  <2> QED
    BY <2>1
<1> QED
  BY <1>1, <1>2, NoWalletStep, Zenon

\* The epoch fee of an update.
EpochFee(epoch_fee, fee_valid) ==
    IF fee_valid
    THEN calc_epoch_fee_amount(total_lamports, pool_token_supply, epoch_fee,
                               saturating_sub(reserve - RentExempt, total_lamports))
    ELSE 0

LEMMA UpdateStep ==
    ASSUME SessionInv, NEW epoch_fee \in PoolFees, NEW fee_valid \in BOOLEAN,
           UpdateStakePoolBalance(epoch_fee, fee_valid)
    PROVE  SessionInv'
<1> DEFINE fee == EpochFee(epoch_fee, fee_valid)
           now == reserve - RentExempt
           reward == saturating_sub(now, total_lamports)
<1>1. /\ mint + fee \in U64 /\ mint' = mint + fee /\ fees' = fees + fee
      /\ pool_token_supply' = mint + fee /\ total_lamports' = now /\ pool_updated' = TRUE
      /\ UNCHANGED <<reserve, wsol, transient, signer, payer, tokens, alive>>
  BY Zenon DEF UpdateStakePoolBalance, EpochFee
<1>2. /\ total_lamports \in Nat /\ pool_token_supply \in Nat /\ mint \in Nat /\ fees \in Nat
      /\ reserve \in Nat /\ RentExempt \in Nat /\ MaxU64 \in Nat
      /\ reserve >= RentExempt /\ reserve <= MaxU64
  BY BalancesNat, SessionAssumption, MaxU64Assumption DEF SessionInv, SessionTypeOK
<1>3. now \in U64 /\ reward \in Nat
  BY <1>2 DEF saturating_sub, U64
<1> HIDE DEF reward, now
<1>4. fee \in Nat
  <2>1. epoch_fee \in Fee /\ ~check_too_high(epoch_fee)
    BY SessionAssumption, Zenon
  <2>2. calc_epoch_fee_amount(total_lamports, pool_token_supply, epoch_fee, reward) \in Nat
    BY <1>2, <1>3, <2>1, EpochFeeFair, Zenon
  <2> QED
    BY <2>2, Zenon DEF EpochFee, reward, now
<1> HIDE DEF fee
<1>5. fees' \in U64 /\ mint' = fees' + SumOver(Wallets, tokens')
  <2> DEFINE sum == SumOver(Wallets, tokens)
  <2>1. mint = fees + sum /\ sum \in Nat
    BY BalancesNat, SumNat, Zenon DEF SessionInv, BooksBalance
  <2>2. mint' = fees' + sum /\ SumOver(Wallets, tokens') = sum
    <3> HIDE DEF sum
    <3>1. mint' = fees' + sum
      BY <1>1, <1>2, <1>4, <2>1
    <3>2. SumOver(Wallets, tokens') = sum
      BY <1>1, Zenon DEF sum
    <3> QED
      BY <3>1, <3>2, Zenon
  <2> HIDE DEF sum
  <2>3. fees' \in U64
    BY <1>1, <1>2, <1>4, <2>1, <2>2 DEF U64
  <2> QED
    BY <2>2, <2>3, Zenon
<1>6. PoolSound
  BY <1>1, <1>3, <1>5, Zenon DEF SessionInv, SessionTypeOK, PoolSound
<1>7. Held + (reserve' - reserve) + (signer' - signer) + (payer' - payer) <= MaxSol
  <2>1. /\ reserve' - reserve = 0 /\ signer' - signer = 0 /\ payer' - payer = 0
        /\ Held \in Nat /\ Held <= MaxSol
    BY <1>1, BalancesNat DEF SessionInv
  <2> QED
    BY <2>1
<1> QED
  BY <1>1, <1>6, <1>7, NoWalletStep, Zenon

-----------------------------------------------------------------------------
(***************************************************************************)
(* Every step is a deposit, a withdrawal, something around them, or leaves *)
(* everything as it is.                                                    *)
(***************************************************************************)
Deposits ==
    \E s \in Wallets \cup Sessions, amount \in Amounts, fee \in PoolFees, to \in Wallets :
        DepositWsolWithSession(s, amount, fee, to)

Withdrawals ==
    \E s \in Wallets \cup Sessions, amount \in Amounts, fee \in PoolFees, fee_valid \in BOOLEAN :
        WithdrawWsolWithSession(s, amount, fee, fee_valid)

EpochSteps ==
    \/ \E fee \in PoolFees, fee_valid \in BOOLEAN : UpdateStakePoolBalance(fee, fee_valid)
    \/ AdvanceEpoch
    \/ \E s \in Sessions : Expire(s)

OwnerSteps == \E u \in Closers : CloseWsol(u) \/ OpenWsol(u, InitialWsol)

GiftSteps == \E lamports \in Gifts : Give(lamports)

LEMMA NextCases ==
    ASSUME [Next]_vars
    PROVE  Deposits \/ Withdrawals \/ EpochSteps \/ OwnerSteps \/ GiftSteps \/ UNCHANGED vars
  BY Zenon DEF Next, Deposits, Withdrawals, EpochSteps, OwnerSteps, GiftSteps

\* The amounts are 64-bit numbers.
LEMMA AmountsU64 ==
    /\ Amounts \subseteq U64 /\ Gifts \subseteq U64 /\ Closers \subseteq Wallets
  BY SessionAssumption, Zenon

LEMMA NextSessionInv ==
    ASSUME SessionInv, [Next]_vars
    PROVE  SessionInv'
<1>1. CASE Deposits
  BY <1>1, AmountsU64, DepositStep, Zenon DEF Deposits
<1>2. CASE Withdrawals
  BY <1>2, AmountsU64, WithdrawStep, Zenon DEF Withdrawals
<1>3. CASE EpochSteps
  <2>1. CASE \E fee \in PoolFees, fee_valid \in BOOLEAN : UpdateStakePoolBalance(fee, fee_valid)
    BY <2>1, UpdateStep, Zenon
  <2>2. CASE AdvanceEpoch
    BY <2>2, QuietStep, Zenon DEF AdvanceEpoch, SessionInv, SessionTypeOK
  <2>3. CASE \E s \in Sessions : Expire(s)
    BY <2>3, QuietStep, Zenon DEF Expire, pool, SessionInv, SessionTypeOK
  <2> QED
    BY <1>3, <2>1, <2>2, <2>3, Zenon DEF EpochSteps
<1>4. CASE OwnerSteps
  BY <1>4, AmountsU64, CloseWsolStep, OpenWsolStep, Zenon DEF OwnerSteps
<1>5. CASE GiftSteps
  <2>1. PICK lamports \in Gifts : Give(lamports)
    BY <1>5, Zenon DEF GiftSteps
  <2>2. lamports \in U64 /\ Room(lamports)
    BY <2>1, AmountsU64, Zenon DEF Give
  <2>3. CASE \E w \in Wallets : GiveWsol(w, lamports) \/ GiveTransient(w, lamports)
    BY <2>2, <2>3, GiveWsolStep, GiveTransientStep, Zenon
  <2>4. CASE GiveSigner(lamports) \/ GiveReserve(lamports)
    BY <2>2, <2>4, GiveOthersStep, Zenon
  <2> QED
    BY <2>1, <2>3, <2>4, Zenon DEF Give
<1>6. CASE UNCHANGED vars
  BY <1>6, QuietStep, Zenon DEF vars, pool, SessionInv, SessionTypeOK
<1> QED
  BY <1>1, <1>2, <1>3, <1>4, <1>5, <1>6, NextCases, Zenon

LEMMA InitSessionInv ==
    ASSUME Init
    PROVE  SessionInv
<1> DEFINE each == InitialWsol + TokenRent
           f == [u \in Wallets |-> wsol[u].lamports + transient[u]]
<1>1. /\ InitialReserve \in Nat /\ InitialReserve <= MaxU64 /\ RentExempt \in Nat
      /\ InitialReserve >= RentExempt /\ MaxU64 \in Nat /\ MaxSol \in Nat /\ MaxSol <= MaxU64
      /\ InitialPayer \in U64 /\ InitialPayer \in Nat /\ InitialWsol \in U64 /\ InitialWsol \in Nat
      /\ TokenRent \in Nat /\ IsFiniteSet(Wallets)
  BY SessionAssumption, MaxU64Assumption DEF U64
<1>2. InitialReserve + InitialPayer + Cardinality(Wallets) * each <= MaxSol
  BY SessionAssumption, Zenon
<1>3. each \in Nat
  BY <1>1
<1>4. \A u \in Wallets : f[u] = each
  BY <1>1 DEF Init
<1> HIDE DEF f
<1>5. SumOver(Wallets, f) = Cardinality(Wallets) * each
  BY <1>1, <1>3, <1>4, SumConst, Zenon
<1>6. SumOver(Wallets, f) \in Nat /\ \A u \in Wallets : f[u] <= SumOver(Wallets, f)
  BY <1>1, <1>3, <1>4, SumNat, SumEntry, Zenon
<1>7. Held <= MaxSol
  <2>1. Held = reserve + signer + payer + SumOver(Wallets, f)
    BY Zenon DEF Held, f
  <2>2. reserve = InitialReserve /\ signer = 0 /\ payer = InitialPayer
    BY Zenon DEF Init
  <2> QED
    BY <1>1, <1>2, <1>5, <1>6, <2>1, <2>2
<1>8. ASSUME NEW u \in Wallets PROVE each \in U64
  <2>1. each <= SumOver(Wallets, f)
    BY <1>4, <1>6, Zenon
  <2>2. SumOver(Wallets, f) <= MaxSol
    <3>1. InitialReserve + InitialPayer + SumOver(Wallets, f) <= MaxSol
      BY <1>2, <1>5, Zenon
    <3> QED
      BY <1>1, <1>6, <3>1
  <2> QED
    BY <1>1, <1>3, <1>6, <2>1, <2>2 DEF U64
<1>9. SessionTypeOK
  <2>1. 0 \in U64 /\ InitialReserve - RentExempt \in U64
    BY <1>1 DEF U64
  <2>2. wsol \in [Wallets -> [open : BOOLEAN, lamports : U64, amount : U64]]
    BY <1>1, <1>8, Zenon DEF Init
  <2>3. \A u \in Wallets : wsol[u].open => wsol[u].lamports >= TokenRent
    BY <1>1 DEF Init
  <2>4. transient \in [Wallets -> U64] /\ tokens \in [Wallets -> U64]
    BY <2>1, Zenon DEF Init
  <2>5. reserve \in RentExempt..MaxU64
    BY <1>1 DEF Init
  <2> QED
    BY <1>1, <2>1, <2>2, <2>3, <2>4, <2>5, Zenon DEF Init, SessionTypeOK
<1>10. BooksBalance
  <2>1. \A u \in Wallets : wsol[u].open => wsol[u].amount <= wsol[u].lamports - TokenRent
    BY <1>1 DEF Init
  <2>2. SumOver(Wallets, tokens) = 0
    BY SumZero, Zenon DEF Init
  <2>3. mint = fees /\ fees \in Nat
    BY <1>1 DEF Init
  <2> QED
    BY <2>1, <2>2, <2>3 DEF BooksBalance
<1> QED
  BY <1>7, <1>9, <1>10, Zenon DEF SessionInv

\* The inductive invariant holds: whatever the users, their sessions and
\* strangers do, no handler makes lamports.
THEOREM SessionInvariant == Spec => []SessionInv
<1>1. Init => SessionInv
  BY InitSessionInv, Zenon
<1>2. SessionInv /\ [Next]_vars => SessionInv'
  BY NextSessionInv, Zenon
<1> QED
  BY <1>1, <1>2, PTL DEF Spec

\* Every balance is a 64-bit number, and the reserve and every open WSOL account
\* stay rent exempt, also after a deposit of all the WSOL an account counts.
THEOREM SessionTypeCorrect == Spec => []SessionTypeOK
<1>1. SessionInv => SessionTypeOK
  BY Zenon DEF SessionInv
<1> QED
  BY <1>1, SessionInvariant, PTL

\* No deposit and no withdrawal leaves a WSOL account that counts more than it
\* holds above its rent, and the pool tokens of the users and of the fee
\* accounts are the supply of the mint.
THEOREM BooksAlwaysBalance == Spec => []BooksBalance
<1>1. SessionInv => BooksBalance
  BY Zenon DEF SessionInv
<1> QED
  BY <1>1, SessionInvariant, PTL

-----------------------------------------------------------------------------
(***************************************************************************)
(* What a step may not do.                                                 *)
(***************************************************************************)
\* Around the two instructions nobody's pool tokens move, the paymaster is left
\* alone and the program signer is only ever sent lamports.
LEMMA AroundSteps ==
    ASSUME SessionInv, EpochSteps \/ OwnerSteps \/ GiftSteps \/ UNCHANGED vars
    PROVE  /\ tokens' = tokens /\ payer' = payer
           /\ signer' # signer => signer' > signer /\ UNCHANGED <<pool, reserve, payer>>
<1>1. CASE EpochSteps
  BY <1>1, Zenon DEF EpochSteps, UpdateStakePoolBalance, AdvanceEpoch, Expire
<1>2. CASE OwnerSteps
  BY <1>2, Zenon DEF OwnerSteps, CloseWsol, OpenWsol
<1>3. CASE GiftSteps
  <2>1. PICK lamports \in Gifts : Give(lamports)
    BY <1>3, Zenon DEF GiftSteps
  <2>2. CASE \E w \in Wallets : GiveWsol(w, lamports) \/ GiveTransient(w, lamports)
    BY <2>2, Zenon DEF GiveWsol, GiveTransient
  <2>3. CASE GiveSigner(lamports)
    <3>1. signer' = signer + lamports /\ tokens' = tokens /\ UNCHANGED <<pool, reserve, payer>>
      BY <2>3, Zenon DEF GiveSigner
    <3>2. signer \in Nat /\ lamports \in Nat
      BY BalancesNat, AmountsU64 DEF SessionInv, U64
    <3>3. signer' # signer => signer' > signer
      BY <3>1, <3>2
    <3> QED
      BY <3>1, <3>3, Zenon
  <2>4. CASE GiveReserve(lamports)
    BY <2>4, Zenon DEF GiveReserve
  <2> QED
    BY <2>1, <2>2, <2>3, <2>4, Zenon DEF Give
<1>4. CASE UNCHANGED vars
  BY <1>4, Zenon DEF vars
<1> QED
  BY <1>1, <1>2, <1>3, <1>4, Zenon

\* A deposit gives pool tokens, leaves the program signer as it was and returns
\* the rent to the paymaster, with what was at the temporary account's address.
LEMMA DepositSteps ==
    ASSUME SessionInv, Deposits
    PROVE  /\ \A w \in Wallets : ~(tokens'[w] < tokens[w])
           /\ signer' = signer /\ payer' >= payer
<1>1. PICK s \in Wallets \cup Sessions, lamports \in Amounts, fee \in PoolFees, to \in Wallets :
          DepositWsolWithSession(s, lamports, fee, to)
  BY Zenon DEF Deposits
<1>2. lamports \in U64
  BY AmountsU64, Zenon
<1> DEFINE u == extract_user_from_signer_or_session(s)
           new == calc_pool_tokens_for_deposit(total_lamports, pool_token_supply, lamports)
           new_fee == apply(fee, new)
           k == new - new_fee
<1>3. u \in Wallets /\ signer' = signer /\ payer' = payer + transient[u]
  BY <1>1, <1>2, DepositMoves, Zenon
<1>4. payer' >= payer
  <2> HIDE DEF u
  <2>1. payer \in Nat /\ transient[u] \in Nat
    BY <1>3, BalancesNat, Zenon DEF SessionInv
  <2> QED
    BY <1>3, <2>1
<1>5. k > 0 /\ tokens' = [tokens EXCEPT ![to] = tokens[to] + k]
  <2>1. \E b : process_deposit_sol(b, lamports, fee, to, TRUE)
    BY <1>1, Zenon DEF DepositWsolWithSession
  <2> QED
    BY <2>1, Zenon DEF process_deposit_sol
<1>6. k \in Int
  <2>1. total_lamports \in Nat /\ pool_token_supply \in Nat /\ lamports \in Nat
    BY <1>2, BalancesNat DEF SessionInv, U64
  <2>2. new \in Nat
    BY <2>1, DepositFair, Zenon
  <2> HIDE DEF new
  <2>3. new_fee \in Nat
    BY <2>2, SessionFee, Zenon
  <2> QED
    BY <2>2, <2>3
<1> HIDE DEF k
<1>7. ASSUME NEW w \in Wallets PROVE ~(tokens'[w] < tokens[w])
  <2>1. tokens \in [Wallets -> U64] /\ tokens[w] \in Nat
    BY BalancesNat, Zenon DEF SessionInv, SessionTypeOK
  <2>2. tokens'[w] = tokens[w] \/ tokens'[w] = tokens[w] + k
    BY <1>5, <2>1, Zenon
  <2> QED
    BY <1>5, <1>6, <2>1, <2>2
<1> QED
  BY <1>3, <1>4, <1>7, Zenon

\* A withdrawal costs its user pool tokens and brings the lamports that leave
\* the reserve, counted.
LEMMA WithdrawSteps ==
    ASSUME SessionInv, Withdrawals, NEW w \in Wallets, tokens'[w] < tokens[w]
    PROVE  /\ reserve' < reserve
           /\ wsol'[w].lamports - wsol[w].lamports = reserve - reserve'
           /\ wsol'[w].amount = wsol'[w].lamports - TokenRent
<1>1. PICK s \in Wallets \cup Sessions, pool_tokens \in Amounts, fee \in PoolFees, fee_valid \in BOOLEAN :
          WithdrawWsolWithSession(s, pool_tokens, fee, fee_valid)
  BY Zenon DEF Withdrawals
<1>2. pool_tokens \in U64
  BY AmountsU64, Zenon
<1> DEFINE u == extract_user_from_signer_or_session(s)
           lamports == WithdrawLamports(pool_tokens, fee, fee_valid)
<1>3. /\ u \in Wallets /\ lamports \in Nat \ {0}
      /\ wsol' = [wsol EXCEPT ![u] = [open |-> TRUE, lamports |-> wsol[u].lamports + lamports,
                                      amount |-> (wsol[u].lamports + lamports) - TokenRent]]
      /\ reserve' = reserve - lamports
      /\ process_withdraw_sol(u, pool_tokens, fee, fee_valid)
  BY <1>1, <1>2, WithdrawMoves
<1> HIDE DEF u, lamports
<1>4. tokens' = [tokens EXCEPT ![u] = tokens[u] - pool_tokens]
  BY <1>3, Zenon DEF process_withdraw_sol, TakenFrom
<1>5. /\ tokens \in [Wallets -> U64] /\ tokens[w] \in Nat /\ reserve \in Nat
      /\ wsol[u].lamports \in Nat
      /\ wsol \in [Wallets -> [open : BOOLEAN, lamports : U64, amount : U64]]
  BY <1>3, BalancesNat, Zenon DEF SessionInv, SessionTypeOK
<1>6. w = u
  <2>1. w # u => tokens'[w] = tokens[w]
    BY <1>4, <1>5, Zenon
  <2> QED
    BY <1>5, <2>1
<1>7. /\ wsol'[u].lamports = wsol[u].lamports + lamports
      /\ wsol'[u].amount = (wsol[u].lamports + lamports) - TokenRent
  BY <1>3, <1>5, Zenon
<1>8. wsol'[u].lamports - wsol[u].lamports = reserve - reserve' /\ reserve' < reserve
  BY <1>3, <1>5, <1>7
<1>9. wsol'[u].amount = wsol'[u].lamports - TokenRent
  BY <1>7, Zenon
<1> QED
  BY <1>6, <1>8, <1>9, Zenon

\* The lamports of a deposit pass through the program signer and leave nothing
\* behind or with it, whatever was sent to the temporary account's address: the
\* check of its amount makes close_account hand over exactly deposit and rent.
THEOREM SignerOnlyPassesOn == Spec => SignerPassesThrough
<1>1. SessionInv /\ [Next]_vars
          => (signer' # signer => signer' > signer /\ UNCHANGED <<pool, reserve, payer>>)
  <2> SUFFICES ASSUME SessionInv, [Next]_vars, signer' # signer
               PROVE  signer' > signer /\ UNCHANGED <<pool, reserve, payer>>
    BY Zenon
  <2>1. ~Deposits
    BY DepositSteps, Zenon
  <2>2. ~Withdrawals
    BY Zenon DEF Withdrawals, WithdrawWsolWithSession
  <2> QED
    BY <2>1, <2>2, NextCases, AroundSteps, Zenon
<1> QED
  BY <1>1, SessionInvariant, PTL DEF Spec, SignerPassesThrough

\* The paymaster gets the rent of the temporary account back in the instruction
\* that took it, and never ends one with less than before.
THEOREM PaymasterAlwaysRefunded == Spec => PaymasterRefunded
<1>1. SessionInv /\ [Next]_vars => payer' >= payer
  <2> SUFFICES ASSUME SessionInv, [Next]_vars PROVE payer' >= payer
    BY Zenon
  <2>1. payer \in Nat
    BY BalancesNat, Zenon DEF SessionInv
  <2>2. CASE Deposits
    BY <2>2, DepositSteps, Zenon
  <2>3. CASE Withdrawals
    <3>1. payer' = payer
      BY <2>3, Zenon DEF Withdrawals, WithdrawWsolWithSession
    <3> QED
      BY <2>1, <3>1
  <2>4. CASE EpochSteps \/ OwnerSteps \/ GiftSteps \/ UNCHANGED vars
    <3>1. payer' = payer
      BY <2>4, AroundSteps, Zenon
    <3> QED
      BY <2>1, <3>1
  <2> QED
    BY <2>2, <2>3, <2>4, NextCases, Zenon
<1> QED
  BY <1>1, SessionInvariant, PTL DEF Spec, PaymasterRefunded

\* Whoever gives pool tokens gets, in the same instruction, every lamport that
\* left the reserve, and sync_native has counted all the account holds.
THEOREM BurnerAlwaysPaid == Spec => BurnerIsPaid
<1>1. SessionInv /\ [Next]_vars => BurnersPaid
  <2> SUFFICES ASSUME SessionInv, [Next]_vars, NEW w \in Wallets, tokens'[w] < tokens[w]
               PROVE  /\ reserve' < reserve
                      /\ wsol'[w].lamports - wsol[w].lamports = reserve - reserve'
                      /\ wsol'[w].amount = wsol'[w].lamports - TokenRent
    BY Zenon DEF BurnersPaid
  <2>1. ~Deposits
    BY DepositSteps, Zenon
  <2>2. ~(EpochSteps \/ OwnerSteps \/ GiftSteps \/ UNCHANGED vars)
    <3>1. tokens[w] \in Nat
      BY BalancesNat, Zenon DEF SessionInv
    <3>2. tokens' # tokens
      BY <3>1
    <3> QED
      BY <3>2, AroundSteps, Zenon
  <2>3. Withdrawals
    BY <2>1, <2>2, NextCases, Zenon
  <2> QED
    BY <2>3, WithdrawSteps, Zenon
<1> QED
  BY <1>1, SessionInvariant, PTL DEF Spec, BurnerIsPaid
=============================================================================
