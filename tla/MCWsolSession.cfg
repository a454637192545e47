SPECIFICATION Spec
CONSTANTS
    u1 = u1
    u2 = u2
    key1 = key1
    Wallets = {u1, u2}
    Closers = {u2}
    Sessions = {key1}
    SessionUser <- OneSession
    MaxU64 = 31
    BaselineDenominator = 10
    RentExempt = 1
    TokenRent = 2
    InitialReserve = 2
    InitialWsol = 1
    InitialPayer = 2
    Amounts = {1, 2}
    PoolFees <- SomeFees
    Gifts = {1, 3}
    MaxSol = 13
INVARIANTS
    SessionTypeOK
    BooksBalance
PROPERTIES
    SignerPassesThrough
    PaymasterRefunded
    BurnerIsPaid
    PoolView
