SPECIFICATION CommandsSpec
CONSTANTS
    Subcommands = {"create-pool", "update", "set-manager", "deposit-stake", "withdraw-stake", "rebalance"}
    res1 = res1
    res2 = res2
    m1 = m1
    m2 = m2
    p1 = p1
    p2 = p2
    l1 = l1
    l2 = l2
    k1 = k1
    k2 = k2
    lost = lost
    f1 = f1
    f2 = f2
    v1 = v1
    v2 = v2
    u1 = u1
    u2 = u2
    u3 = u3
    g1 = g1
    g2 = g2
    acc1 = acc1
    acc2 = acc2
    acc3 = acc3
    Reserve = Reserve
    Anywhere = Anywhere
    NoKey = NoKey
    Unset = Unset
    NoValidator = NoValidator
    ReserveKeys = {res1, res2}
    MintKeys = {m1, m2}
    PoolKeys = {p1, p2}
    ListKeys = {l1, l2}
    Attempts <- MixedAttempts
    InitialStates = {"none", "foreign", "empty", "init"}
    InitialPoolStates = {"none", "foreign", "empty"}
    MAX_VALIDATORS_IN_POOL = 2
    MaxMade = 1
    MaxAttempts = 2
    MaxFaults = 2
    MaxGifts = 1
    Votes = {u1, u2, u3}
    UpdateFeeAccounts = {g1, g2}
    MAX_VALIDATORS_TO_UPDATE = 2
    Options <- SomeOptions
    MaxLen = 3
    MaxEpoch = 2
    MaxChanges = 1
    MaxLoose = 1
    Keys = {k1, k2, lost}
    Lost = {lost}
    FeeAccounts = {f1, f2}
    Names = {"old", "new"}
    Operators = {k1, k2}
    Commands <- SomeCommands
    MaxCommands = 2
    Accounts = {acc1, acc2, acc3}
    AccountOf <- StakeOf
    Wallet = 3
    Asked = {1, 2}
    Validating <- Plain
    Removable = {v2}
    ListOrder <- Order
    Requests <- SomeRequests
    ActiveLamports = {2, 8}
    TransientLamports = {0, 5}
    Reserves = {1, 5}
    HeldByOthers = 1
    Prices = {1, 2}
    MaxOthers = 1
    Settings <- SomeSettings
    Elsewhere <- StakeElsewhere
    Starts <- SomeStarts
    MINIMUM_DELEGATION = 1
    MaxEpochs = 2
    MaxFailures = 0
    BotDeposits = {2}
    BotWithdrawals = {2}
    MaxU64 = 64
    BaselineDenominator = 10
    RentExempt = 1
    StakeMinimumDelegation = 1
    MINIMUM_ACTIVE_STAKE = 1
    Validators = {v1, v2}
    MaxValidators = 2
    UserStakes <- Stakes
    PoolFees <- SomeFees
    DepositAmounts = {1}
    StakeAmounts = {1}
    Preferable = {v2}
    MaxSol = 32
INVARIANTS
    CommandsTypeOK
    PoolsStartSound
    OwnAccounts
    NobodyLockedOut
    SessionGateAgrees
    DepositsAddUp
    PlansServed
    PlanHolds
PROPERTIES
    OkMeansDone
    PlansSuffice
    PlansAreBest
CHECK_DEADLOCK FALSE
