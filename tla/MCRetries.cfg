SPECIFICATION RetriesSpec
CONSTANTS
    u1 = u1
    u2 = u2
    g1 = g1
    g2 = g2
    res1 = res1
    m1 = m1
    p1 = p1
    l1 = l1
    NoKey = NoKey
    Votes = {u1, u2}
    FeeAccounts = {g1, g2}
    MAX_VALIDATORS_TO_UPDATE = 1
    Options <- SomeOptions
    MaxLen = 2
    MaxEpoch = 2
    MaxChanges = 1
    MaxLoose = 1
    MaxU64 = 15
    BaselineDenominator = 10
    RentExempt = 2
    MAX_VALIDATORS_IN_POOL = 2
    MaxAttempts = 6
    MaxFaults = 2
    MaxGifts = 1
    v1 = v1
    v2 = v2
    NoValidator = NoValidator
    Validators = {v1, v2}
    StakeMinimumDelegation = 1
    MaxEpochs = 2
    MaxFailures = 1
    MaxOthers = 1
PROPERTIES
    RetryConverges
    UpdateConverges
    ServiceUpdates
CHECK_DEADLOCK FALSE
