SPECIFICATION Spec
CONSTANTS
    v1 = v1
    NoValidator = NoValidator
    Validators = {v1}
    MaxU64 = 16
    BaselineDenominator = 10
    RentExempt = 1
    StakeMinimumDelegation = 1
    MINIMUM_ACTIVE_STAKE = 1
    MaxValidators = 1
    InitialReserves = {4}
    DepositAmounts = {1, 3}
    UserStakes <- DepositedStakes
    WithdrawAmounts = {1, 2, 3}
    StakeAmounts = {1, 2}
    PoolFees <- SomeFees
    Rewards = {1}
    Donations = {2}
    Burns = {1}
    Preferable = {v1}
    Destakable = {}
    Delinquents = {}
    MaxSol = 7
INVARIANTS
    TypeOK
    RecordsCovered
    Solvent
    SupplyCoversMint
    PreferredNotRemoved
PROPERTIES
    PriceNeverFalls
    LamportsPaidFor
