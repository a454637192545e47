SPECIFICATION Spec
CONSTANTS
    v1 = v1
    v2 = v2
    NoValidator = NoValidator
    Validators = {v1, v2}
    MaxU64 = 18
    BaselineDenominator = 10
    RentExempt = 1
    StakeMinimumDelegation = 1
    MINIMUM_ACTIVE_STAKE = 1
    MaxValidators = 2
    InitialReserves = {7}
    DepositAmounts = {}
    UserStakes = {}
    WithdrawAmounts = {}
    StakeAmounts = {1}
    PoolFees <- NoFees
    Rewards = {1}
    Donations = {1}
    Burns = {}
    Preferable = {}
    Destakable = {v1}
    Delinquents = {v1}
    MaxSol = 9
INVARIANTS
    PricedOnFreshRecords
    RewardsPricedIn
    NothingLeftBehind
    UpdateNeverStuck
