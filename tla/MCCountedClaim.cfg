SPECIFICATION Spec
CONSTANTS
    v1 = v1
    NoValidator = NoValidator
    Validators = {v1}
    MaxU64 = 16
    BaselineDenominator = 10
    RentExempt = 1
    StakeMinimumDelegation = 1
    MINIMUM_ACTIVE_STAKE = 1
    MaxValidators = 1
    InitialReserves = {9}
    DepositAmounts = {}
    UserStakes = {}
    WithdrawAmounts = {}
    StakeAmounts = {1, 2}
    PoolFees <- NoFees
    Rewards = {}
    Donations = {}
    Burns = {}
    Preferable = {}
    Destakable = {}
    Delinquents = {}
    MaxSol = 9
INVARIANT DeactivatingOnlyCounted
