CONSTANTS
    MaxU64 = 255
    BaselineDenominator = 10
    FeeInputs <- SmallFees
    ManagedFees = {"stake_withdrawal", "sol_deposit"}
    MaxEpoch = 4
SPECIFICATION Spec
INVARIANTS FeeTypeOK PendingStillCapped
PROPERTIES IncreaseCapped NoticeGiven
