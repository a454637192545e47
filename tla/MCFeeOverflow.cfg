CONSTANTS
    MaxU64 = 15
    BaselineDenominator = 15
    FeeInputs <- WideFees
    ManagedFees = {"stake_withdrawal"}
    MaxEpoch = 3
SPECIFICATION Spec
PROPERTIES IncreaseCapped
