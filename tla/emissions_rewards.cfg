\* Mints by hook and by the authority, claims and parameter changes in any
\* order, with a pool whose save is accepted and one whose save is refused.
SPECIFICATION Spec
CONSTANTS
    Passkeys = {p1, p2}
    Wallets = {w1, w2}
    NoWallet = NoWallet
    GenesisAliases <- AliasTables
    MaxEpoch = 3
    EpochsPerYear = 2
    GenesisPools <- MixedPools
    ParamChoices <- TwoParams
    DefaultParams <- LongSchedule
    ApprovalCounts <- CountsUpTo2
SYMMETRY PasskeySymmetry
CHECK_DEADLOCK FALSE
INVARIANTS
    TypeOK
    SupplyConserved
    RewardsBacked
    ClaimsPaidToOwner
    ScheduleMatchesRecords
PROPERTIES
    ImplementsLedger
