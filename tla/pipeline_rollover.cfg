\* Approvals, mints and epoch ends as wired in app.go, over a whole schedule
\* and an epoch more.
SPECIFICATION Spec
CONSTANTS
    k1 = k1
    k2 = k2
    w1 = w1
    NumOrgs = 1
    Keys = {k1, k2}
    NoKey = NoKey
    Reporters = {}
    Wallets = {w1}
    NoWallet = NoWallet
    Hashes = {h1}
    Moderators = {}
    ModeratorLists <- NoModerators
    OrgViews <- OneView
    PendingCaps = {3}
    DefaultCap = 3
    MaxEpoch = 5
    GenesisAliases <- NoAliases
    EpochsPerYear = 2
    GenesisPools <- PoolsUpTo7
    ParamChoices <- OnlyFourEpochs
    DefaultParams <- FourEpochs
CHECK_DEADLOCK FALSE
INVARIANTS
    BudgetRollsOver
    FlatValidatorSchedule
PROPERTIES
    EveryEpochSettles
    SchedulePaysOut
