\* Rewards and roots as documented.
SPECIFICATION HookSpec
CONSTANTS
    k1 = k1
    k2 = k2
    w1 = w1
    NumOrgs = 1
    Keys = {k1, k2}
    NoKey = NoKey
    Reporters = {}
    Wallets = {w1}
    NoWallet = NoWallet
    Hashes = {h1, h2}
    Moderators = {}
    ModeratorLists <- NoModerators
    OrgViews <- OneView
    PendingCaps = {3}
    DefaultCap = 3
    MaxEpoch = 3
    GenesisAliases <- NoAliases
    EpochsPerYear = 2
    GenesisPools <- EnoughPool
    ParamChoices <- OnlyTwoEpochs
    DefaultParams <- TwoEpochs
CHECK_DEADLOCK FALSE
INVARIANTS
    ApprovalsSettled
