SPECIFICATION RestartSpec
CONSTANTS
    Keys = {k1, k2}
    Addrs = {a1, a2}
    NoKey = NoKey
    NoAddr = NoAddr
    Capability = {}
    MaxSlots = 2
    Word = 128
    Prices = {3, 70}
    Percents = {50}
    InitBalance = 74
    ServingInfo = {}
    NoInfo = NoInfo
    Configs <- NoConfigs
    TrialGrantees = {}
SYMMETRY SymmetryKeysAddrs
INVARIANTS TypeOK SlotsContiguous FeesConserved MemberCountBounded
CHECK_DEADLOCK FALSE
