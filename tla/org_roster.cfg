SPECIFICATION Spec
CONSTANTS
    Keys = {k1, k2, k3}
    Addrs = {a1, a2, a3, a4}
    NoKey = NoKey
    NoAddr = NoAddr
    Capability = {contribute}
    MaxSlots = 1
    Word = 256
    Prices = {4}
    Percents = {50}
    InitBalance = 7
    ServingInfo = {hub}
    NoInfo = NoInfo
    Configs <- TwoConfigs
    TrialGrantees = {a1}
SYMMETRY SymmetryRoster
INVARIANTS UniqueLeader MemberCount AuthoritiesSponsored AuthoritiesSeparate
PROPERTIES ClosedRosterFrozen WalletlessOrgFrozen
CHECK_DEADLOCK FALSE
