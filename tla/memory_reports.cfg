\* Whom a report charges, as documented.
SPECIFICATION Spec
CONSTANTS
    k1 = k1
    k2 = k2
    w1 = w1
    w2 = w2
    NumOrgs = 1
    Keys = {k1, k2}
    NoKey = NoKey
    Reporters = {r1}
    Wallets = {w1, w2}
    Hashes = {h1, h2}
    Moderators = {m1}
    ModeratorLists <- Once
    OrgViews <- OneView
    PendingCaps = {4}
    DefaultCap = 4
    MaxEpoch = 1
CHECK_DEADLOCK FALSE
INVARIANTS
    ReportsCharged
