\* Submissions, approvals and reports of two contents while leadership and the
\* cap change, epochs end and the chain is exported and imported.
SPECIFICATION Spec
CONSTANTS
    k1 = k1
    k2 = k2
    w1 = w1
    w2 = w2
    NumOrgs = 1
    Keys = {k1, k2}
    NoKey = NoKey
    Reporters = {r1}
    Wallets = {w1, w2}
    Hashes = {h1, h2}
    Moderators = {m1}
    ModeratorLists <- UpToTwice
    OrgViews <- TwoViews
    PendingCaps = {1, 4}
    DefaultCap = 4
    MaxEpoch = 2
SYMMETRY HashSymmetry
CHECK_DEADLOCK FALSE
INVARIANTS
    TypeOK
    ApprovalsCounted
    ReportsCounted
    StampLags
PROPERTIES
    SubmitWithinCap
    ApprovedFinal
