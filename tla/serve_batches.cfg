\* Two orgs, two serve keys: batches of up to two, denials, changing caps and limits.
SPECIFICATION Spec
CONSTANTS
    a1 = a1
    a2 = a2
    p1 = p1
    o1 = o1
    o2 = o2
    v1 = v1
    Orgs = {o1, o2}
    EpochIds = {1}
    Signers = {a1}
    LeaderKeys = {a1, p1}
    Leader <- Leaders
    ServeCaps = {1, 2}
    DefaultServeCap = 2
    Hashes = {h1}
    ServeKeys = {k1, k2}
    NoKey = NoKey
    NoOrg = NoOrg
    EventBodies = {}
    Models = {gpt}
    NoModel = NoModel
    Verdicts = {TRUE, FALSE}
    Turns = {2}
    Versions = {}
    SeedVersions = {}
    BlankVersions = {}
    NoVersion = NoVersion
    KeyOrder <- NameOrder
    PolicyHashes = {}
    NoHash = NoHash
    ServeParams <- TwoSettings
    DefaultServeParams <- Generous
    ActiveFlags = {TRUE, FALSE}
    MaxServes = 2
    MaxDenials = 1
    MaxEvents = 0
SYMMETRY KeySymmetry
CHECK_DEADLOCK FALSE
INVARIANTS
    StatsMatchReceipts
    ContributorServesMatch
    ReputationFollowsMemory
    ReceiptsWithinBandwidth
PROPERTIES
    ReceiptsFinal
    CapFixedAtFirstUse
