\* Exports as documented.
SPECIFICATION RestartSpec
CONSTANTS
    a1 = a1
    a2 = a2
    p1 = p1
    o1 = o1
    o2 = o2
    v1 = v1
    Orgs = {o1}
    EpochIds = {1}
    Signers = {a2}
    LeaderKeys = {a1, p1}
    Leader <- Leaders
    ServeCaps = {1}
    DefaultServeCap = 1
    Hashes = {h1}
    ServeKeys = {k1, k2}
    NoKey = NoKey
    NoOrg = NoOrg
    EventBodies = {b1}
    Models = {gpt}
    NoModel = NoModel
    Verdicts = {TRUE}
    Turns = {0, 2}
    Versions = {}
    SeedVersions = {}
    BlankVersions = {}
    NoVersion = NoVersion
    KeyOrder <- NameOrder
    PolicyHashes = {x1}
    NoHash = NoHash
    ServeParams <- OneSetting
    DefaultServeParams <- Generous
    ActiveFlags = {FALSE}
    MaxServes = 1
    MaxDenials = 1
    MaxEvents = 1
CHECK_DEADLOCK FALSE
INVARIANTS
    ExportCanBeImported
