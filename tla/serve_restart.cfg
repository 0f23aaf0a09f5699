\* Epoch 0, a seeded anchor, serves without turns, denials, exports and imports.
SPECIFICATION RestartSpec
CONSTANTS
    a1 = a1
    a2 = a2
    p1 = p1
    o1 = o1
    o2 = o2
    v1 = v1
    Orgs = {o1}
    EpochIds = {0}
    Signers = {a2}
    LeaderKeys = {a1, p1}
    Leader <- Leaders
    ServeCaps = {1}
    DefaultServeCap = 1
    Hashes = {h1}
    ServeKeys = {k1, k2}
    NoKey = NoKey
    NoOrg = NoOrg
    EventBodies = {b1}
    Models = {gpt}
    NoModel = NoModel
    Verdicts = {TRUE, FALSE}
    Turns = {0, 2}
    Versions = {v1, v2}
    SeedVersions = {v1}
    BlankVersions = {v2}
    NoVersion = NoVersion
    KeyOrder <- NameOrder
    PolicyHashes = {x1, x2}
    NoHash = NoHash
    ServeParams <- OneSetting
    DefaultServeParams <- Generous
    ActiveFlags = {FALSE}
    MaxServes = 1
    MaxDenials = 1
    MaxEvents = 1
SYMMETRY KeySymmetry
CHECK_DEADLOCK FALSE
INVARIANTS
    TypeOK
    DenialsStandOnServes
    StatsSurviveImport
PROPERTIES
    AnchorsFinal
