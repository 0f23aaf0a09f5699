\* A contributor who attests and is served, and two ids JSON makes one.
SPECIFICATION Spec
CONSTANTS
    c1 = c1
    raw = raw
    text = text
    Developers = {c1, raw, text}
    Contributors = {c1}
    JSONText <- Texts
    Orgs = {o1, o2}
    EpochIds = {0, 1}
    CIDs = {m1}
    Tags = {t1}
    Provenances = {commitllm}
    NoProvenance = NoProvenance
    Grades = {3, 11}
    MaxTagged = 1
    Weights <- TwoWeights
    DefaultWeights <- FiveTwo
    ActiveFlags = {TRUE, FALSE}
    ServeCounts = {1}
    MaxAttested = 2
    MaxServed = 2
    MaxCounted = 1
CHECK_DEADLOCK FALSE
INVARIANTS
    TypeOK
    StatsAddUp
    BreadthIsOrgs
PROPERTIES
    StandingKept
