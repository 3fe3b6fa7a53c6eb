SPECIFICATION Spec
CONSTANTS
    a = a
    b = b
    u = u
    proj = proj
    None = None
    Unreliable = u
    Path <- MCPath
    Segments <- MCSegments
    Anchor <- MCAnchor
    Depth <- MCDepth
    Storage <- MCStorage
    Dependent <- MCDependent
    PathRank <- MCRank
    Term = {a, b}
    Parent <- MCParent
    CorpusRole <- MCCorpusRole
    LooksSensitive = {b}
    Indexes <- MCIndexes
    Histories <- MCHistories
    TermRank <- MCTermRank
    MinDirCount = 2
    MinFileCount = 3
    MinSamples = 2
    MaxCommands = 3
    MaxScans = 1
INVARIANTS
    TypeOK
    EffectiveWasApproved
    PlansAreSound
PROPERTIES
    HumanDecisionStands
CHECK_DEADLOCK FALSE
