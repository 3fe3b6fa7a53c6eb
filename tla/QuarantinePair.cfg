SPECIFICATION Spec
CONSTANTS
    i1 = i1
    i2 = i2
    w1 = w1
    w2 = w2
    s = s
    q1 = q1
    q2 = q2
    z = z
    None = None
    Absent = Absent
    Partial = Partial
    Item = {i1, i2}
    Worker = {w1, w2}
    SourcePath = {s}
    SlotPath = {q1, q2}
    Src <- MCSrc
    Qar <- MCQar
    Protected = {i2}
    Foreign = {z}
    Sha <- MCSha
    PurgeReleased = TRUE
    MaxRestores = 1
    MaxPurges = 1
    MaxEdits = 1
    MaxCrashes = 1
SYMMETRY Symmetry
INVARIANTS
    TypeOK
    EveryItemSurvives
    OneUnresolved
    Agreement
PROPERTIES
    UnlinkAuthorised
    RestoresAreReal
    FateSpec
CHECK_DEADLOCK FALSE
