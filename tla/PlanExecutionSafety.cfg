SPECIFICATION Spec
CONSTANTS
    p1 = p1
    p2 = p2
    fa = fa
    fb = fb
    fc = fc
    t = t
    u = u
    q1 = q1
    q2 = q2
    z = z
    w1 = w1
    w2 = w2
    None = None
    Absent = Absent
    Partial = Partial
    Plan = {p1, p2}
    Worker = {w1, w2}
    Source = {fa, fb, fc}
    Target = {t, u}
    Slot = {q1, q2}
    Foreign = {z}
    Size = 3
    Actions <- MCActions
    Candidates <- MCCandidates
    Sha <- MCSha
    Critical = {p2}
    DbFaults = TRUE
    Cancels = TRUE
    MaxEdits = 1
    MaxCrashes = 2
SYMMETRY Symmetry
INVARIANTS
    TypeOK
    EveryFileSurvives
    OneReservation
    Agreement
PROPERTIES
    WriteAhead
    OutcomesAreReal
    PipelineSpec
