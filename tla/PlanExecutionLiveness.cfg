SPECIFICATION FairSpec
CONSTANTS
    p1 = p1
    p2 = p2
    fa = fa
    fb = fb
    fc = fc
    t = t
    u = u
    q1 = q1
    q2 = q2
    z = z
    w1 = w1
    w2 = w2
    None = None
    Absent = Absent
    Partial = Partial
    Plan = {p1}
    Worker = {w1, w2}
    Source = {fa, fb}
    Target = {t}
    Slot = {q1, q2}
    Foreign = {z}
    Size = 2
    Actions <- MCOnePlan
    Candidates <- MCCandidates
    Sha <- MCSha
    Critical = {}
    DbFaults = TRUE
    Cancels = TRUE
    MaxEdits = 1
    MaxCrashes = 1
PROPERTIES
    LockReleased
