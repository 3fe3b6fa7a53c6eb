SPECIFICATION Spec
CONSTANTS
    p1 = p1
    p2 = p2
    photos = photos
    home = home
    None = None
    Proc = {p1, p2}
    Root = {photos, home}
    N = 2
    MaxRecent = 2
    MaxSessions = 4
    MaxCrashes = 1
    Below <- MCBelow
    Covering <- MCCovering
SYMMETRY Symmetry
INVARIANTS TypeOK ProjectsStand
PROPERTIES RecentKeeps DatabasesAreKept
CHECK_DEADLOCK FALSE
