SPECIFICATION FairSpec
CONSTANTS
    File <- MCFile
    Order <- MCOrder
    Indexed <- MCIndexed
    Workers = 2
    BatchSize = 2
    Capacity = 1
    MaxRuns = 2
    MaxFaults = 2
    None = None
INVARIANTS TypeOK ReportIsDurable
PROPERTIES RunReturns
CHECK_DEADLOCK FALSE
