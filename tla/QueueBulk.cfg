\* An endless stream of jobs of high priority, two levels above the bulk jobs
\* that age behind them.
SPECIFICATION FairSpec
CONSTANTS
    j1 = j1
    j2 = j2
    j3 = j3
    j4 = j4
    s1 = s1
    s2 = s2
    s4 = s4
    windows = windows
    Jobs = {j1, j2, j3, j4}
    Samples = {s1, s2, s4}
    Platforms = {windows}
    NoJob = NoJob
    ShaOf <- MCShaOf
    PlatformOf <- MCPlatformOf
    Urgent = 3
    SubmitPriorities = {0, 2}
    MaxAged = 4
PROPERTIES
    BulkDrains
