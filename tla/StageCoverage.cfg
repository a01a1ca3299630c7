\* The standard profile, a sample that waits for a reboot, one fault.
SPECIFICATION Spec
CONSTANTS
    Ticks = 1
    Grace = 0
    Cases <- OneCase
    MaxFaults = 1
    MaxCounts = 0
INVARIANT FullCoverageIsWhole
