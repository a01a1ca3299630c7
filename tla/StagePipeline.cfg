\* Five profiles with a sample each, two faults, events counted for one stage.
SPECIFICATION FairSpec
CONSTANTS
    Ticks = 3
    Grace = 0
    Cases <- MCCases
    MaxFaults = 2
    MaxCounts = 1
INVARIANTS
    TypeOK
    DormantIsQuiet
    GateCreditedAfterQuiet
    InteractionGateFound
    ActivationNotEarly
    LedgerFaithful
    AbortLands
    AbortExplained
PROPERTY PipelineEnds
