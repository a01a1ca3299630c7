\* Batches of two, one send() that throws, two stages; the rules are the code's.
SPECIFICATION FairSpec
CONSTANTS
    BatchSize = 2
    MaxFailedSends = 1
    MaxWindow = 2000
    RuleBook <- MCRuleBook
    Programs <- MCPrograms
    StageOrder <- MCStageOrder
INVARIANTS
    TypeOK
    CountsExact
    ChainsJustified
    MatchesReported
    BehaviourCounted
    VolumeJudgedOnTruth
    StageLedger
PROPERTY CallsReachHost
