\* One program: a key is opened and a value written under it.
SPECIFICATION FairSpec
CONSTANTS
    BatchSize = 2
    MaxFailedSends = 1
    MaxWindow = 2000
    RuleBook <- MCRuleBook
    Programs <- MCAutostart
    StageOrder <- MCStageOrder
INVARIANT AutostartWriteCounted
