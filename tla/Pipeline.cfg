CONSTANTS
    Pipelines <- MainPipelines
    nlen = 2
SPECIFICATION FairSpec
INVARIANTS
    InOrder
    AllProcessedIfStarted
PROPERTY WaitReturns
CHECK_DEADLOCK FALSE
