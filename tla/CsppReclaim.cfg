SPECIFICATION MCSpec
CONSTANTS
    t1 = t1
    t2 = t2
    t3 = t3
    n1 = n1
    n2 = n2
    n3 = n3
    Token = {t1, t2, t3}
    Writer = {t1, t2}
    Parts = {"queue", "nodes", "list"}
    NodesVerseq = 5
    Busy = {t1, t2}
    MultiWrite = TRUE
    MaxVerseq = 6
    Node = {n1, n2, n3}
    InitLive = {n1}
    BULK_FREE_NUM = 2
    LazyLimit = 0
    None = None
    Rows = 2
    Cols = 4
    MaxPush = 34
SYMMETRY PairSymmetry
INVARIANTS
    VersionOrder
    HeadFlag
    StaleMinIsSafe
    
    QueueRightUnlessAtOne
PROPERTIES
    MinNeverDecreases
    FreedOlderThanQueue
\* The bound on the versions stops the threads.
CHECK_DEADLOCK FALSE
