SPECIFICATION MCSpec
CONSTANTS
    t1 = t1
    t2 = t2
    t3 = t3
    n1 = n1
    n2 = n2
    n3 = n3
    Token = {t1, t2, t3}
    Writer = {t1}
    MultiWrite = FALSE
    MaxVerseq = 7
    Node = {n1, n2, n3}
    InitLive = {n1}
    BULK_FREE_NUM = 2
    LazyLimit = 0
    None = None
    Parts = {"nodes"}
    Rows = 2
    Cols = 4
    MaxPush = 0
    NodesVerseq = 9
    Busy = {t1, t2, t3}
SYMMETRY ReaderSymmetry
INVARIANT HeldNodesValid
\* The bound on the versions stops the threads.
CHECK_DEADLOCK FALSE
