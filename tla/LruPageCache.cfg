CONSTANTS
    Thread = {t1, t2}
    Caches <- MainCaches
    m_bucket_size = 2
    MaxFile = 3
    MaxRef = 3
    None = None
    TERARK_WORD_BITS = 2
    InitialCap = 4
    MaxPush = 13
SPECIFICATION MCSpec
INVARIANTS
    PinnedStays
    RefCountsRight
    HashRight
    LookupRightUnlessAligned
PROPERTY PreadReturns
CHECK_DEADLOCK FALSE
