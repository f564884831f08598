CONSTANTS
    Thread = {t1, t2}
    Caches <- SmallCache
    m_bucket_size = 2
    MaxFile = 1
    MaxRef = 3
    None = None
    TERARK_WORD_BITS = 2
    InitialCap = 4
    MaxPush = 0
SPECIFICATION MCSpec
INVARIANT CrossReadReturnsData
CHECK_DEADLOCK FALSE
