SPECIFICATION MCSpec
CONSTANTS
    Thread = {t1, t2, t3}
    Maker = {t1}
    Pair = {t1, t2}
    Parts = {"ids", "threads", "memory", "share"}
    MaxOwner = 2
    Null = Null
    Cap = 5
    ChunkSize = 4
    BaseOff = 1
    FastMax = 2
    FragMax = 1
    MaxCall = 3
    Dim = 1
    Len1 = {1, 2, 3}
    Populate = {5}
INVARIANTS
    ObjectsAccounted
    NoUseAfterDelete
    SlotOfOwner
    Tiling
    FragmentsCounted
    
    ReadonlyFragExact
PROPERTIES
    DestructReturns
CHECK_DEADLOCK FALSE
