CONSTANTS
    w1 = w1
    w2 = w2
    r1 = r1
    None = None
    Writer = {w1, w2}
    Reader = {r1}
    Scenarios <- MainScenarios
    PT_MAX_ZPATH = 2
    Slots = 4
    MAX_DYNA_NUM = 2
SPECIFICATION ScanSpec
INVARIANTS
    LockProtocol
    CasChildSucceeds
    RetiredIsUnlinked
    NoNodeLost
    TrieIsStore
    LookupSeesInserted
    ScanRight
    
PROPERTIES
    Implements
    
CHECK_DEADLOCK FALSE
