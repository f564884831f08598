CONSTANTS
    t1 = t1
    t2 = t2
    t3 = t3
    k1 = k1
    k2 = k2
    k3 = k3
    k4 = k4
    s1 = s1
    s2 = s2
    s3 = s3
    None = None
    Thread = {t1, t2, t3}
    Key = {k1, k2, k3, k4}
    Slot = {s1, s2, s3}
SPECIFICATION Spec
SYMMETRY Symmetry
INVARIANTS
    HeldIsSolved
    RefsCounted
    EvictFinds
    SleeperHasWaker
\* TERARK_DIE ends the process
CHECK_DEADLOCK FALSE
