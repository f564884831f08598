CONSTANTS
    Producer = {p1, p2, p3}
    Consumer = {c1, c2, c3}
    Timed = {p1, c1}
    MaxSize = 2
    Batch = {2}
    MaxCall = 5
SPECIFICATION FairSpec
INVARIANTS
    NoLostWakeup
PROPERTIES
    Delivered
    ProducerServed
CHECK_DEADLOCK FALSE
