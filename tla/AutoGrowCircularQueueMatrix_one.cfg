\* The table that test_auto_grow_circular_queue.cpp makes.
CONSTANTS
    Rows = 2
    Cols = 4
    MaxPush = 34
SPECIFICATION MatrixSpec
INVARIANT QueueRight
\* The run ends when all elements are pushed and popped.
CHECK_DEADLOCK FALSE
