----------------------------- MODULE MCPipeline ------------------------------
EXTENDS Pipeline

P(threads, keep, external, queue, tasks, drops, throws) ==
    [Threads |-> threads, Keep |-> keep, External |-> external, QueueSize |-> queue,
     NTask |-> tasks, Drops |-> drops, Throws |-> throws]

MainPipelines ==
    { \* Two threads that finish in any order feed one that restores the order.
      P(<<2, 1>>, 2, TRUE, 2, 4, {<<1, 2>>}, {}),
      \* The order is restored in the middle.
      P(<<2, 1, 1>>, 2, TRUE, 1, 3, {<<2, 1>>}, {}),
      \* The first stage generates the tasks.
      P(<<1, 2, 1>>, 3, FALSE, 1, 3, {}, {}),
      \* process() throws in the first, the reordering and the last stage.
      P(<<2, 1, 1>>, 2, TRUE, 1, 4, {}, {<<1, 2>>, <<2, 4>>, <<3, 3>>}) }
=============================================================================
