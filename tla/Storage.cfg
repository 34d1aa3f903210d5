\* Pools of two blocks, sizes on both sides of a limit between two of them and
\* beyond the last; a pool of one node that runs dry and grows, into the second of
\* them and into malloc().
CONSTANTS
    BlockCount = 2
    Sizes = {64, 65, 1025}
    MaxHeap = 1
    PoolSize = 1
    MaxNodes = 3
    NodeSize = 65
SPECIFICATION StorageSpec
INVARIANTS BlockFits EveryNodeOnce NodesApart
\* A failed assertion ends the process.
CHECK_DEADLOCK FALSE
