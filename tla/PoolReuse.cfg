\* One connection after the other.
CONSTANTS
    BlockCount = 2
    Sizes = {64}
    MaxHeap = 0
    PoolSize = 2
    MaxNodes = 2
    NodeSize = 65
SPECIFICATION StorageSpec
INVARIANT NeverAborts
CHECK_DEADLOCK FALSE
