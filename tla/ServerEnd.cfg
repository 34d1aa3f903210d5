\* Two threads, one being joined while the other loops or has not begun to, and
\* three connections, two of them in one loop.
CONSTANTS
    ThreadsNum = 2
    Conns = {c1, c2, c3}
    None = none
SPECIFICATION FairSpec
INVARIANTS CallsMeetLoops EndsCleanly
PROPERTIES StartReturns
\* The program ends when the pool is gone.
CHECK_DEADLOCK FALSE
