\* Two other threads and two calls: two pushes may race, and either may come
\* from the loop's own thread.
CONSTANTS
    Threads = {t1, t2}
    Calls = {c1, c2}
    LoopThread = loop
    None = none
SPECIFICATION FairSpec
INVARIANTS NoLostWakeup ReadNeverFails
PROPERTIES LineSpec OthersCallsRun QuitEnds AllCallsRun
