\* Streams of 8 bytes, buffers of 9, and three buffers are too many of them.
CONSTANTS
    SmallBuffer = 8
    NumericSize = 3
    LineHead <- MCHead
    LineTail <- MCTail
    Messages <- MCMessages
    Threads = {t1, t2}
    NoLine = noline
    FlushEveryN = 3
    MaxFaults = 2
    Room = 9
    MaxBatch = 2
    MaxLines = 4
    Missing = missing
    Main = t1
    ConfigFiles <- MCConfigFiles
SPECIFICATION FairStartSpec
INVARIANTS AssertionsHold LinesInOrder NeverOverruns OneServes
PROPERTIES LineIsWritten StartServes
\* start() may wait for ever, and the program ends after stop().
CHECK_DEADLOCK FALSE
