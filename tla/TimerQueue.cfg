\* The process starts at any part of a second, clear of the wrap (at 16 ticks) or a
\* little before it, so that a timer is asked for, due and run on either side of it.
CONSTANTS
    Timers = {t1, t2}
    Timeouts = {0, 1, 2}
    Second = 2
    WrapAfter = 8
    Starts = {0, 1, 11, 12}
    MaxWait = 3
    MaxRun = 9
SPECIFICATION FairTimerSpec
INVARIANTS NeverEarly RunsOnce
PROPERTY TimerRuns
