\* Any behaviour of the user's callback, and a user who answers every message;
\* bursts larger than one readv().
CONSTANTS
    ReadMax = 2
    MaxRx = 3
    MaxSpace = 2
    MaxSends = 3
    Manners = {{"reply"}, {"reply", "ignore", "logout"}}
SPECIFICATION FairSpec
INVARIANTS IndexTracksEpoll Armed FaultsComeFromPeer
PROPERTIES EofIsNoticed
\* A reset connection may have nothing left to do, and a fault ends the process.
CHECK_DEADLOCK FALSE
