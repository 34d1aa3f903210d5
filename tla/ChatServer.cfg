\* Registrations, logins, logouts and broadcasts in two loops.
\* The loops may all come to rest: nobody has to send anything.
CONSTANTS
    c1 = c1
    c2 = c2
    c3 = c3
    l1 = l1
    l2 = l2
    Names = {n1, n2}
    Conns = {c1, c2, c3}
    LoopOf <- TwoLoops
    MaxMsgs = 3
CHECK_DEADLOCK FALSE
SPECIFICATION FairSpec
INVARIANTS SenderOrder IntactAtHome
PROPERTIES OwedUntilSent ListedIsSent
