\* Two clients on two loops; the second accept may fall into any place of the
\* first connection's life, the first heartbeat check may be wrong, and whoever
\* registered is sent to at any time.
CONSTANTS
    Clients = {c1, c2}
    Registering = {c1, c2}
    LoopsNum = 2
    HeartTime = 2
    MaxTurn = 1
    FirstDt = {0, 2}
    None = none
SPECIFICATION LoopsSpec
INVARIANTS AcceptFindsClient NoDanglingChannel
PROPERTY LoopsAreCallQueues
SYMMETRY Symmetry
