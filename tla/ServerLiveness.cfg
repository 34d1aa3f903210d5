\* Two clients in one loop, so that their calls share batches; the first heartbeat
\* check may take any time for the time elapsed.  Nobody registers: what is sent
\* touches neither a heartbeat nor who holds a connection.
CONSTANTS
    Clients = {c1, c2}
    Registering = {}
    LoopsNum = 1
    HeartTime = 3
    MaxTurn = 1
    FirstDt <- AnyFirstDt
    None = none
SPECIFICATION FairSpec
PROPERTIES NotReapedEarly EdgeAccepts MadeIsEstablished SilentIsFreed
