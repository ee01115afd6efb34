CONSTANTS
    Orders = {o1}
    Jobs = {j1}
    Users = {alice}
    Keys = {}
    Contents = {c1}
    Currencies = {syp}
    Null = Null
    Agents = {a1, a2}
    Jams = TRUE
    Restarts = TRUE
    MaxFaults = 2
    MaxRetries = 1
SPECIFICATION AgentsSpec
CHECK_DEADLOCK FALSE
INVARIANTS
    DoneWasPrinted
    NoExtraPaper
    
PROPERTIES
    QueueIsServed
    PrintingEnds
