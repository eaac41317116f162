SPECIFICATION TransportSpec
CONSTANTS
    Messages = {m1, m2}
    Consumers = {c1, c2}
    Priorities = {0, 1}
    MaxAttempts = 3
    MaxLimit = 2
    Reclaims = TRUE
    Jobs = {j1}
    Clients = {d1, d2}
    JobAttempts = 2
    Ceiling = 1
    MaxDeaths = 1
    Holders = {h1, h2, h3}
    LockTtl = 2
    LastTick = 4
    Agents = {a1, a2, a3, a4}
    Root = a1
    MaxDepth = 3
    MaxNodes = 4
CHECK_DEADLOCK FALSE
INVARIANTS
    OneCopy
    LeaseIsExclusive
    NoAgentWaitsOnItself
PROPERTIES
    QueueSound
    
