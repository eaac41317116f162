\* A client dies between two commands of one queue operation.
SPECIFICATION TransportSpec
CONSTANTS
    Messages = {m1}
    Consumers = {c1}
    Priorities = {0}
    MaxAttempts = 3
    MaxLimit = 1
    Reclaims = TRUE
    Jobs = {j1}
    Clients = {d1, d2}
    JobAttempts = 2
    Ceiling = 2
    MaxDeaths = 1
    Holders = {h1}
    LockTtl = 2
    LastTick = 2
    Agents = {a1}
    Root = a1
    MaxDepth = 1
    MaxNodes = 1
CHECK_DEADLOCK FALSE
PROPERTIES
    NothingLost
