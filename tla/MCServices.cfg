\* Two calls for one slot, one repair, one transport retry; times in units of
\* half a timeout.  Two dispatches, two MCP callers, two installations, two
\* writers and two readers of a pool of one.  Two errors that escape the dispatch loop.
SPECIFICATION ServicesSpec
CONSTANTS
    Callers = {c1, c2}
    Requests <- MCRequests
    Deployments <- MCDeployments
    EscalateAtOrAbove = 2
    ForbiddenModes = {"LOCKDOWN"}
    MaxConcurrentStreams = 1
    MaxRetries = 1
    MaxTransportRetries = 1
    Timeout = 2
    BackoffBase = 1
    BackoffCap = 2
    RetryAfterCap = 4
    Lateness = 1
    Dispatchers = {d1, d2}
    Contracts <- MCContracts
    Modes = {"SAFE", "LOCKDOWN"}
    HasSandbox = TRUE
    FullWeight = 2
    WeightUp = 1
    WeightDown = 2
    SecretNames = {"n1", "n2"}
    SecretValues = {"a", "b"}
    McpCallers = {m1, m2}
    MaxStream = 3
    Installers = {i1, i2}
    Packages <- MCPackages
    Keys = {"k1", "k2"}
    KeyIds = {"id1"}
    Postures <- MCPostures
    MarketGrants <- Granted
    Writers = {w1, w2}
    Readers = {r1, r2}
    PoolSize = 1
    MaxConns = 3
    MaxErrors = 2
    MaxCrashes = 2
CHECK_DEADLOCK FALSE
INVARIANTS
    
    SkillsSound
    McpSound
    InstalledIsVetted
    
    LifecycleSound
PROPERTIES
    EverythingEnds
