SPECIFICATION Spec
CONSTANTS
    Scenes = {"sandbox", "coder", "workspace", "heartbeat", "watchdog"}
    Runs = {r1, r2}
    SandboxKinds = {"docker", "subprocess", "wsl"}
    MaxTroubles = 1
    Arguments = {"plain", "secret"}
    Redacted = "plain"
    RuleSets <- MCRuleSets
    MaxSteps = 2
    MaxCalls = 1
    MaxTokens = 1
    MaxCrashes = 1
    Paths = {"f", "g"}
    Lines = {"a", "c"}
    Patches <- MCPatches
    StartFiles <- MCStartFiles
    MaxLineOffset = 2
    MaxFaults = 2
    Workers = {w1, w2}
    Interval = 1
    Tolerance = 2
    MaxClock = 6
    MemoryCeiling = 1
    MaxMemory = 2
    MaxSamples = 3

    
    
    
PROPERTIES
    LoopEnds
CHECK_DEADLOCK FALSE
