\* Two faults at any await; a user may correct the task at any time.
SPECIFICATION Spec
CONSTANTS
    Inline = {}
    Humans = {h1}
    Correctors = {c1}
    Modes = {"STANDARD"}
    MaxRetries = 0
    MaxAttempts = 2
    ClaimBatch = 2
    PlanLengths = {2, 3}
    Setbacks <- AllSetbacks
    MaxPlanNodes <- PlanCeilings
    EnqueueMayFail = TRUE
    InstantRulings = FALSE
    MaxFaults = 2
CHECK_DEADLOCK FALSE
INVARIANTS
    
    
    UnfinishedNeverHidden

    
