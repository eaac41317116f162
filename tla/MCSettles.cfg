\* Two faults at any await of submission, run and recovery; one retry per step.
SPECIFICATION FairSpec
CONSTANTS
    Inline = {}
    Humans = {h1}
    Correctors = {}
    Modes = {"STANDARD"}
    MaxRetries = 1
    MaxAttempts = 3
    ClaimBatch = 2
    PlanLengths = {2, 3}
    Setbacks <- AllSetbacks
    MaxPlanNodes <- PlanCeilings
    EnqueueMayFail = FALSE
    InstantRulings = FALSE
    MaxFaults = 2
CHECK_DEADLOCK FALSE
INVARIANT CompletedStepsStayDone
PROPERTY Settles
