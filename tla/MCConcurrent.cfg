\* A CLI process runs the task it has queued while the daemon runs it as well.
SPECIFICATION Spec
CONSTANTS
    Inline = {cli}
    Humans = {}
    Correctors = {}
    Modes = {"COMPLEX"}
    MaxRetries = 0
    MaxAttempts = 3
    ClaimBatch = 1
    PlanLengths = {2}
    Setbacks = {"policy gates", "worker fails"}
    MaxPlanNodes <- PlanCeilings
    EnqueueMayFail = FALSE
    InstantRulings = FALSE
    MaxFaults = 0
CHECK_DEADLOCK FALSE
INVARIANTS
    PlanIsFollowed
