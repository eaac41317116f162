\* Daemon and CLI run one task; one of them parks it on a question.
SPECIFICATION Spec
CONSTANTS
    Inline = {cli}
    Humans = {}
    Correctors = {}
    Modes = {"COMPLEX"}
    MaxRetries = 0
    MaxAttempts = 3
    ClaimBatch = 1
    PlanLengths = {1}
    Setbacks = {"policy gates"}
    EnqueueMayFail = FALSE
    InstantRulings = FALSE
    MaxFaults = 0
    MaxPlanNodes <- PlanCeilings
CHECK_DEADLOCK FALSE
INVARIANT CommitIsAuthorised
