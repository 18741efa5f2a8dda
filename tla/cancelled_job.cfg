SPECIFICATION Spec
CONSTANTS
    MaxAttempts = 2
    Retryable <- Both
    Retain = FALSE
    Validity = {TRUE}
    Requests = {"cancel"}
    Lagging = {}
    FaultKinds = {"transient"}
    MaxFaults = 0
INVARIANTS
    CancelledJobAbsent
CHECK_DEADLOCK FALSE
