SPECIFICATION Spec
CONSTANTS
    MaxAttempts = 2
    Retryable <- Transient
    Retain = FALSE
    Validity = {TRUE, FALSE}
    Requests = {"cancel"}
    Lagging = {"jobs"}
    FaultKinds = {"transient", "permanent"}
    MaxFaults = 1
INVARIANTS
    AttemptsCommitted
    FailedAttemptsKept
    SuccessIsProven
PROPERTIES
    OutcomeFinal
CHECK_DEADLOCK FALSE
