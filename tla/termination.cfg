SPECIFICATION FairSpec
CONSTANTS
    MaxAttempts = 1
    Retryable <- Transient
    Retain = TRUE
    Validity = {TRUE}
    Requests = {"cancel", "delete"}
    Lagging = {}
    FaultKinds = {"transient"}
    MaxFaults = 1

    
    
PROPERTIES
    CancellationCompletes
    DeletionCompletes
CHECK_DEADLOCK FALSE
