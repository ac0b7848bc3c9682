CONSTANTS
    Workers = {w1}
    NoWorker = NoWorker
    MaxAttempts = 1
    MaxWorkers = 2
    MaxFailures = 2
    CancelSupported = TRUE
    ReleaseReported = FALSE
    Outcomes = {"cancelled"}
    Disturbances = {"crash"}
    Requests = {"cancel"}
SPECIFICATION LiveSpec
PROPERTIES
    EventuallyResolved
    CancelAnswered
CHECK_DEADLOCK FALSE
