CONSTANTS
    Workers = {w1}
    NoWorker = NoWorker
    MaxAttempts = 1
    MaxWorkers = 2
    MaxFailures = 1
    CancelSupported = TRUE
    ReleaseReported = FALSE
    Outcomes = {"cancelled"}
    Disturbances = {"crash"}
    Requests = {"cancel", "reconcile"}
SPECIFICATION Spec
INVARIANTS
    ServeNeverStops
CHECK_DEADLOCK FALSE
