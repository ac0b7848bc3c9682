CONSTANTS
    Workers = {w1}
    NoWorker = NoWorker
    MaxAttempts = 2
    MaxWorkers = 2
    MaxFailures = 1
    CancelSupported = FALSE
    ReleaseReported = TRUE
    Outcomes = {"succeeded", "failed"}
    Disturbances = {"lease", "crash", "shutdown", "refusal", "deadline"}
    Requests = {}
SPECIFICATION Spec
INVARIANTS
    NoOverlap
PROPERTIES
    KeepsLedger
CHECK_DEADLOCK FALSE
