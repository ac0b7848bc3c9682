CONSTANTS
    Workers = {w1, w2}
    NoWorker = NoWorker
    MaxAttempts = 1
    MaxWorkers = 2
    MaxFailures = 1
    CancelSupported = TRUE
    ReleaseReported = FALSE
    Outcomes = {"cancelled"}
    Disturbances = {"lease", "removal", "refusal"}
    Requests = {"cancel", "reconcile", "resolve", "collect"}
SYMMETRY Symmetry
SPECIFICATION Spec
INVARIANTS
    OneShotEffects
    CapacityHeld
    NeverCorrupt
    EvidenceTrue
    NothingStuck
PROPERTIES
    EngineStopsOnlyOnManualAbsence
CHECK_DEADLOCK FALSE
