CONSTANTS
    Levels = {"ok", "critical", "failed"}
    StaleAfter = 1
    CriticalDuration = 1
    DemandCache = 1
    HistoryMaxRows = 2
    MaxTime = 4
    Slots = TRUE
    Hold = 3
    Wall = 2
    SecretLife = 2
    MaxRev = 2
    Requests = {"cancel", "reconcile", "revoke", "drift", "outage", "crash"}
SPECIFICATION Spec
INVARIANTS
    MaterialUsedOnce
    StartsWhatWasRead
    ReservationCoversStaging
PROPERTIES
    HealthDecisionsJustified
CHECK_DEADLOCK FALSE
