CONSTANTS
    Nobody = Nobody
    Manifest = Manifest
    Collectors = {c1}
    Cleaners = {k1}
    Files = {f1}
    MaxVersion = 1
    Completed = {1}
    OneObject = TRUE
    Automatic = TRUE
    Declared = {"uncollected"}
    Executions0 = {"not_submitted"}
    MaxTickets = 1
    MaxCleanups = 2
    MaxExplicit = 1
    MaxFaults = 1
    Leftovers = {"reconcile"}
    Requests = {"cancel", "discard", "release"}
SPECIFICATION LiveSpec
PROPERTY DeclaredLifetimeEnds
CHECK_DEADLOCK FALSE
