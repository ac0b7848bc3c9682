CONSTANTS
    Nobody = Nobody
    Manifest = Manifest
    Collectors = {c1}
    Cleaners = {k1}
    Files = {f1}
    MaxVersion = 1
    Completed = {1}
    OneObject = TRUE
    Automatic = TRUE
    Declared = {}
    Executions0 = {"succeeded"}
    MaxTickets = 1
    MaxCleanups = 2
    MaxExplicit = 1
    MaxFaults = 1
    Leftovers = {"dispatch"}
    Requests = {"release"}
SPECIFICATION LiveSpec
PROPERTY ResultsExpire
CHECK_DEADLOCK FALSE
