CONSTANTS
    Nobody = Nobody
    Manifest = Manifest
    Collectors = {c1, c2}
    Cleaners = {k1, k2}
    Files = {f1}
    MaxVersion = 2
    Completed = {1}
    OneObject = FALSE
    Automatic = TRUE
    Declared = {"uncollected"}
    Executions0 = {"succeeded", "not_submitted"}
    MaxTickets = 2
    MaxCleanups = 2
    MaxExplicit = 2
    MaxFaults = 1
    Leftovers = {"reconcile"}
    Requests = {"collect", "cleanup", "rewrite", "share"}
SYMMETRY Symmetry
SPECIFICATION Spec
INVARIANTS
    TransferExcludesDeletion
    PublicationWhole
    TicketsServable
    NothingDeletedEarly
    ConfirmedMeansGone
    DeletesAsAsked
CHECK_DEADLOCK FALSE
