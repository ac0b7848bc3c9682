CONSTANTS
    Conn = {c1}
    Account = {a1}
    Machine = {m1}
    None = None
    MaxRev = 3
    MaxOps = 4
    ImageLimit = 1
    Requests = {"create", "configure", "remove"}
    Faults = {"timeout"}
    MaxFaults = 1
    MaxWatch = 2
SPECIFICATION Spec
INVARIANT
    RemovalFenced
CHECK_DEADLOCK FALSE
