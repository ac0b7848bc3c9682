CONSTANTS
    Conn = {c1}
    Account = {a1, a2}
    Machine = {m1, m2}
    None = None
    MaxRev = 4
    MaxOps = 4
    ImageLimit = 1
    Requests = {"create", "check", "replace_credential", "disable", "enable", "remove", "configure", "install_image"}
    Faults = {"crash", "client", "vault", "token", "moved", "timeout"}
    MaxFaults = 1
    MaxWatch = 2
SPECIFICATION Spec
INVARIANTS
    VaultMatchesLedger
    SelectionsHonoured
    SentOnce
    WatchdogReachable
PROPERTIES
    ConfirmedWatchdog
CHECK_DEADLOCK FALSE
