CONSTANTS
    Owners = {o1, o2}
    Fences = {f1}
    Contexts = {c1, c2}
    Ttls = {1, 2}
    MaxMillis = 4
    MaxNanos = 1
    MaxGeneration = 3
SPECIFICATION Spec
INVARIANTS
    TypeOK
    OnlyNewestOwns
    ExpiryTestsAgree
PROPERTIES
    CommitsInOrder
    PromisedTimeKept
CHECK_DEADLOCK FALSE
