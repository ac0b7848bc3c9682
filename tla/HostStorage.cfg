SPECIFICATION Spec
SYMMETRY Symmetry
CONSTANTS
    a1 = a1
    a2 = a2
    Attempts <- MCAttempts
    MaxGen = 2
    Soft = 1
    Hard = 4
    VolumeLimit = 2
    Faults = {"drop", "engine", "crash", "prune", "age"}
    MaxFaults = 1
INVARIANTS
    MountedStaysWhole
    PinHeldWhileMounted
    MutationsOnce
    EndsAreFinal
    ChargeCoversMachine
CHECK_DEADLOCK FALSE
