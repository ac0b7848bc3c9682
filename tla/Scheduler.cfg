CONSTANTS
    Workspaces = {1, 2, 3}
    Accounts = {"a1", "a2"}
    Machines = {"m"}
    NoMachine = "none"
    MaxRows = 4
    WorkspaceOf <- MCWorkspaceOf
    AccountOf <- MCAccountOf
    Frozen <- MCFrozen
    Wall <- MCWall
    Gpu = {3, 4}
    MachineOf <- MCMachineOf
    Configurations <- MCConfigurations
    Policies <- MCPolicies
    MaxQuota = 1
SPECIFICATION Spec
INVARIANTS
    BoundedBypass
    GrantsFitQuota
PROPERTIES
    StartsAllowed
CHECK_DEADLOCK FALSE
