SPECIFICATION AgentHostSpec
CONSTANTS
    None = None
    Slots = {s1, s2, s3}
    Deployments = {d1, d2}
    Maximum = 2
    MaxSequence = 2
    Terminals = {"first", "second"}
    Execs = {1, 2}
    Containers = {1, 2}
    MaximumTerminalExecutions = 2
    MaxCrashes = 1
    LostAttach = FALSE
    Routes = {r1, r2}
    SlotDeployments = {1, 2}
    MaxRevision = 2
    MaxFaults = 1
    WithCancel = TRUE
    Misnamed = {}
    Targets <- ObservedOrShared
    Agents <- RotatingOrEnrolling
INVARIANTS
    AgentHostTypeOK
    PromiseKept
    RestartIsPossible
    
    
    InventoryFollowsTheHost
    
PROPERTIES
    WatermarksGrow
