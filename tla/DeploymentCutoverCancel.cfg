CONSTANTS
    MaxDeployments = 2
    MaxGeneration <- TakeoverOfLater
    Managed = {}
    Faults = {}
SPECIFICATION Spec
INVARIANTS CanceledDoesNotServe
CHECK_DEADLOCK FALSE
