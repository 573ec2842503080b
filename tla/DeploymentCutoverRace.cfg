CONSTANTS
    MaxDeployments = 2
    MaxGeneration <- TakeoverOfLater
    Managed = {}
    Faults = {}
SPECIFICATION Spec
PROPERTIES OlderNeverReplacesNewer
CHECK_DEADLOCK FALSE
