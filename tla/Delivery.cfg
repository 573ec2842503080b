SPECIFICATION DeliverySpec
CONSTANTS
    MaxDeployments = 2
    MaxGeneration <- TakeoverOfLater
    Managed = {}
    Faults = {"expired"}
    DirectDeployments = {1, 2}
    DirectExecutions <- TakenOverOnce
    Installations = {{"sbom", "provenance"}, {"vulnerability"}, {"vulnerability", "signature"}}
    JobsOf <- RescansOnly
    EvidenceWorkers = {"first", "second"}
    Servers = {"server"}
    Freshness = 1
    MaxClaims = 2
    MaxOutages = 1
    Requests = {"request"}
    Required = {"sbom", "signature", "vulnerability"}
    ScanFreshness = 2
    MaximumScanAge = 1
    MaxScans = 2
    MaxClock = 1
    MaxTrust = 2
INVARIANTS
    DeliveryTypeOK
    SucceededIsServed
    
    EvidenceIsTrue
    AdmissionIsJustified
PROPERTIES
    OlderLeavesNewerAlone
CHECK_DEADLOCK FALSE
