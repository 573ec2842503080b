SPECIFICATION ProductsSpec
CONSTANTS
    Builds = {b1, b2}
    Triggered = {b1}
    Workers = {w1, w2}
    User = user
    None = None
    BatchSize = 1
    MaxFaults = 1
    MaxVersion = 4
    Requests = {1, 2, 3}
    Emails = {"owner", "guest"}
    Invitations = {first}
    Passwords = {"old", "new"}
    Limit = 2
    MaxSessions = 1
    MaxTime = 2
    Owner = "owner"
    Guest = "guest"
    Submissions = {"request"}
    DeployKeys = {"key"}
    Releases = {"A", "B"}
    Configured = {"A"}
    Passes = {"pass"}
    MaxDeployments = 2
    Intakes <- AskedOrNotified
    Askers = {1, 2}
    MaxCommit = 2
    TerminalSessions = {1, 2}
    Handlers = {1, 2}
    Slots = {1}
    SessionKinds = {"container", "host"}
INVARIANTS
    ProductsTypeOK
    
    BuildTellsTheTruth
    LimitsHold
    SessionsFollowThePassword
PROPERTIES
    DecisionsStick
CHECK_DEADLOCK FALSE
