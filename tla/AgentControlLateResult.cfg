CONSTANTS
    Commands = {c1}
    Durable = {}
    MaxSessions = 1
    MaxDispatches = 1
    OutboundBuffer = 1
    Concurrency = 1
    CompletedSize = 1
    Faults = {}
SPECIFICATION Spec
INVARIANTS StopsOnlyWhenRejected
CHECK_DEADLOCK FALSE
