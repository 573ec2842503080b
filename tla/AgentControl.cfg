CONSTANTS
    Commands = {c1, c2}
    Durable = {c1, c2}
    MaxSessions = 2
    MaxDispatches = 2
    OutboundBuffer = 1
    Concurrency = 1
    CompletedSize = 1
    Faults = {"db", "crash", "disable"}
SPECIFICATION Spec
SYMMETRY ControlSymmetry
INVARIANTS TypeOK WaitersArePending AnswersAgree ConnectedIsOnline
CHECK_DEADLOCK FALSE
