SPECIFICATION ProgressSpec
CONSTANTS
    Commands = {c1}
    Durable = {c1}
    MaxSessions = 2
    MaxDispatches = 2
    OutboundBuffer = 1
    Concurrency = 1
    CompletedSize = 1
    Faults = {"crash", "disable"}
    None = None
    d1 = d1
    s1 = s1
    w1 = w1
    w2 = w2
    b1 = b1
    b2 = b2
PROPERTIES
    ImplementsLifecycle
    EveryCallIsAnswered
    
    EverythingSettles
CHECK_DEADLOCK FALSE
