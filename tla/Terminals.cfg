SPECIFICATION TerminalsSpec
CONSTANTS
    Terminals = {t1, t2}
    None = None
    DownBuffer = 2
    UpBuffer = 1
    InboundSize = 1
    OutputSize = 1
    MaxOpen = 1
    MaxWrites = 1
    MaxOutputs <- MoreOfFirst
    t1 = t1
INVARIANTS
    TypeOK
    NothingIsSkipped
PROPERTIES
    StreamIsCut
    
CHECK_DEADLOCK FALSE
