SPECIFICATION ServerSpec
CONSTANTS
    Deployments = {d1, d2}
    Slots = {s1}
    Workers = {w1, w2}
    None = None
    MaxGeneration = 2
    MaxVersion = 4
    Requests = {q1, q2, q3}
    Owner = owner
    Users = {ann, bob}
    MaxMemberVersion = 3
    MaxLife = 2
    Servers = {one, two}
    Steps = 3
    MaxRuns = 4
    MaxFaults = 2
SYMMETRY ServerSymmetry
INVARIANTS
    ServerTypeOK
    NoLostUpdate
    AuditIsTheHistory
    OneAuthorizedExecution
    SchemaIsComplete
PROPERTIES
    TakeoverFences
    ChangeIsSeen
