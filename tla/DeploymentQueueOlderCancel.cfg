CONSTANTS
    Deployments = {d1, d2}
    Slots = {s1}
    Workers = {w1}
    None = None
    MaxGeneration = 2
    MaxVersion = 2
SPECIFICATION Spec
INVARIANT OlderCancelIsServed
CHECK_DEADLOCK FALSE
