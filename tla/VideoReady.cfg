SPECIFICATION Spec
CONSTANTS
    Cameras = {c1}
    Sessions = {s1, s2}
    Workers = {w1, w2}
    None = None
    MaxVersion = 1
    MaxAttempts = 1
    MaxFaults = 0
INVARIANT ReadySessionHasMedia
CHECK_DEADLOCK FALSE
