SPECIFICATION SliceSpec
CONSTANTS
    Cameras = {c1}
    Sessions = {s1, s2}
    Workers = {w1, w2}
    None = None
    MaxVersion = 2
    MaxAttempts = 2
    MaxFaults = 1
SYMMETRY Symmetry
INVARIANTS
    LiveSessionIsCurrent
    LeaseExclusive
    StopNeverCutsLiveSession
PROPERTIES
    SettledStaysSettled
    JobsAreLeasedQueue
CHECK_DEADLOCK FALSE
