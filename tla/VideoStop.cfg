SPECIFICATION FairSpec
CONSTANTS
    Cameras = {c1}
    Sessions = {s1, s2}
    Workers = {w1}
    None = None
    MaxVersion = 2
    MaxAttempts = 1
    MaxFaults = 0
PROPERTY StopIntentIsTaken
CHECK_DEADLOCK FALSE
