SPECIFICATION PartsSpec
CONSTANTS
    Devices = {d1}
    Clients = {c1, c2}
    None = None
    Grace = 1
    Slots = 1
    MaxClock = 1
    MaxRevision = 2
    MaxFaults = 1
    MaxUnknown = 1
    Keys = {c1, c2}
    Nonces = {r1, r2}
    Requests = {r1, r2}
    NoKey = NoKey
    Window = 0
    Keep = 1
    Unit = 3
    Rate = 2
    Burst = 4
    MaxTime = 2
SYMMETRY Symmetry
INVARIANTS
    OnlineIsWatched
    SingleSession
    GaugeNeverLow
    RetryIsHonest
PROPERTIES
    RevokedStaysRevoked
    KeysAndNoncesHold
