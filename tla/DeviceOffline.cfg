SPECIFICATION Spec
CONSTANTS
    Devices = {d1}
    Clients = {c1, c2}
    None = None
    Grace = 1
    Slots = 1
    MaxClock = 1
    MaxRevision = 0
    MaxFaults = 0
    MaxUnknown = 0
PROPERTY OfflineIsJustified
