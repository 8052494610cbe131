CONSTANTS
    d1 = d1
    d2 = d2
    p1 = p1
    p2 = p2
    Devices = {d1, d2}
    Peers = {p1, p2}
    Nonces = {n1, n2}
    Txs = {x1}
    Requests = {r1, r2}
    None = None
    PeersOf <- AllowedPeers
    NonceLife = 1
    TxLife = 1
    TTLs = {1}
    MissLimit = 1
    MaxNonces = 1
    MaxTxs = 1
    MaxTime = 2
    SNs = {n1, n2}
    Channels = {c1, c2}
    Names = {a, b}
    Threads = {r1, r2}
    Nil = Nil
    MaxItems = 1
    RefreshTimeout = 1
    MaxWall = 1
    Tasks = {t1}
    Hands = {r1, r2}
    Absent = Absent
    MaxAttempts = 2
    LeaseTime = 2
    MaxClock = 3
SPECIFICATION Spec
INVARIANTS RegistrationsAgree CatalogsAgree LeasesAgree
PROPERTIES KeepaliveOfItsPeer EndsOnce MemoryIsLeasedQueue
SYMMETRY Symmetry
