CONSTANTS
    q1 = q1
    q2 = q2
    s1 = s1
    s2 = s2
    Calls = {c1}
    Sites = {s1, s2}
    Pools = {q1, q2}
    SiteOf <- TheSites
    Things = {d1}
    Ranks = {"owner", "member"}
    Void = Void
    MaxEdits = 2
    MaxAlarms = 0
SPECIFICATION ReadsSpec
INVARIANT OwnPondsOnly
CHECK_DEADLOCK FALSE
