CONSTANTS
    Devices = {d1, d2}
    Requests = {r1, r2}
    Licenses <- MCLicenses
    None = None
    Slack = 1
    MaxTime = 3
    MaxVersion = 1
    q1 = q1
    q2 = q2
    s1 = s1
    s2 = s2
    Calls = {c1}
    Sites = {s1, s2}
    Pools = {q1, q2}
    SiteOf <- TheSites
    Things = {x1}
    Ranks = {"owner", "member"}
    Void = Void
    MaxEdits = 2
    MaxAlarms = 2
SPECIFICATION PartsSpec
INVARIANTS StatusIsHonest AnswersAgree
PROPERTIES AdmissionHolds ClockHolds SubmitHoldsItsReads
SYMMETRY Symmetry
\* Alarms and changes come to their bounds, and nobody has to ask.
CHECK_DEADLOCK FALSE
