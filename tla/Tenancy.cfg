CONSTANTS
    Clients = {c1, c2}
    Users = {u, v, a}
    Admins = {a}
    Tenants = {t1, t2}
    Farms = {f1, f2}
    Ponds = {p1}
    Granted = {"member", "support"}
    None = None
    Gone = Gone
    MaxRequests = 2
    MaxNow = 1
    Programs = {c1, c2}
    Persons = {w, b}
    Operators = {b}
    Orgs = {o1}
    Roles = {"owner", "support"}
    Passwords = {p}
    Nil = Nil
    MaxChanges = 2
SPECIFICATION Spec
INVARIANTS WritesStandOnGrants ClaimsAgree
PROPERTY WritesStayInTenant
SYMMETRY Symmetry
CHECK_DEADLOCK FALSE
