----------------------------- MODULE AdminSession -----------------------------
(***************************************************************************)
(* Signing in to the console (internal/adminapi/auth.go) and to the app    *)
(* (internal/appapi/server.go), and the check of the token with which      *)
(* every later request starts.                                             *)
(*                                                                         *)
(* Both put a token together from several queries and check it with        *)
(* several, each its own snapshot of the database, while passwords are     *)
(* changed and memberships given and taken away.  A client is a program    *)
(* with at most one token; its pc names the query that comes next.  Any    *)
(* query may fail, which ends what the client was doing.                   *)
(***************************************************************************)
EXTENDS Naturals

CONSTANTS
    Programs,     \* the clients
    Persons,      \* users
    Operators,    \* the users whose authority is ADMIN
    Orgs,         \* tenants
    Roles,        \* the roles given
    Passwords,
    Nil,
    MaxChanges    \* bound: changes of passwords, memberships and tenants

\* Rows of users and of tenant_memberships.
Account == [password : Passwords \cup {Nil}, legacy : BOOLEAN, version : 0..MaxChanges]
Seat == [role : Roles, active : BOOLEAN, expired : BOOLEAN, version : 1..(MaxChanges + 1)]

ASSUME SessionAssumption ==
    /\ Operators \subseteq Persons
    /\ "support" \in Roles
    /\ Nil \notin Persons \cup Orgs \cup Passwords \cup Roles
    /\ Nil \notin Account /\ Nil \notin Seat
    /\ MaxChanges \in Nat

VARIABLES
    account,   \* users: password, whether its hash is legacy, token_version; or Nil
    seat,      \* tenant_memberships: a row of a tenant and a user, or Nil
    open,      \* the active tenants
    client,
    changes

sessionVars == <<account, seat, open, client, changes>>
stored == <<account, seat, open, changes>>

NoToken == [user |-> Nil, kind |-> Nil, ver |-> Nil, org |-> Nil, orgVer |-> Nil, role |-> Nil]
Out == [pc |-> "out", token |-> NoToken, password |-> Nil, wasCurrent |-> FALSE]

(***************************************************************************)
(* The queries.                                                            *)
(***************************************************************************)
\* The rows that count: active, not expired, of an active tenant, and an
\* ADMIN's only as support.
Seated(o, u) ==
    /\ o \in open
    /\ seat[o][u] # Nil /\ seat[o][u].active /\ ~seat[o][u].expired
    /\ u \in Operators => seat[o][u].role = "support"

Rank(role) == IF role = "owner" THEN 0 ELSE IF role = "admin" THEN 1 ELSE 2

\* ORDER BY rank: the tenants the first row may be of.
DefaultTenants(u) ==
    {o \in Orgs : Seated(o, u) /\ \A x \in Orgs : Seated(x, u) =>
        Rank(seat[o][u].role) <= Rank(seat[x][u].role)}

HasSeats(u) == \E o \in Orgs : seat[o][u] # Nil /\ (u \in Operators => seat[o][u].role = "support")

User(c) == client[c].token.user
Kind(c) == client[c].token.kind
Org(c) == client[c].token.org

\* The client's next state; what it does not name is left alone.
Becomes(c, next) == client' = [client EXCEPT ![c] = next] /\ UNCHANGED stored
Step(c, pc) == Becomes(c, [client[c] EXCEPT !.pc = pc])
LeaveSignIn(c) == Becomes(c, Out)
Refuse(c) == Becomes(c, [client[c] EXCEPT !.pc = "in", !.wasCurrent = FALSE])

\* A query of a sign-in, or of a request, fails; or the token is dropped.
SignInPcs == {"upgrade", "adminVersion", "default", "exists", "userVersion", "orgVersion", "orgRole"}
RequestPcs == {"checkVersion", "checkDefault", "checkExists", "checkOrg", "checkRole", "admitted", "store"}
Abandon(c) ==
    \/ client[c].pc \in SignInPcs \cup {"in"} /\ LeaveSignIn(c)
    \/ client[c].pc \in RequestPcs /\ Refuse(c)

(***************************************************************************)
(* Signing in.                                                             *)
(***************************************************************************)
\* FindAdminByLogin and the check of the password; userLogin refuses ADMIN.
login(c) ==
    /\ client[c].pc = "out"
    /\ \E u \in Persons, userLogin \in BOOLEAN :
        /\ account[u] # Nil /\ account[u].password # Nil
        /\ ~(userLogin /\ u \in Operators)
        /\ Becomes(c, [Out EXCEPT
             !.pc = IF account[u].legacy THEN "upgrade" ELSE "adminVersion",
             !.token = [NoToken EXCEPT !.user = u, !.kind = "console"],
             !.password = account[u].password])

\* The password that was right is hashed again.
UpgradeAdminPassword(c) ==
    /\ client[c].pc = "upgrade"
    /\ account' = [account EXCEPT ![User(c)] = [@ EXCEPT !.password = client[c].password, !.legacy = FALSE]]
    /\ client' = [client EXCEPT ![c].pc = "adminVersion"]
    /\ UNCHANGED <<seat, open, changes>>

AdminTokenVersion(c) ==
    /\ client[c].pc = "adminVersion"
    /\ Becomes(c, [client[c] EXCEPT !.pc = "default", !.token.ver = account[User(c)].version])

\* The app: the code names a user, who is created on the first sign-in.
EnsureUser(c) ==
    /\ client[c].pc = "out"
    /\ \E u \in Persons \ Operators :
        /\ account' = [account EXCEPT ![u] =
             IF @ = Nil THEN [password |-> Nil, legacy |-> FALSE, version |-> 0] ELSE @]
        /\ client' = [client EXCEPT ![c] =
             [Out EXCEPT !.pc = "default", !.token = [NoToken EXCEPT !.user = u, !.kind = "app"]]]
    /\ UNCHANGED <<seat, open, changes>>

DefaultTenantForUser(c) ==
    /\ client[c].pc = "default"
    /\ \/ \E o \in DefaultTenants(User(c)) :
            Becomes(c, [client[c] EXCEPT !.token.org = o,
                          !.pc = IF Kind(c) = "app" THEN "userVersion" ELSE "orgVersion"])
       \/ DefaultTenants(User(c)) = {} /\ Step(c, "exists")

\* No membership counts: the console lets in an ADMIN and a user who has none
\* at all, without a tenant; the app lets in nobody.
MayLackTenant(c) == Kind(c) = "console" /\ (User(c) \in Operators \/ ~HasSeats(User(c)))

MembershipExists(c) ==
    /\ client[c].pc = "exists"
    /\ IF MayLackTenant(c) THEN Step(c, "in") ELSE LeaveSignIn(c)

UserTokenVersion(c) ==
    /\ client[c].pc = "userVersion"
    /\ Becomes(c, [client[c] EXCEPT !.pc = "orgVersion", !.token.ver = account[User(c)].version])

\* The version of the membership, then its role.
VersionThenRole(c) ==
    IF client[c].pc = "orgVersion"
      THEN [client[c] EXCEPT !.pc = "orgRole", !.token.orgVer = seat[Org(c)][User(c)].version]
      ELSE [client[c] EXCEPT !.pc = "in", !.token.role = seat[Org(c)][User(c)].role]

signTokenForTenant(c) ==
    /\ client[c].pc \in {"orgVersion", "orgRole"}
    /\ IF Seated(Org(c), User(c)) THEN Becomes(c, VersionThenRole(c)) ELSE LeaveSignIn(c)

(***************************************************************************)
(* A request.                                                              *)
(***************************************************************************)
\* Every claim is what the rows say.
Current(t) ==
    /\ t.ver = account[t.user].version
    /\ t.org # Nil => /\ Seated(t.org, t.user)
                      /\ seat[t.org][t.user].version = t.orgVer
                      /\ seat[t.org][t.user].role = t.role

BeginRequest(c) == client[c].pc = "in" /\ Step(c, "checkVersion")

\* authRequired's first query; wasCurrent is history.
CheckVersion(c) ==
    /\ client[c].pc = "checkVersion"
    /\ IF client[c].token.ver = account[User(c)].version
         THEN Becomes(c, [client[c] EXCEPT !.wasCurrent = Current(client[c].token),
                            !.pc = IF Org(c) = Nil THEN "checkDefault" ELSE "checkOrg"])
         ELSE Refuse(c)

\* A token without a tenant is refused to who has one meanwhile.
CheckNoTenant(c) ==
    \/ /\ client[c].pc = "checkDefault"
       /\ IF DefaultTenants(User(c)) = {} THEN Step(c, "checkExists") ELSE Refuse(c)
    \/ /\ client[c].pc = "checkExists"
       /\ IF User(c) \in Operators \/ ~HasSeats(User(c)) THEN Step(c, "admitted") ELSE Refuse(c)

CheckOrg(c) ==
    /\ client[c].pc = "checkOrg"
    /\ IF Seated(Org(c), User(c)) /\ seat[Org(c)][User(c)].version = client[c].token.orgVer
         THEN Step(c, "checkRole") ELSE Refuse(c)

CheckRole(c) ==
    /\ client[c].pc = "checkRole"
    /\ IF Seated(Org(c), User(c)) /\ seat[Org(c)][User(c)].role = client[c].token.role
         THEN Step(c, "admitted") ELSE Refuse(c)

\* The app's request for a token of another of the user's tenants.
switchTenant(c) ==
    /\ client[c].pc = "admitted" /\ Kind(c) = "app"
    /\ \E o \in Orgs :
        /\ Seated(o, User(c))
        /\ Becomes(c, [Out EXCEPT !.pc = "userVersion", !.token =
             [NoToken EXCEPT !.user = User(c), !.kind = "app", !.org = o]])

\* The old password is right; the new one is stored by a later statement.
changePassword(c) ==
    /\ client[c].pc = "admitted" /\ Kind(c) = "console" /\ account[User(c)].password # Nil
    /\ Step(c, "store")

ChangeAdminPassword(c) ==
    /\ client[c].pc = "store" /\ changes < MaxChanges
    /\ \E p \in Passwords : account' = [account EXCEPT
         ![User(c)] = [password |-> p, legacy |-> FALSE, version |-> @.version + 1]]
    /\ changes' = changes + 1
    /\ client' = [client EXCEPT ![c] = [@ EXCEPT !.pc = "in", !.wasCurrent = FALSE]]
    /\ UNCHANGED <<seat, open>>

(***************************************************************************)
(* What others change meanwhile.                                           *)
(***************************************************************************)
RegisterUser(u) ==
    /\ account[u] = Nil
    /\ \E p \in Passwords : account' = [account EXCEPT
         ![u] = [password |-> p, legacy |-> FALSE, version |-> 0]]
    /\ UNCHANGED <<seat, open, client, changes>>

\* Faulty: switching a tenant leaves the versions of its memberships alone.
SwitchedKept(r) == r

Switched(r) == IF r = Nil THEN Nil ELSE [r EXCEPT !.version = @ + 1]

\* SetTenantActive: off or on, with a new version for every membership.
SwitchOrg(o) ==
    /\ changes < MaxChanges
    /\ open' = IF o \in open THEN open \ {o} ELSE open \cup {o}
    /\ seat' = [seat EXCEPT ![o] = [u \in Persons |-> Switched(@[u])]]
    /\ changes' = changes + 1
    /\ UNCHANGED <<account, client>>

\* SetTenantMember.
ChangeSeat(o, u) ==
    /\ changes < MaxChanges /\ account[u] # Nil
    /\ \E r \in Roles, a \in BOOLEAN :
        /\ u \in Operators => r = "support"
        /\ seat' = [seat EXCEPT ![o][u] =
             [role |-> r, active |-> a, expired |-> FALSE, version |-> IF @ = Nil THEN 1 ELSE @.version + 1]]
    /\ changes' = changes + 1
    /\ UNCHANGED <<account, open, client>>

\* The end of a support grant passes; nothing is written.
ExpireSeat(o, u) ==
    /\ seat[o][u] # Nil /\ seat[o][u].role = "support" /\ ~seat[o][u].expired
    /\ seat' = [seat EXCEPT ![o][u].expired = TRUE]
    /\ UNCHANGED <<account, open, client, changes>>

(***************************************************************************)
(* The specification.                                                      *)
(***************************************************************************)
\* Some users exist, an ADMIN perhaps since before the hashes of today, and
\* hold support grants.
SessionInit ==
    /\ account \in [Persons -> {[password |-> p, legacy |-> l, version |-> 0] :
                                  p \in Passwords, l \in BOOLEAN} \cup {Nil}]
    /\ \A u \in Operators : account[u] # Nil
    /\ \A u \in Persons \ Operators : account[u] # Nil => ~account[u].legacy
    /\ seat \in [Orgs -> [Persons -> {Nil, [role |-> "support", active |-> TRUE,
                                            expired |-> FALSE, version |-> 1]}]]
    /\ \A o \in Orgs, u \in Persons : account[u] = Nil => seat[o][u] = Nil
    /\ open = Orgs
    /\ client = [c \in Programs |-> Out]
    /\ changes = 0

SessionNext ==
    \/ \E c \in Programs :
        \/ login(c) \/ UpgradeAdminPassword(c) \/ AdminTokenVersion(c) \/ EnsureUser(c)
        \/ DefaultTenantForUser(c) \/ MembershipExists(c) \/ UserTokenVersion(c)
        \/ signTokenForTenant(c) \/ BeginRequest(c) \/ CheckVersion(c) \/ CheckNoTenant(c)
        \/ CheckOrg(c) \/ CheckRole(c) \/ switchTenant(c)
        \/ changePassword(c) \/ ChangeAdminPassword(c) \/ Abandon(c)
    \/ \E u \in Persons : RegisterUser(u)
    \/ \E o \in Orgs : SwitchOrg(o)
    \/ \E o \in Orgs, u \in Persons : ChangeSeat(o, u) \/ ExpireSeat(o, u)

SessionSpec == SessionInit /\ [][SessionNext]_sessionVars

(***************************************************************************)
(* Properties.                                                             *)
(***************************************************************************)
\* Every token a client holds names a user who exists, and a tenant together
\* with a version and a role (the claims authRequired insists on).
SessionTypeOK ==
    \A c \in Programs : client[c].pc \in {"in"} \cup RequestPcs =>
        LET t == client[c].token IN
        /\ account[t.user] # Nil /\ t.ver \in 0..MaxChanges
        /\ t.org = Nil => t.orgVer = Nil /\ t.role = Nil /\ t.kind = "console"
        /\ t.org # Nil => t.orgVer \in 1..(MaxChanges + 1) /\ t.role \in Roles

\* A token with the membership's current version has its current role,
\* although the two are read by two queries: a token cannot pass
\* authRequired's first check of the membership and be stuck at the second.
VersionNamesRole ==
    \A c \in Programs : client[c].pc \in {"in"} \cup RequestPcs =>
        LET t == client[c].token IN
        t.org # Nil /\ seat[t.org][t.user].version = t.orgVer => seat[t.org][t.user].role = t.role

\* A request that was admitted had a token of which every claim held at one
\* moment, that of its first query: what the other queries saw later was the
\* same row, not one taken away and given back in between.
AdmittedWasCurrent ==
    \A c \in Programs : client[c].pc \in {"admitted", "store"} => client[c].wasCurrent

\* The claims of a token, read by several queries and checked by several more,
\* were all true at one moment.
ClaimsAgree == SessionTypeOK /\ VersionNamesRole /\ AdmittedWasCurrent
=============================================================================
