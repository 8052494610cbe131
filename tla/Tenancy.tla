------------------------------- MODULE Tenancy -------------------------------
(***************************************************************************)
(* Tenants, their members, farms, farm members and ponds, as the console's *)
(* requests write them (internal/adminapi, internal/core, and the          *)
(* authorisation of internal/persistence/tenant_authorization.go).         *)
(*                                                                         *)
(* A request is admitted under the claims of its token, and writes later,  *)
(* in a transaction that locks and reads the grant again.  A request is    *)
(* "ready" once admitted, "begin" in its handler's transaction, "checked"  *)
(* after the reads some handlers do before they authorise, "locked" with   *)
(* the tenant's row locked, "authorized" with the grant locked too, and    *)
(* "looked" after a read on which its last statement relies.  The last     *)
(* statement and the commit are one step: what it locks is given back at   *)
(* once, and it waits while another transaction holds a conflicting lock.  *)
(* Which locks a transaction holds follows from where it is.               *)
(***************************************************************************)
EXTENDS Naturals, FiniteSets

CONSTANTS
    Clients,      \* requests in flight
    Users,
    Admins,       \* the users whose authority is ADMIN, the others are USER
    Tenants,
    Farms,
    Ponds,
    Granted,      \* the roles requests ask for
    None,
    Gone,         \* a farm or pond that was deleted: its id is not used again
    MaxRequests,  \* bound: requests and password changes in a behaviour
    MaxNow        \* bound: the clock

ROLE == {"owner", "admin", "member", "viewer", "support"}

\* Rows of tenant_memberships, farm_memberships and farms.
Membership == [role : ROLE, active : BOOLEAN,
               until : {None} \cup 1..(MaxNow + 1), version : 0..(MaxRequests + 1)]
Grant == [role : ROLE, active : BOOLEAN, until : {None} \cup 1..(MaxNow + 1)]
FarmRow == [tenant : Tenants, owner : Users \cup {None}]

ASSUME TenancyAssumption ==
    /\ Admins \subseteq Users
    /\ Granted \subseteq ROLE
    /\ Users \ Admins # {} /\ IsFiniteSet(Clients)
    /\ MaxRequests \in Nat /\ MaxNow \in Nat
    /\ None # Gone /\ {None, Gone} \cap (Users \cup Tenants \cup Farms \cup 1..(MaxNow + 1)) = {}
    /\ {None, Gone} \cap (Membership \cup Grant \cup FarmRow) = {}

VARIABLES
    tenant,    \* "none", "active" or "inactive"
    member,    \* tenant_memberships: a row of a tenant and a user, or None
    epoch,     \* history: how often a row was written or its tenant switched
    token,     \* users.token_version
    farm,      \* farms: tenant and owner, or None or Gone
    grant,     \* farm_memberships: a row of a farm and a user, or None
    pond,      \* ponds: the farm, or None or Gone
    req,       \* the requests
    now,
    spent      \* requests and password changes so far

tenancyVars == <<tenant, member, epoch, token, farm, grant, pond, req, now, spent>>
rows == <<tenant, member, epoch, token, farm, grant, pond>>

Idle == [pc |-> "idle"]
Support(r) == r.role = "support" => r.until # None
InTx(c) == req[c].pc \in {"begin", "checked", "locked", "authorized", "looked"}

(***************************************************************************)
(* The grant a request acts under.                                         *)
(***************************************************************************)
\* The policy: who may do what to which kind of row.
Allow(role, resource, action) ==
    \/ role \in {"owner", "admin"}
    \/ /\ role \in {"member", "viewer", "support"}
       /\ action = "read"
       /\ resource \in {"farms", "ponds", "devices", "alarm_rules", "alarms",
                        "stats", "products"}
    \/ role \in {"member", "support"} /\ resource = "alarms" /\ action = "confirm"

\* A row that counts at a time: active, not expired.
Unexpired(m, at) == m # None /\ m.active /\ (m.until # None => m.until > at)

\* ... and an ADMIN's only when it is a support grant with an end.
LiveMember(t, u, at) ==
    /\ tenant[t] = "active"
    /\ Unexpired(member[t][u], at)
    /\ u \in Admins => member[t][u].role = "support" /\ member[t][u].until # None

\* A request past authRequired: its claims are what the rows say now.  A
\* token without a tenant is taken from a user who has none; it lets only an
\* ADMIN write.
Arrive(c) ==
    /\ req[c] = Idle
    /\ spent < MaxRequests
    /\ \E u \in Users, t \in Tenants \cup {None} :
        /\ IF t = None
             THEN u \in Admins /\ \A x \in Tenants : ~LiveMember(x, u, now)
             ELSE LiveMember(t, u, now)
        /\ req' = [req EXCEPT ![c] =
             [pc |-> "ready",
              claims |-> [user |-> u, tenant |-> t, token |-> token[u],
                          role |-> IF t = None THEN None ELSE member[t][u].role,
                          version |-> IF t = None THEN 0 ELSE member[t][u].version,
                          epoch |-> IF t = None THEN 0 ELSE epoch[t][u]]]]
    /\ spent' = spent + 1
    /\ UNCHANGED <<rows, now>>

\* The request ends: refused, failed, rolled back, or committed.
Done(c) == req' = [req EXCEPT ![c] = Idle]
Fail(c) == Done(c) /\ UNCHANGED <<rows, now, spent>>

Submit(c, op) ==
    /\ req[c].pc = "ready"
    /\ req' = [req EXCEPT ![c] = [pc |-> "begin", claims |-> req[c].claims, op |-> op,
                                  start |-> now, farm |-> None, owner |-> None]]
    /\ UNCHANGED <<rows, now, spent>>

\* The body is not acceptable, the request only reads, or it is forbidden.
EndWithoutWrite(c) == req[c].pc = "ready" /\ Fail(c)

\* The middleware of the tenant routes.
tenantRequired(c, resource) ==
    /\ req[c].pc = "ready"
    /\ req[c].claims.tenant # None
    /\ Allow(req[c].claims.role, resource, "write")

IsPlatform(c) == req[c].claims.user \in Admins

(***************************************************************************)
(* The handlers.  What a request asks for is chosen at the step that uses  *)
(* it first.                                                               *)
(***************************************************************************)
createTenant(c) == req[c].pc = "ready" /\ IsPlatform(c) /\ Submit(c, "CreateTenant")
setTenantStatus(c) == req[c].pc = "ready" /\ IsPlatform(c) /\ Submit(c, "SetTenantActive")

\* A platform admin for any tenant, an owner or admin for the own one.
setTenantMember(c) ==
    /\ req[c].pc = "ready"
    /\ IsPlatform(c) \/ req[c].claims.role \in {"owner", "admin"}
    /\ Submit(c, "SetTenantMember")

createFarm(c) == tenantRequired(c, "farms") /\ Submit(c, "CreateFarm")
updateFarm(c) == tenantRequired(c, "farms") /\ Submit(c, "UpdateFarm")
deleteFarm(c) == tenantRequired(c, "farms") /\ Submit(c, "DeleteFarm")
setFarmOwner(c) == tenantRequired(c, "farms") /\ Submit(c, "SetFarmOwner")
setFarmMember(c) == tenantRequired(c, "farm_members") /\ Submit(c, "SetFarmMember")
createPond(c) == tenantRequired(c, "ponds") /\ Submit(c, "CreatePond")
updatePond(c) == tenantRequired(c, "ponds") /\ Submit(c, "UpdatePond")
deletePond(c) == tenantRequired(c, "ponds") /\ Submit(c, "DeletePond")

(***************************************************************************)
(* Locks.                                                                  *)
(***************************************************************************)
Claims(c) == req[c].claims
Runs(c, names) == InTx(c) /\ req[c].op \in names
ByPlatform(c) == \/ Runs(c, {"CreateTenant", "SetTenantActive"})
                 \/ Runs(c, {"SetTenantMember"}) /\ IsPlatform(c)
Past(c, places) == req[c].pc \in places /\ ~ByPlatform(c)

\* A change of the members takes the tenant's row FOR UPDATE, not FOR SHARE.
Exclusive(c) == Runs(c, {"SetTenantMember"})

HoldsTenant(c, t) == Past(c, {"locked", "authorized", "looked"}) /\ Claims(c).tenant = t
HoldsMember(c, t, u) == /\ Past(c, {"authorized", "looked"})
                        /\ Claims(c).tenant = t /\ Claims(c).user = u
HoldsUser(c, u) == req[c].pc \in {"authorized", "looked"} /\ Claims(c).user = u
HoldsFarm(c, f) == /\ Runs(c, {"SetFarmOwner"}) /\ req[c].farm = f
                   /\ req[c].pc \in {"checked", "locked", "authorized"}
Free(c, holders) == holders \subseteq {c}

\* Whom a transaction that holds locks already, or takes its first, waits
\* for: a lock on the tenant; the membership of a new farm's owner; the farm
\* whose members or ponds are written.
Blockers(c) ==
    {d \in Clients \ {c} :
        \/ /\ Runs(c, {"SetFarmOwner", "SetFarmMember"}) => req[c].pc = "checked"
           /\ Past(c, {"begin", "checked"}) /\ HoldsTenant(d, Claims(c).tenant)
           /\ Exclusive(c) \/ Exclusive(d)
        \/ /\ Past(c, {"authorized"}) /\ Runs(c, {"SetTenantMember"})
           /\ HoldsTenant(d, Claims(c).tenant)
        \/ /\ Past(c, {"authorized"}) /\ req[c].owner # None /\ Runs(c, {"CreateFarm"})
           /\ HoldsMember(d, Claims(c).tenant, req[c].owner)
        \/ /\ Past(c, {"authorized", "looked"}) /\ Runs(c, {"SetFarmMember", "CreatePond", "DeleteFarm"})
           /\ HoldsFarm(d, req[c].farm)}

(***************************************************************************)
(* The transactions.                                                       *)
(***************************************************************************)
Goto(c, pc) == req' = [req EXCEPT ![c] = [@ EXCEPT !.pc = pc]] /\ UNCHANGED <<rows, now, spent>>
With(c, pc, f, o) == /\ req' = [req EXCEPT ![c] = [@ EXCEPT !.pc = pc, !.farm = f, !.owner = o]]
                     /\ UNCHANGED <<rows, now, spent>>
At(c, pc, name) == req[c].pc = pc /\ req[c].op = name /\ Blockers(c) = {}
Exists(f) == farm[f] \notin {None, Gone}

\* The farm is one of the tenant in the claims.
InTenant(c, f) == Exists(f) /\ farm[f].tenant = Claims(c).tenant

\* A user who may own a farm: a USER who is a live member of the tenant.
MayOwn(c, o) == o \notin Admins /\ Unexpired(member[Claims(c).tenant][o], req[c].start)

\* What the farm's handlers read before they authorise the write: the farm
\* FOR UPDATE and its next owner, ...
PrecheckOwner(c) ==
    /\ At(c, "begin", "SetFarmOwner")
    /\ \/ Fail(c)
       \/ \E f \in Farms, o \in Users \cup {None} :
            /\ InTenant(c, f) /\ Free(c, {d \in Clients : HoldsFarm(d, f)})
            /\ o # None => MayOwn(c, o)
            /\ With(c, "checked", f, o)

\* ... or the farm and its next member.
PrecheckMember(c) ==
    /\ At(c, "begin", "SetFarmMember")
    /\ \/ Fail(c)
       \/ \E f \in Farms, u \in Users :
            /\ InTenant(c, f) /\ Unexpired(member[Claims(c).tenant][u], req[c].start)
            /\ With(c, "checked", f, u)

\* authorizeTenantWrite: the tenant's row, then the row of the membership.
LockTenant(c) ==
    /\ InTx(c) /\ ~ByPlatform(c) /\ Blockers(c) = {}
    /\ req[c].pc = IF Runs(c, {"SetFarmOwner", "SetFarmMember"}) THEN "checked" ELSE "begin"
    /\ IF tenant[Claims(c).tenant] = "active" THEN Goto(c, "locked") ELSE Fail(c)

\* Faulty: the version of the membership is not compared.
SameRole(c, m) == m.role = Claims(c).role

\* The membership is still the one the token was issued for.
SameGrant(c, m) == m.role = Claims(c).role /\ m.version = Claims(c).version

Resource(c) ==
    CASE Runs(c, {"CreateFarm", "UpdateFarm", "DeleteFarm", "SetFarmOwner"}) -> "farms"
      [] Runs(c, {"CreatePond", "UpdatePond", "DeletePond"}) -> "ponds"
      [] Runs(c, {"SetFarmMember"}) -> "farm_members"
      [] Runs(c, {"SetTenantMember"}) -> "tenant_members"

AuthorizeTenantWrite(c) ==
    /\ req[c].pc = "locked"
    /\ LET m == member[Claims(c).tenant][Claims(c).user] IN
       IF /\ Unexpired(m, req[c].start)
          /\ Claims(c).user \in Admins => m.role = "support" /\ m.until # None
          /\ SameGrant(c, m)
          /\ Allow(m.role, Resource(c), "write")
         THEN IF Runs(c, {"CreateFarm"})
                THEN \E o \in Users \cup {None} : With(c, "authorized", None, o)
                ELSE Goto(c, "authorized")
         ELSE Fail(c)

PlatformToken(c) == token[Claims(c).user] = Claims(c).token

\* A platform admin's request to make a member "support" ends before.
AuthorizePlatformWrite(c) ==
    /\ req[c].pc = "begin" /\ ByPlatform(c)
    /\ \/ PlatformToken(c) /\ Goto(c, "authorized")
       \/ (Runs(c, {"SetTenantMember"}) \/ ~PlatformToken(c)) /\ Fail(c)

CreateTenant(c) ==
    /\ At(c, "authorized", "CreateTenant")
    /\ \/ Fail(c)
       \/ \E t \in Tenants :
            /\ tenant[t] = "none"
            /\ tenant' = [tenant EXCEPT ![t] = "active"]
            /\ Done(c)
            /\ UNCHANGED <<member, epoch, token, farm, grant, pond, now, spent>>

Version(m) == IF m = None THEN 0 ELSE m.version
NextVersion(m) == IF m = None THEN None ELSE [m EXCEPT !.version = @ + 1]

\* The tenant's row first, then the version of all its memberships.
SetTenantActive(c) ==
    /\ At(c, "authorized", "SetTenantActive")
    /\ \E t \in Tenants :
       IF tenant[t] = "none" THEN Fail(c)
       ELSE /\ Free(c, {d \in Clients : HoldsTenant(d, t)})
            /\ \E to \in {"active", "inactive"} : tenant' = [tenant EXCEPT ![t] = to]
            /\ member' = [member EXCEPT ![t] = [u \in Users |-> NextVersion(member[t][u])]]
            /\ epoch' = [epoch EXCEPT ![t] = [u \in Users |-> epoch[t][u] + 1]]
            /\ Done(c)
            /\ UNCHANGED <<token, farm, grant, pond, now, spent>>

\* A support grant has an end in the future, no other role has one.
Until(c, role) == IF role = "support" THEN req[c].start + 1 ELSE None

\* An ADMIN is only ever given support, by the tenant itself.
SetTenantMember(c) ==
    /\ At(c, "authorized", "SetTenantMember")
    /\ \E t \in Tenants, u \in Users, r \in Granted, a \in BOOLEAN :
       /\ IF ByPlatform(c) THEN r # "support" /\ Free(c, {d \in Clients : HoldsTenant(d, t)})
                           ELSE t = Claims(c).tenant
       /\ IF tenant[t] = "none" \/ (u \in Admins /\ r # "support") THEN Fail(c)
          ELSE /\ member' = [member EXCEPT ![t][u] =
                    [role |-> r, active |-> a, until |-> Until(c, r),
                     version |-> Version(member[t][u]) + 1]]
               /\ epoch' = [epoch EXCEPT ![t][u] = @ + 1]
               /\ Done(c)
               /\ UNCHANGED <<tenant, token, farm, grant, pond, now, spent>>

\* The owner's membership loses its end, which the schema forbids a support
\* grant.  No farm membership is written.
CreateFarm(c) ==
    /\ At(c, "authorized", "CreateFarm")
    /\ LET t == Claims(c).tenant
           o == req[c].owner
       IN
       IF o # None /\ (MayOwn(c, o) => member[t][o].role = "support") THEN Fail(c)
       ELSE /\ \E f \in Farms : /\ farm[f] = None
                                /\ farm' = [farm EXCEPT ![f] = [tenant |-> t, owner |-> o]]
            /\ Done(c)
            /\ UNCHANGED <<tenant, member, epoch, token, grant, pond, now, spent>>

\* Names, locations and areas are not modelled.
UpdateFarm(c) == At(c, "authorized", "UpdateFarm") /\ Fail(c)
UpdatePond(c) == At(c, "authorized", "UpdatePond") /\ Fail(c)

\* Faulty: the owner's membership is not read again under the lock.
StillMemberEarlier(c, o) == TRUE

StillMember(c, o) == Unexpired(member[Claims(c).tenant][o], req[c].start)

SetFarmOwner(c) ==
    /\ At(c, "authorized", "SetFarmOwner")
    /\ LET f == req[c].farm
           o == req[c].owner
           p == farm[f].owner
       IN
       IF o # None /\ ~StillMember(c, o) THEN Fail(c)
       ELSE /\ farm' = [farm EXCEPT ![f] = [@ EXCEPT !.owner = o]]
            /\ grant' = [grant EXCEPT ![f] = [u \in Users |->
                 IF u = o THEN [role |-> "owner", active |-> TRUE, until |-> None]
                 ELSE IF u = p /\ grant[f][u] # None THEN [grant[f][u] EXCEPT !.active = FALSE]
                 ELSE grant[f][u]]]
            /\ Done(c)
            /\ UNCHANGED <<tenant, member, epoch, token, pond, now, spent>>

\* The foreign key refuses the row of a farm deleted since it was read.
SetFarmMember(c) ==
    /\ At(c, "authorized", "SetFarmMember")
    /\ IF ~Exists(req[c].farm) THEN Fail(c)
       ELSE /\ \E r \in Granted, a \in BOOLEAN :
                 /\ req[c].owner \in Admins => r = "support"
                 /\ grant' = [grant EXCEPT ![req[c].farm][req[c].owner] =
                      [role |-> r, active |-> a, until |-> Until(c, r)]]
            /\ Done(c)
            /\ UNCHANGED <<tenant, member, epoch, token, farm, pond, now, spent>>

\* ponds_farm_id_fkey: no cascade, a farm with a pond stays.
NoPondLeft(f) == \A p \in Ponds : pond[p] # f

\* The reads before the last statement of DeleteFarm and CreatePond.
Lookup(c) ==
    /\ Past(c, {"authorized"}) /\ Runs(c, {"DeleteFarm", "CreatePond"})
    /\ \E f \in Farms :
       IF IF Runs(c, {"DeleteFarm"}) THEN \A p \in Ponds : pond[p] # f ELSE InTenant(c, f)
         THEN With(c, "looked", f, None) ELSE Fail(c)

DeleteFarm(c) ==
    /\ At(c, "looked", "DeleteFarm")
    /\ LET f == req[c].farm IN
       IF ~InTenant(c, f) \/ ~NoPondLeft(f) THEN Fail(c)
       ELSE /\ farm' = [farm EXCEPT ![f] = Gone]
            /\ grant' = [grant EXCEPT ![f] = [u \in Users |-> None]]
            /\ Done(c)
            /\ UNCHANGED <<tenant, member, epoch, token, pond, now, spent>>

CreatePond(c) ==
    /\ At(c, "looked", "CreatePond")
    /\ IF ~Exists(req[c].farm) THEN Fail(c)
       ELSE /\ \E p \in Ponds : pond[p] = None /\ pond' = [pond EXCEPT ![p] = req[c].farm]
            /\ Done(c)
            /\ UNCHANGED <<tenant, member, epoch, token, farm, grant, now, spent>>

\* A pond with devices, readings, alarms or rules stays.
DeletePond(c) ==
    /\ At(c, "authorized", "DeletePond")
    /\ \/ Fail(c)
       \/ \E p \in Ponds :
            /\ pond[p] \in Farms /\ InTenant(c, pond[p])
            /\ pond' = [pond EXCEPT ![p] = Gone]
            /\ Done(c)
            /\ UNCHANGED <<tenant, member, epoch, token, farm, grant, now, spent>>

\* The request is cancelled, the database fails or picks it as the victim of
\* a deadlock.
Rollback(c) == InTx(c) /\ Fail(c)

\* ChangeAdminPassword's UPDATE, which waits for who shares the user's row.
ChangePassword(u) ==
    /\ spent < MaxRequests /\ \A c \in Clients : ~HoldsUser(c, u)
    /\ token' = [token EXCEPT ![u] = @ + 1]
    /\ spent' = spent + 1
    /\ UNCHANGED <<tenant, member, epoch, farm, grant, pond, req, now>>

TenancyTick == now < MaxNow /\ now' = now + 1 /\ UNCHANGED <<rows, req, spent>>

(***************************************************************************)
(* The specification.                                                      *)
(***************************************************************************)
Row(role, until) == [role |-> role, active |-> TRUE, until |-> until, version |-> 1]

\* One tenant with an owner, another member, perhaps a support grant of an
\* ADMIN; perhaps a second tenant, of the same owner, each with a farm.
TenancyInit ==
    /\ LET t == CHOOSE t \in Tenants : TRUE
           u == CHOOSE u \in Users \ Admins : TRUE
       IN
       \E second \in BOOLEAN, r \in {Row("member", None), Row("support", 1)},
          s \in {None, Row("support", 1)}, b \in SUBSET Farms :
        /\ tenant = [x \in Tenants |-> IF x = t \/ second THEN "active" ELSE "none"]
        /\ member = [x \in Tenants |-> [y \in Users |->
             CASE y = u /\ (x = t \/ second) -> Row("owner", None)
               [] y \notin Admins \cup {u} /\ x = t -> r
               [] y \in Admins /\ x = t -> s
               [] OTHER -> None]]
        /\ \E of \in [b -> {x \in Tenants : x = t \/ second}] :
             /\ \A f, g \in b : of[f] = of[g] => f = g
             /\ farm = [f \in Farms |-> IF f \in b THEN [tenant |-> of[f], owner |-> u] ELSE None]
             /\ grant = [f \in Farms |-> [y \in Users |-> IF f \in b /\ y = u
                  THEN [role |-> "owner", active |-> TRUE, until |-> None] ELSE None]]
    /\ epoch = [x \in Tenants |-> [y \in Users |-> 0]]
    /\ token = [y \in Users |-> 0]
    /\ pond \in [Ponds -> {None} \cup {f \in Farms : Exists(f)}]
    /\ req = [c \in Clients |-> Idle]
    /\ now = 0 /\ spent = 0

TenancyNext ==
    \/ \E c \in Clients :
        \/ Arrive(c) \/ EndWithoutWrite(c)
        \/ createTenant(c) \/ setTenantStatus(c) \/ setTenantMember(c)
        \/ createFarm(c) \/ updateFarm(c) \/ deleteFarm(c) \/ setFarmOwner(c) \/ setFarmMember(c)
        \/ createPond(c) \/ updatePond(c) \/ deletePond(c)
        \/ PrecheckOwner(c) \/ PrecheckMember(c) \/ LockTenant(c)
        \/ AuthorizeTenantWrite(c) \/ AuthorizePlatformWrite(c)
        \/ CreateTenant(c) \/ SetTenantActive(c) \/ SetTenantMember(c)
        \/ CreateFarm(c) \/ UpdateFarm(c) \/ SetFarmOwner(c) \/ SetFarmMember(c)
        \/ Lookup(c) \/ DeleteFarm(c) \/ CreatePond(c) \/ UpdatePond(c) \/ DeletePond(c)
        \/ Rollback(c)
    \/ \E u \in Users : ChangePassword(u)
    \/ TenancyTick

TenancySpec == TenancyInit /\ [][TenancyNext]_tenancyVars

(***************************************************************************)
(* Properties.                                                             *)
(***************************************************************************)
\* The rows have the schema's types; a support grant always has an end
\* (tenant_memberships_support_expiry, farm_memberships_support_expiry).
TenancyTypeOK ==
    /\ tenant \in [Tenants -> {"none", "active", "inactive"}]
    /\ \A t \in Tenants, u \in Users :
        member[t][u] = None \/ (member[t][u] \in Membership /\ Support(member[t][u]))
    /\ \A f \in Farms, u \in Users :
        grant[f][u] = None \/ (grant[f][u] \in Grant /\ Support(grant[f][u]))
    /\ farm \in [Farms -> {None, Gone} \cup FarmRow]
    /\ pond \in [Ponds -> {None, Gone} \cup Farms]
    /\ spent \in 0..MaxRequests /\ now \in 0..MaxNow

\* AuthorizeTenantWrite holds what it read: from there to the commit the
\* tenant is active and nobody has written the membership since the request
\* was admitted, although revocations and switches run concurrently.  Only the
\* grant: a tenant write does not look at the password of its user again.
WriteUnderGrant ==
    \A c \in Clients : Past(c, {"authorized", "looked"}) =>
        LET t == Claims(c).tenant
            u == Claims(c).user
        IN /\ tenant[t] = "active"
           /\ epoch[t][u] = Claims(c).epoch
           /\ member[t][u].active /\ member[t][u].role = Claims(c).role
           /\ u \notin Admins

\* A platform write commits only while the password the token was issued
\* under is still the current one (AuthorizePlatformWrite).
PlatformWriteUnderToken ==
    \A c \in Clients : req[c].pc = "authorized" /\ ByPlatform(c) =>
        token[Claims(c).user] = Claims(c).token

\* Two transactions wait for each other only where both raise the lock on a
\* membership, which CreateFarm does (that cycle is there, and PostgreSQL ends
\* it); members are changed under the tenant's exclusive lock so that two changes
\* cannot.  Cycles of three or more are not looked for.
OnlyUpgradesDeadlock ==
    \A c, d \in Clients : d \in Blockers(c) /\ c \in Blockers(d) =>
        Runs(c, {"CreateFarm"}) /\ Runs(d, {"CreateFarm"})

\* A pond's farm exists: DeleteFarm counts the ponds before it deletes, and
\* CreatePond sees the farm before it inserts, both without a lock; what comes
\* between is left to the foreign key.
NoOrphanPond == \A p \in Ponds : pond[p] \in Farms => Exists(pond[p])

\* Nobody becomes the owner of a farm (farms.owner_id) who is not a member of its
\* tenant at that moment, a revocation since the first check included.  The role
\* "owner" of a farm's member is another matter.
NewOwnerIsMember ==
    \A f \in Farms :
     farm'[f] \notin {None, Gone} /\ farm'[f].owner \notin
             {None, IF Exists(f) THEN farm[f].owner ELSE None} =>
         LET m == member[farm'[f].tenant][farm'[f].owner]
         IN m # None /\ m.active

\* Farms, their members and ponds are written only by a request of their own
\* tenant, which is active then: the id in a request is resolved within the
\* tenant, also when it was looked up by an earlier statement.
OneTenantPerWrite ==
    LET Ours(x) == \E c \in Clients :
         Past(c, {"authorized", "looked"}) /\ Claims(c).tenant = x /\ tenant[x] = "active"
        Of(f) == IF Exists(f) THEN farm[f].tenant ELSE farm'[f].tenant
    IN /\ \A f \in Farms : farm'[f] # farm[f] \/ grant'[f] # grant[f] => Ours(Of(f))
       /\ \A p \in Ponds : pond'[p] # pond[p] =>
             Ours(Of(IF pond[p] \in Farms THEN pond[p] ELSE pond'[p]))

\* From its check to its commit a tenant write stands on the grant and a platform
\* write on the password it was admitted with, the rows they leave fit together,
\* and no two writes but CreateFarm's wait for each other.
WritesStandOnGrants ==
    /\ TenancyTypeOK /\ WriteUnderGrant /\ PlatformWriteUnderToken
    /\ NoOrphanPond /\ OnlyUpgradesDeadlock

\* A write reaches its own tenant only, and makes only members owners.
WritesStayInTenant == [][NewOwnerIsMember /\ OneTenantPerWrite]_tenancyVars
====
