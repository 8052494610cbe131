---------------------------- MODULE TenancyProofs ----------------------------
(***************************************************************************)
(* Proofs about AdminSession, Tenancy and Reads for any users, tenants,    *)
(* programs, farms, ponds, devices, requests and bounds.                   *)
(*                                                                         *)
(* Signing in: the version of a membership only grows and names its role   *)
(* and whether it counts, so a version read earlier vouches for what was   *)
(* true since.                                                             *)
(*                                                                         *)
(* The console: a request takes the version of its membership and the      *)
(* state of its tenant from the token, and holds the locks under which     *)
(* they still say the same from its check to its commit.                   *)
(*                                                                         *)
(* Reading: a request is answered one query at a time while the rows       *)
(* change under it.  The invariant says of every question still to be      *)
(* asked that its answer may be shown, or that a question before it will   *)
(* see to that, and of the two writes of the app what they still know.     *)
(***************************************************************************)
EXTENDS AdminSession, Tenancy, Reads, FiniteSetTheorems, SequenceTheorems, WellFoundedInduction, TLAPS

-----------------------------------------------------------------------------
\* Tokens and clients.

Token == [user : Persons \cup {Nil}, kind : {"console", "app", Nil}, ver : 0..MaxChanges \cup {Nil},
          org : Orgs \cup {Nil}, orgVer : 1..(MaxChanges + 1) \cup {Nil}, role : Roles \cup {Nil}]
Client == [pc : {"out", "in"} \cup SignInPcs \cup RequestPcs, token : Token,
           password : Passwords \cup {Nil}, wasCurrent : BOOLEAN]

\* The client has a token.
Held(k) == k.pc \in {"in"} \cup RequestPcs

\* The rows, with versions no higher than the changes so far.
StoredInv ==
    /\ account \in [Persons -> Account \cup {Nil}]
    /\ seat \in [Orgs -> [Persons -> Seat \cup {Nil}]]
    /\ \A u \in Persons : account[u] # Nil => account[u].version <= changes
    /\ \A o \in Orgs, u \in Persons : seat[o][u] # Nil => seat[o][u].version <= changes + 1
    /\ open \subseteq Orgs
    /\ changes \in 0..MaxChanges

\* The version of the membership a token names is one the row has or had; with the
\* current version comes the current role.
Names(t) ==
    /\ t.org \in Orgs /\ t.orgVer \in 1..(MaxChanges + 1)
    /\ seat[t.org][t.user] # Nil
    /\ t.orgVer <= seat[t.org][t.user].version

\* What is known of a client where it is.
ClientOK(k) ==
    LET t == k.token
        row == seat[t.org][t.user]
    IN  /\ k.pc # "out" => t.user \in Persons /\ account[t.user] # Nil /\ t.kind \in {"console", "app"}
        /\ k.pc = "upgrade" => k.password \in Passwords
        /\ k.pc \in {"upgrade", "adminVersion"} => t.kind = "console"
        /\ k.pc \in {"upgrade", "adminVersion", "default", "exists"} => t.org = Nil /\ t.orgVer = Nil /\ t.role = Nil
        /\ k.pc \in {"default", "exists"} /\ t.kind = "console" => t.ver \in 0..MaxChanges
        /\ k.pc \in {"userVersion", "orgVersion", "orgRole"} => t.org \in Orgs
        /\ k.pc \in {"orgVersion", "orgRole"} \/ Held(k) => t.ver \in 0..MaxChanges
        /\ k.pc = "orgRole" => Names(t)
        /\ Held(k) /\ t.org = Nil => t.orgVer = Nil /\ t.role = Nil /\ t.kind = "console"
        /\ Held(k) /\ t.org # Nil => Names(t) /\ t.role \in Roles /\ (row.version = t.orgVer => row.role = t.role)
        /\ k.pc = "checkOrg" =>
              t.org # Nil /\ (Seated(t.org, t.user) /\ row.version = t.orgVer => k.wasCurrent)
        /\ k.pc \in {"checkRole", "admitted", "store", "checkDefault", "checkExists"} => k.wasCurrent

ClientInv == client \in [Programs -> Client] /\ \A c \in Programs : ClientOK(client[c])

SessionInd == StoredInv /\ ClientInv

\* What every step does to the rows: users and memberships stay, and a membership
\* whose version stays has its role and counts only if it did before.
Grow ==
    /\ \A u \in Persons : account[u] # Nil => account'[u] # Nil
    /\ \A o \in Orgs, u \in Persons : seat[o][u] # Nil =>
          /\ seat'[o][u] # Nil
          /\ seat[o][u].version <= seat'[o][u].version
          /\ seat'[o][u].version = seat[o][u].version =>
                seat'[o][u].role = seat[o][u].role /\ (Seated(o, u)' => Seated(o, u))

\* Rows of users and memberships have versions that are numbers.
RowsTyped ==
    /\ \A o \in Orgs, u \in Persons : seat[o][u] # Nil =>
          /\ seat[o][u] \in Seat /\ seat[o][u].version \in Nat
          /\ seat[o][u].version \in 1..(MaxChanges + 1) /\ seat[o][u].role \in Roles
    /\ \A u \in Persons : account[u] # Nil =>
          account[u] \in Account /\ account[u].version \in 0..MaxChanges

\* ... which the types of the stored rows say.
LEMMA SeatTypes == StoredInv => RowsTyped
<1> SUFFICES ASSUME StoredInv PROVE RowsTyped
  OBVIOUS
<1>1. MaxChanges \in Nat
  BY SessionAssumption
<1>2. ASSUME NEW o \in Orgs, NEW u \in Persons, seat[o][u] # Nil
      PROVE  /\ seat[o][u] \in Seat /\ seat[o][u].version \in Nat
             /\ seat[o][u].version \in 1..(MaxChanges + 1) /\ seat[o][u].role \in Roles
  <2>1. seat[o][u] \in Seat
    BY <1>2 DEF StoredInv
  <2> QED BY <1>1, <2>1 DEF Seat
<1>3. ASSUME NEW u \in Persons, account[u] # Nil
      PROVE  account[u] \in Account /\ account[u].version \in 0..MaxChanges
  BY <1>3 DEF StoredInv, Account
<1> QED BY <1>2, <1>3 DEF RowsTyped

\* What a client knows stays true while the rows grow.
LEMMA GrowClient ==
    ASSUME StoredInv, StoredInv', Grow, NEW k \in Client, ClientOK(k)
    PROVE  ClientOK(k)'
<1>0. PICK t : t = k.token
  OBVIOUS
<1>1. ASSUME t.org \in Orgs, t.user \in Persons, t.orgVer \in 1..(MaxChanges + 1), Names(t)
      PROVE  /\ Names(t)'
             /\ seat'[t.org][t.user].version = t.orgVer =>
                   /\ seat[t.org][t.user].version = t.orgVer
                   /\ seat'[t.org][t.user].role = seat[t.org][t.user].role
                   /\ Seated(t.org, t.user)' => Seated(t.org, t.user)
  <2>1. seat[t.org][t.user] # Nil /\ t.orgVer <= seat[t.org][t.user].version
    BY <1>1 DEF Names
  <2>2. /\ seat'[t.org][t.user] # Nil
        /\ seat[t.org][t.user].version <= seat'[t.org][t.user].version
        /\ seat'[t.org][t.user].version = seat[t.org][t.user].version =>
              /\ seat'[t.org][t.user].role = seat[t.org][t.user].role
              /\ Seated(t.org, t.user)' => Seated(t.org, t.user)
    BY <1>1, <2>1 DEF Grow
  <2>3. RowsTyped /\ RowsTyped'
    BY SeatTypes, PTL
  <2>4. seat[t.org][t.user].version \in Nat /\ seat'[t.org][t.user].version \in Nat /\ t.orgVer \in Nat
    BY <1>1, <2>1, <2>2, <2>3, SessionAssumption DEF RowsTyped
  <2>5. t.orgVer <= seat'[t.org][t.user].version
    BY <2>1, <2>2, <2>4
  <2>6. seat'[t.org][t.user].version = t.orgVer => seat'[t.org][t.user].version = seat[t.org][t.user].version
    BY <2>1, <2>2, <2>4
  <2> QED BY <1>1, <2>2, <2>5, <2>6 DEF Names
<1>2. k.pc # "out" => t.user \in Persons /\ account[t.user] # Nil /\ t.kind \in {"console", "app"}
  BY <1>0 DEF ClientOK
<1>3. k.pc # "out" => account'[t.user] # Nil
  BY <1>2 DEF Grow
<1>4. Held(k) \/ k.pc = "orgRole" => k.pc # "out"
  BY DEF Held, RequestPcs
<1>5. ASSUME k.pc = "orgRole" PROVE Names(t)'
  BY <1>0, <1>1, <1>2, <1>5 DEF ClientOK, Names
<1>6. ASSUME Held(k), t.org # Nil
      PROVE  /\ Names(t)' /\ t.role \in Roles
             /\ seat'[t.org][t.user].version = t.orgVer => seat'[t.org][t.user].role = t.role
  <2>1. /\ Names(t) /\ t.role \in Roles
        /\ seat[t.org][t.user].version = t.orgVer => seat[t.org][t.user].role = t.role
    BY <1>0, <1>6 DEF ClientOK
  <2>2. t.org \in Orgs /\ t.orgVer \in 1..(MaxChanges + 1) /\ t.user \in Persons
    BY <1>2, <1>4, <1>6, <2>1 DEF Names
  <2> QED BY <1>1, <2>1, <2>2
<1>7. ASSUME k.pc = "checkOrg", Seated(t.org, t.user)', seat'[t.org][t.user].version = t.orgVer
      PROVE  k.wasCurrent
  <2>1. Held(k) /\ t.org # Nil
    BY <1>0, <1>7 DEF Held, RequestPcs, ClientOK
  <2>2. Names(t)
    BY <1>0, <2>1 DEF ClientOK
  <2>3. t.org \in Orgs /\ t.orgVer \in 1..(MaxChanges + 1) /\ t.user \in Persons
    BY <1>2, <1>4, <2>1, <2>2 DEF Names
  <2>4. Seated(t.org, t.user) /\ seat[t.org][t.user].version = t.orgVer
    BY <1>1, <1>7, <2>2, <2>3
  <2> QED BY <1>0, <1>7, <2>4 DEF ClientOK
<1> QED BY <1>0, <1>2, <1>3, <1>5, <1>6, <1>7 DEF ClientOK

\* A client that becomes k while the rows grow.
LEMMA ClientStep ==
    ASSUME StoredInv, StoredInv', ClientInv, Grow, NEW c \in Programs, NEW k \in Client,
           client' = [client EXCEPT ![c] = k], ClientOK(k)'
    PROVE  SessionInd'
<1>1. client' \in [Programs -> Client]
  BY DEF ClientInv
<1>2. ASSUME NEW d \in Programs PROVE ClientOK(client[d])'
  <2>1. PICK j : j = client'[d]
    OBVIOUS
  <2>2. ClientOK(j)'
    <3>1. CASE d = c
      BY <2>1, <3>1 DEF ClientInv
    <3>2. CASE d # c
      <4>1. j = client[d] /\ j \in Client /\ ClientOK(j)
        BY <2>1, <3>2 DEF ClientInv
      <4> QED BY <4>1, GrowClient
    <3> QED BY <3>1, <3>2
  <2> QED BY <2>1, <2>2 DEF ClientOK, Held, Names, Seated
<1> QED BY <1>1, <1>2 DEF SessionInd, ClientInv

\* No client moves while the rows grow.
LEMMA ClientsStay ==
    ASSUME StoredInv, StoredInv', ClientInv, Grow, client' = client
    PROVE  SessionInd'
<1>2. ASSUME NEW d \in Programs PROVE ClientOK(client[d])'
  <2>1. PICK j : j = client[d]
    OBVIOUS
  <2>2. j \in Client /\ ClientOK(j)
    BY <2>1 DEF ClientInv
  <2>3. ClientOK(j)'
    BY <2>2, GrowClient
  <2> QED BY <2>1, <2>3 DEF ClientOK, Held, Names, Seated
<1> QED BY <1>2 DEF SessionInd, ClientInv

\* A step of one client that writes nothing.
LEMMA BecomesStep ==
    ASSUME SessionInd, NEW c \in Programs, NEW k \in Client, Becomes(c, k), ClientOK(k)
    PROVE  SessionInd'
<1>1. UNCHANGED <<account, seat, open, changes>> /\ client' = [client EXCEPT ![c] = k]
  BY DEF Becomes, stored
<1>2. StoredInv' /\ StoredInv /\ ClientInv
  BY <1>1 DEF SessionInd, StoredInv
<1>3. Grow
  <2>1. \A o \in Orgs, u \in Persons : seat[o][u] # Nil => seat[o][u].version <= seat[o][u].version
    BY <1>2, SeatTypes DEF RowsTyped
  <2> QED BY <1>1, <2>1 DEF Grow, Seated
<1>4. ClientOK(k)'
  BY <1>2, <1>3, GrowClient
<1> QED BY <1>1, <1>2, <1>3, <1>4, ClientStep
-----------------------------------------------------------------------------
\* The steps of a client.

\* The state of a client, and its places by name.
LEMMA ClientHas ==
    ASSUME SessionInd, NEW c \in Programs
    PROVE  client[c] \in Client /\ ClientOK(client[c]) /\ client[c].token \in Token
  BY DEF SessionInd, ClientInv, Client

\* A client without a token.
LEMMA OutOK == Out \in Client /\ ClientOK(Out) /\ NoToken \in Token /\ Out.pc = "out"
<1>1. NoToken \in Token
  BY DEF NoToken, Token
<1>2. Out \in Client /\ Out.pc = "out"
  BY <1>1 DEF Out, Client
<1> QED BY <1>1, <1>2 DEF ClientOK, Held, RequestPcs

\* A sign-in ends, a request is refused, the token is dropped.
LEMMA AbandonInd ==
    ASSUME SessionInd, NEW c \in Programs, Abandon(c) \/ LeaveSignIn(c) \/ (client[c].pc \in RequestPcs /\ Refuse(c))
    PROVE  SessionInd'
<1>1. CASE LeaveSignIn(c)
  BY <1>1, OutOK, BecomesStep DEF LeaveSignIn
<1>2. CASE client[c].pc \in RequestPcs /\ Refuse(c)
  <2>0. PICK o, k : o = client[c] /\ k = [o EXCEPT !.pc = "in", !.wasCurrent = FALSE]
    OBVIOUS
  <2>1. o \in Client /\ ClientOK(o)
    BY <2>0, ClientHas
  <2>2. k \in Client /\ k.pc = "in" /\ k.token = o.token
    BY <2>0, <2>1 DEF Client
  <2>3. Held(o) /\ Held(k) /\ o.pc # "out"
    BY <1>2, <2>0, <2>2 DEF Held, RequestPcs
  <2>4. ClientOK(k)
    BY <2>1, <2>2, <2>3 DEF ClientOK
  <2> QED BY <1>2, <2>0, <2>2, <2>4, BecomesStep DEF Refuse
<1> QED BY <1>1, <1>2 DEF Abandon

\* A sign-in to the console, after the password was right.
LEMMA LoginInd ==
    ASSUME SessionInd, NEW c \in Programs, login(c)
    PROVE  SessionInd'
<1>1. PICK u \in Persons :
        /\ account[u] # Nil /\ account[u].password # Nil
        /\ Becomes(c, [Out EXCEPT
             !.pc = IF account[u].legacy THEN "upgrade" ELSE "adminVersion",
             !.token = [NoToken EXCEPT !.user = u, !.kind = "console"],
             !.password = account[u].password])
  BY DEF login
<1>2. PICK t, k : /\ t = [NoToken EXCEPT !.user = u, !.kind = "console"]
                  /\ k = [Out EXCEPT !.pc = IF account[u].legacy THEN "upgrade" ELSE "adminVersion",
                                     !.token = t, !.password = account[u].password]
  OBVIOUS
<1>3. account[u].password \in Passwords
  BY <1>1 DEF SessionInd, StoredInv, Account
<1>4. /\ t \in Token /\ t.user = u /\ t.kind = "console" /\ t.org = Nil /\ t.orgVer = Nil /\ t.role = Nil
  BY <1>2, OutOK DEF NoToken, Token
<1>5. /\ k \in Client /\ k.pc \in {"upgrade", "adminVersion"} /\ k.token = t
      /\ k.password = account[u].password
  BY <1>2, <1>3, <1>4, OutOK DEF Client, SignInPcs
<1>6. ~Held(k)
  BY <1>5 DEF Held, RequestPcs
<1>7. ClientOK(k)
  BY <1>1, <1>3, <1>4, <1>5, <1>6 DEF ClientOK
<1> QED BY <1>1, <1>2, <1>5, <1>7, BecomesStep

\* The rows after a change of one account that keeps it an account.
LEMMA AccountStep ==
    ASSUME SessionInd, NEW u \in Persons, NEW a \in Account,
           account' = [account EXCEPT ![u] = a], a.version <= changes', UNCHANGED <<seat, open>>,
           changes' \in 0..MaxChanges, changes <= changes'
    PROVE  StoredInv' /\ Grow /\ account'[u] = a
<1>0. changes \in Nat /\ changes' \in Nat
  BY SessionAssumption DEF SessionInd, StoredInv
<1>1. \A v \in Persons : account'[v] = IF v = u THEN a ELSE account[v]
  BY DEF SessionInd, StoredInv
<1>2. RowsTyped
  BY SeatTypes DEF SessionInd
<1>3. \A v \in Persons : account'[v] # Nil => account'[v].version <= changes'
  <2> SUFFICES ASSUME NEW v \in Persons, account'[v] # Nil PROVE account'[v].version <= changes'
    OBVIOUS
  <2>1. CASE v = u
    BY <1>1, <2>1
  <2>2. CASE v # u
    <3>1. account'[v] = account[v] /\ account[v].version \in Nat /\ account[v].version <= changes
      BY <1>1, <1>2, <2>2, SessionAssumption DEF RowsTyped, SessionInd, StoredInv
    <3> QED BY <1>0, <3>1
  <2> QED BY <2>1, <2>2
<1>4. \A o \in Orgs, v \in Persons : seat[o][v] # Nil => seat[o][v].version <= changes' + 1
  <2> SUFFICES ASSUME NEW o \in Orgs, NEW v \in Persons, seat[o][v] # Nil
               PROVE  seat[o][v].version <= changes' + 1
    OBVIOUS
  <2>1. seat[o][v].version \in Nat /\ seat[o][v].version <= changes + 1
    BY <1>2 DEF RowsTyped, SessionInd, StoredInv
  <2> QED BY <1>0, <2>1
<1>5. StoredInv'
  BY <1>3, <1>4 DEF SessionInd, StoredInv
<1>6. Grow
  <2>1. \A v \in Persons : account[v] # Nil => account'[v] # Nil
    BY <1>1, SessionAssumption
  <2>2. \A o \in Orgs, v \in Persons : seat[o][v] # Nil => seat[o][v].version <= seat[o][v].version
    BY <1>2 DEF RowsTyped
  <2> QED BY <2>1, <2>2 DEF Grow, Seated
<1> QED BY <1>1, <1>5, <1>6

\* The password that was right is stored again.
LEMMA UpgradeInd ==
    ASSUME SessionInd, NEW c \in Programs, UpgradeAdminPassword(c)
    PROVE  SessionInd'
<1>0. PICK o, u, k : o = client[c] /\ u = o.token.user /\ k = [o EXCEPT !.pc = "adminVersion"]
  OBVIOUS
<1>1. o \in Client /\ ClientOK(o) /\ o.pc = "upgrade"
  BY <1>0, ClientHas DEF UpgradeAdminPassword
<1>2. u \in Persons /\ account[u] # Nil /\ o.password \in Passwords
  BY <1>0, <1>1 DEF ClientOK
<1>3. PICK a : a = [account[u] EXCEPT !.password = o.password, !.legacy = FALSE]
  OBVIOUS
<1>4. /\ account[u] \in Account /\ account[u].version <= changes
      /\ changes \in 0..MaxChanges /\ changes <= changes
  BY <1>2, SessionAssumption DEF SessionInd, StoredInv
<1>5. a \in Account /\ a.version = account[u].version
  BY <1>2, <1>3, <1>4 DEF Account
<1>6. /\ account' = [account EXCEPT ![u] = a] /\ client' = [client EXCEPT ![c] = k]
      /\ UNCHANGED <<seat, open, changes>>
  BY <1>0, <1>3 DEF UpgradeAdminPassword, User
<1>7. StoredInv' /\ Grow /\ account'[u] = a
  BY <1>2, <1>4, <1>5, <1>6, AccountStep
<1>8. k \in Client /\ k.pc = "adminVersion" /\ k.token = o.token
  BY <1>0, <1>1 DEF Client, SignInPcs
<1>9. ~Held(k) /\ ~Held(o)
  BY <1>1, <1>8 DEF Held, RequestPcs
<1>10. ClientOK(k)
  BY <1>1, <1>8, <1>9 DEF ClientOK
<1>11. ClientOK(k)'
  BY <1>7, <1>8, <1>10, GrowClient DEF SessionInd
<1> QED BY <1>6, <1>7, <1>8, <1>11, ClientStep DEF SessionInd

\* The version of the user goes into the token: console and app.
LEMMA VersionInd ==
    ASSUME SessionInd, NEW c \in Programs, AdminTokenVersion(c) \/ UserTokenVersion(c)
    PROVE  SessionInd'
<1>0. PICK o, v, t : o = client[c] /\ v = account[o.token.user].version /\ t = [o.token EXCEPT !.ver = v]
  OBVIOUS
<1>1. o \in Client /\ ClientOK(o) /\ o.token \in Token /\ o.pc \in {"adminVersion", "userVersion"}
  BY <1>0, ClientHas DEF AdminTokenVersion, UserTokenVersion
<1>2. /\ o.token.user \in Persons /\ account[o.token.user] # Nil /\ o.token.kind \in {"console", "app"}
      /\ o.pc = "adminVersion" => o.token.kind = "console" /\ o.token.org = Nil /\ o.token.orgVer = Nil /\ o.token.role = Nil
      /\ o.pc = "userVersion" => o.token.org \in Orgs
  BY <1>1 DEF ClientOK
<1>3. v \in 0..MaxChanges
  BY <1>0, <1>2, SeatTypes DEF SessionInd, RowsTyped
<1>4. /\ t \in Token /\ t.user = o.token.user /\ t.kind = o.token.kind /\ t.org = o.token.org
      /\ t.orgVer = o.token.orgVer /\ t.role = o.token.role /\ t.ver = v
  BY <1>0, <1>1, <1>3 DEF Token
<1>5. CASE AdminTokenVersion(c)
  <2>1. PICK k : k = [o EXCEPT !.pc = "default", !.token = t]
    OBVIOUS
  <2>2. Becomes(c, k) /\ o.pc = "adminVersion"
    BY <1>0, <1>5, <2>1 DEF AdminTokenVersion, User
  <2>3. k \in Client /\ k.pc = "default" /\ k.token = t
    BY <1>1, <1>4, <2>1 DEF Client, SignInPcs
  <2>4. ~Held(k)
    BY <2>3 DEF Held, RequestPcs
  <2>5. ClientOK(k)
    BY <1>2, <1>3, <1>4, <2>2, <2>3, <2>4 DEF ClientOK
  <2> QED BY <2>2, <2>3, <2>5, BecomesStep
<1>6. CASE UserTokenVersion(c)
  <2>1. PICK k : k = [o EXCEPT !.pc = "orgVersion", !.token = t]
    OBVIOUS
  <2>2. Becomes(c, k) /\ o.pc = "userVersion"
    BY <1>0, <1>6, <2>1 DEF UserTokenVersion, User
  <2>3. k \in Client /\ k.pc = "orgVersion" /\ k.token = t
    BY <1>1, <1>4, <2>1 DEF Client, SignInPcs
  <2>4. ~Held(k)
    BY <2>3 DEF Held, RequestPcs
  <2>5. ClientOK(k)
    BY <1>2, <1>3, <1>4, <2>2, <2>3, <2>4 DEF ClientOK
  <2> QED BY <2>2, <2>3, <2>5, BecomesStep
<1> QED BY <1>5, <1>6
\* The app: the user of the code, created at need.
LEMMA EnsureInd ==
    ASSUME SessionInd, NEW c \in Programs, EnsureUser(c)
    PROVE  SessionInd'
<1>0. PICK u \in Persons :
        /\ account' = [account EXCEPT ![u] =
             IF @ = Nil THEN [password |-> Nil, legacy |-> FALSE, version |-> 0] ELSE @]
        /\ client' = [client EXCEPT ![c] =
             [Out EXCEPT !.pc = "default", !.token = [NoToken EXCEPT !.user = u, !.kind = "app"]]]
  BY DEF EnsureUser
<1>1. UNCHANGED <<seat, open, changes>>
  BY DEF EnsureUser
<1>2. PICK a, t, k : /\ a = IF account[u] = Nil THEN [password |-> Nil, legacy |-> FALSE, version |-> 0]
                            ELSE account[u]
                     /\ t = [NoToken EXCEPT !.user = u, !.kind = "app"]
                     /\ k = [Out EXCEPT !.pc = "default", !.token = t]
  OBVIOUS
<1>3. changes \in 0..MaxChanges /\ changes \in Nat /\ changes <= changes
  BY SessionAssumption DEF SessionInd, StoredInv
<1>4. a \in Account /\ a.version <= changes
  <2>1. CASE account[u] = Nil
    BY <1>2, <1>3, <2>1, SessionAssumption DEF Account
  <2>2. CASE account[u] # Nil
    BY <1>2, <2>2 DEF SessionInd, StoredInv
  <2> QED BY <2>1, <2>2
<1>5. account' = [account EXCEPT ![u] = a] /\ client' = [client EXCEPT ![c] = k]
  BY <1>0, <1>2 DEF SessionInd, StoredInv
<1>6. StoredInv' /\ Grow /\ account'[u] = a
  BY <1>1, <1>3, <1>4, <1>5, AccountStep
<1>7. t \in Token /\ t.user = u /\ t.kind = "app" /\ t.org = Nil /\ t.orgVer = Nil /\ t.role = Nil
  BY <1>2, OutOK DEF NoToken, Token
<1>8. k \in Client /\ k.pc = "default" /\ k.token = t
  BY <1>2, <1>7, OutOK DEF Client, SignInPcs
<1>9. ~Held(k)
  BY <1>8 DEF Held, RequestPcs
<1>10. account'[u] # Nil
  BY <1>4, <1>6, SessionAssumption
<1>11. ClientOK(k)'
  BY <1>7, <1>8, <1>9, <1>10 DEF ClientOK, Held
<1> QED BY <1>5, <1>6, <1>8, <1>11, ClientStep DEF SessionInd

\* The default tenant, or none.
LEMMA DefaultInd ==
    ASSUME SessionInd, NEW c \in Programs, DefaultTenantForUser(c) \/ MembershipExists(c)
    PROVE  SessionInd'
<1>0. PICK o : o = client[c]
  OBVIOUS
<1>1. o \in Client /\ ClientOK(o) /\ o.token \in Token /\ o.pc \in {"default", "exists"}
  BY <1>0, ClientHas DEF DefaultTenantForUser, MembershipExists
<1>2. /\ o.token.user \in Persons /\ account[o.token.user] # Nil /\ o.token.kind \in {"console", "app"}
      /\ o.token.org = Nil /\ o.token.orgVer = Nil /\ o.token.role = Nil
      /\ o.token.kind = "console" => o.token.ver \in 0..MaxChanges
  BY <1>1 DEF ClientOK
<1>3. CASE \E x \in DefaultTenants(User(c)) :
             Becomes(c, [client[c] EXCEPT !.token.org = x,
                          !.pc = IF Kind(c) = "app" THEN "userVersion" ELSE "orgVersion"])
  <2>1. PICK x \in Orgs : Becomes(c, [client[c] EXCEPT !.token.org = x,
                          !.pc = IF Kind(c) = "app" THEN "userVersion" ELSE "orgVersion"])
    BY <1>3 DEF DefaultTenants
  <2>2. PICK t, k : /\ t = [o.token EXCEPT !.org = x]
                    /\ k = [o EXCEPT !.token = t,
                                     !.pc = IF o.token.kind = "app" THEN "userVersion" ELSE "orgVersion"]
    OBVIOUS
  <2>3. Becomes(c, k)
    BY <1>0, <2>1, <2>2 DEF Kind
  <2>4. /\ t \in Token /\ t.user = o.token.user /\ t.kind = o.token.kind /\ t.org = x /\ t.ver = o.token.ver
    BY <1>1, <2>2 DEF Token
  <2>5. /\ k \in Client /\ k.token = t
        /\ k.pc = IF o.token.kind = "app" THEN "userVersion" ELSE "orgVersion"
    BY <1>1, <2>2, <2>4 DEF Client, SignInPcs
  <2>6. ~Held(k)
    BY <2>5 DEF Held, RequestPcs
  <2>7. ClientOK(k)
    BY <1>2, <2>4, <2>5, <2>6 DEF ClientOK
  <2> QED BY <2>3, <2>5, <2>7, BecomesStep
<1>4. CASE o.pc = "default" /\ Step(c, "exists")
  <2>1. PICK k : k = [o EXCEPT !.pc = "exists"]
    OBVIOUS
  <2>2. k \in Client /\ k.pc = "exists" /\ k.token = o.token /\ Becomes(c, k)
    BY <1>0, <1>1, <1>4, <2>1 DEF Step, Client, SignInPcs
  <2>3. ~Held(k)
    BY <2>2 DEF Held, RequestPcs
  <2>4. ClientOK(k)
    BY <1>2, <2>2, <2>3 DEF ClientOK
  <2> QED BY <2>2, <2>4, BecomesStep
<1>5. CASE o.pc = "exists" /\ MayLackTenant(c) /\ Step(c, "in")
  <2>1. PICK k : k = [o EXCEPT !.pc = "in"]
    OBVIOUS
  <2>2. k \in Client /\ k.pc = "in" /\ k.token = o.token /\ Becomes(c, k)
    BY <1>0, <1>1, <1>5, <2>1 DEF Step, Client
  <2>3. o.token.kind = "console"
    BY <1>0, <1>5 DEF MayLackTenant, Kind
  <2>4. ClientOK(k)
    BY <1>2, <2>2, <2>3 DEF ClientOK
  <2> QED BY <2>2, <2>4, BecomesStep
<1>6. CASE LeaveSignIn(c)
  BY <1>6, AbandonInd
<1> QED BY <1>0, <1>3, <1>4, <1>5, <1>6 DEF DefaultTenantForUser, MembershipExists

\* signTokenForTenant: the version of the membership, then its role.
LEMMA SignInd ==
    ASSUME SessionInd, NEW c \in Programs, signTokenForTenant(c)
    PROVE  SessionInd'
<1>0. PICK o, row : o = client[c] /\ row = seat[o.token.org][o.token.user]
  OBVIOUS
<1>1. o \in Client /\ ClientOK(o) /\ o.token \in Token /\ o.pc \in {"orgVersion", "orgRole"}
  BY <1>0, ClientHas DEF signTokenForTenant
<1>2. /\ o.token.user \in Persons /\ account[o.token.user] # Nil /\ o.token.kind \in {"console", "app"}
      /\ o.token.org \in Orgs /\ o.token.ver \in 0..MaxChanges /\ o.token.org # Nil
      /\ o.pc = "orgRole" => Names(o.token)
  BY <1>1, SessionAssumption DEF ClientOK
<1>3. CASE LeaveSignIn(c)
  BY <1>3, AbandonInd
<1>4. CASE Seated(o.token.org, o.token.user) /\ Becomes(c, VersionThenRole(c))
  <2>1. row # Nil
    BY <1>0, <1>4 DEF Seated
  <2>2. row.version \in 1..(MaxChanges + 1) /\ row.version \in Nat /\ row.role \in Roles
    BY <1>0, <1>2, <2>1, SeatTypes DEF SessionInd, RowsTyped
  <2>3. CASE o.pc = "orgVersion"
    <3>1. PICK t, k : t = [o.token EXCEPT !.orgVer = row.version] /\ k = [o EXCEPT !.pc = "orgRole", !.token = t]
      OBVIOUS
    <3>2. Becomes(c, k)
      BY <1>0, <1>4, <2>3, <3>1 DEF VersionThenRole, Org, User
    <3>3. /\ t \in Token /\ t.user = o.token.user /\ t.kind = o.token.kind /\ t.org = o.token.org
          /\ t.ver = o.token.ver /\ t.orgVer = row.version
      BY <1>1, <2>2, <3>1 DEF Token
    <3>4. k \in Client /\ k.token = t /\ k.pc = "orgRole"
      BY <1>1, <3>1, <3>3 DEF Client, SignInPcs
    <3>5. ~Held(k)
      BY <3>4 DEF Held, RequestPcs
    <3>6. Names(t)
      BY <1>0, <1>2, <2>1, <2>2, <3>3 DEF Names
    <3>7. ClientOK(k)
      BY <1>2, <3>3, <3>4, <3>5, <3>6 DEF ClientOK
    <3> QED BY <3>2, <3>4, <3>7, BecomesStep
  <2>4. CASE o.pc = "orgRole"
    <3>1. PICK t, k : t = [o.token EXCEPT !.role = row.role] /\ k = [o EXCEPT !.pc = "in", !.token = t]
      OBVIOUS
    <3>2. Becomes(c, k)
      BY <1>0, <1>4, <2>4, <3>1 DEF VersionThenRole, Org, User
    <3>3. /\ t \in Token /\ t.user = o.token.user /\ t.kind = o.token.kind /\ t.org = o.token.org
          /\ t.ver = o.token.ver /\ t.orgVer = o.token.orgVer /\ t.role = row.role
      BY <1>1, <2>2, <3>1 DEF Token
    <3>4. k \in Client /\ k.token = t /\ k.pc = "in"
      BY <1>1, <3>1, <3>3 DEF Client
    <3>5. Names(t)
      BY <1>2, <2>4, <3>3 DEF Names
    <3>6. ClientOK(k)
      BY <1>0, <1>2, <2>2, <3>3, <3>4, <3>5 DEF ClientOK
    <3> QED BY <3>2, <3>4, <3>6, BecomesStep
  <2> QED BY <1>1, <2>3, <2>4
<1> QED BY <1>0, <1>3, <1>4 DEF signTokenForTenant, Org, User

\* A request that goes on to its next query with the same token.
LEMMA RequestStep ==
    ASSUME SessionInd, NEW c \in Programs, NEW pc \in RequestPcs, NEW current \in BOOLEAN, Held(client[c]),
           Becomes(c, [client[c] EXCEPT !.pc = pc, !.wasCurrent = current]),
           pc = "checkOrg" =>
              /\ client[c].token.org # Nil
              /\ Seated(client[c].token.org, client[c].token.user) =>
                    (seat[client[c].token.org][client[c].token.user].version = client[c].token.orgVer => current),
           pc \in {"checkRole", "admitted", "store", "checkDefault", "checkExists"} => current
    PROVE  SessionInd'
<1>0. PICK o, k : o = client[c] /\ k = [o EXCEPT !.pc = pc, !.wasCurrent = current]
  OBVIOUS
<1>1. o \in Client /\ ClientOK(o) /\ Held(o)
  BY <1>0, ClientHas
<1>2. k \in Client /\ k.pc = pc /\ k.token = o.token /\ (k.wasCurrent <=> current)
  BY <1>0, <1>1 DEF Client
<1>3. Held(k) /\ o.pc # "out" /\ k.pc \notin {"out", "upgrade", "adminVersion", "default", "exists",
                                              "userVersion", "orgVersion", "orgRole"}
  BY <1>1, <1>2 DEF Held, RequestPcs
<1>4. ClientOK(k)
  BY <1>0, <1>1, <1>2, <1>3 DEF ClientOK
<1> QED BY <1>0, <1>2, <1>4, BecomesStep
\* A request's queries: each goes on or refuses.
LEMMA RequestInd ==
    ASSUME SessionInd, NEW c \in Programs,
           BeginRequest(c) \/ CheckVersion(c) \/ CheckNoTenant(c) \/ CheckOrg(c) \/ CheckRole(c) \/ changePassword(c)
    PROVE  SessionInd'
<1>0. PICK o, t : o = client[c] /\ t = o.token
  OBVIOUS
<1>1. o \in Client /\ ClientOK(o) /\ t \in Token /\ o.pc \in {"in"} \cup RequestPcs
  BY <1>0, ClientHas DEF BeginRequest, CheckVersion, CheckNoTenant, CheckOrg, CheckRole, changePassword, RequestPcs
<1>2. Held(client[c]) /\ Held(o) /\ o.pc # "out" /\ o.wasCurrent \in BOOLEAN
  BY <1>0, <1>1 DEF Held, RequestPcs, Client
<1>3. ASSUME NEW pc \in RequestPcs, Step(c, pc),
             pc = "checkOrg" => FALSE,
             pc \in {"checkRole", "admitted", "store", "checkDefault", "checkExists"} => o.wasCurrent
      PROVE  SessionInd'
  <2>1. [o EXCEPT !.pc = pc] = [o EXCEPT !.pc = pc, !.wasCurrent = o.wasCurrent]
    BY <1>1 DEF Client
  <2>2. Becomes(c, [client[c] EXCEPT !.pc = pc, !.wasCurrent = o.wasCurrent])
    BY <1>0, <1>3, <2>1 DEF Step
  <2> QED BY <1>2, <1>3, <2>2, RequestStep
<1>4. CASE BeginRequest(c)
  BY <1>3, <1>4 DEF BeginRequest, RequestPcs
<1>5. CASE CheckVersion(c)
  <2>1. o.pc = "checkVersion" /\ o.pc \in RequestPcs
    BY <1>0, <1>5 DEF CheckVersion, RequestPcs
  <2>2. CASE Refuse(c)
    BY <1>0, <2>1, <2>2, AbandonInd
  <2>3. CASE /\ t.ver = account[t.user].version
             /\ Becomes(c, [client[c] EXCEPT !.wasCurrent = Current(client[c].token),
                              !.pc = IF Org(c) = Nil THEN "checkDefault" ELSE "checkOrg"])
    <3>1. PICK current, pc : /\ current = Current(t)
                         /\ pc = IF t.org = Nil THEN "checkDefault" ELSE "checkOrg"
      OBVIOUS
    <3>2. pc \in RequestPcs /\ pc \in {"checkDefault", "checkOrg"} /\ (pc = "checkOrg" <=> t.org # Nil)
      BY <3>1 DEF RequestPcs
    <3>3. [client[c] EXCEPT !.wasCurrent = current, !.pc = pc] = [client[c] EXCEPT !.pc = pc, !.wasCurrent = current]
      BY <1>0, <1>1 DEF Client
    <3>4. Becomes(c, [client[c] EXCEPT !.pc = pc, !.wasCurrent = current])
      BY <1>0, <2>3, <3>1, <3>3 DEF Org
    <3>5. current \in BOOLEAN
      BY <3>1 DEF Current
    <3>6. pc = "checkDefault" => current
      BY <2>3, <3>1, <3>2 DEF Current
    <3>7. ASSUME pc = "checkOrg", Seated(t.org, t.user), seat[t.org][t.user].version = t.orgVer
          PROVE  current
      <4>1. seat[t.org][t.user].role = t.role
        BY <1>0, <1>1, <1>2, <3>2, <3>7 DEF ClientOK
      <4> QED BY <2>3, <3>1, <3>7, <4>1 DEF Current
    <3> QED BY <1>0, <1>2, <3>2, <3>4, <3>5, <3>6, <3>7, RequestStep
  <2> QED BY <1>0, <1>5, <2>2, <2>3 DEF CheckVersion, User
<1>6. CASE CheckNoTenant(c)
  <2>1. o.pc \in {"checkDefault", "checkExists"} /\ o.pc \in RequestPcs
    BY <1>0, <1>6 DEF CheckNoTenant, RequestPcs
  <2>2. o.wasCurrent
    BY <1>1, <2>1 DEF ClientOK
  <2>3. CASE Refuse(c)
    BY <1>0, <2>1, <2>3, AbandonInd
  <2>4. CASE Step(c, "checkExists") \/ Step(c, "admitted")
    BY <1>3, <2>2, <2>4 DEF RequestPcs
  <2> QED BY <1>6, <2>3, <2>4 DEF CheckNoTenant
<1>7. CASE CheckOrg(c)
  <2>1. o.pc = "checkOrg" /\ o.pc \in RequestPcs
    BY <1>0, <1>7 DEF CheckOrg, RequestPcs
  <2>2. CASE Refuse(c)
    BY <1>0, <2>1, <2>2, AbandonInd
  <2>3. CASE /\ Seated(t.org, t.user) /\ seat[t.org][t.user].version = t.orgVer
             /\ Step(c, "checkRole")
    <3>1. o.wasCurrent
      BY <1>0, <1>1, <2>1, <2>3 DEF ClientOK
    <3> QED BY <1>3, <2>3, <3>1 DEF RequestPcs
  <2> QED BY <1>0, <1>7, <2>2, <2>3 DEF CheckOrg, Org, User
<1>8. CASE CheckRole(c)
  <2>1. o.pc = "checkRole" /\ o.pc \in RequestPcs /\ o.wasCurrent
    BY <1>0, <1>1, <1>8 DEF CheckRole, RequestPcs, ClientOK
  <2>2. CASE Refuse(c)
    BY <1>0, <2>1, <2>2, AbandonInd
  <2>3. CASE Step(c, "admitted")
    BY <1>3, <2>1, <2>3 DEF RequestPcs
  <2> QED BY <1>8, <2>2, <2>3 DEF CheckRole
<1>9. CASE changePassword(c)
  <2>1. o.wasCurrent /\ Step(c, "store")
    BY <1>0, <1>1, <1>9 DEF changePassword, ClientOK
  <2> QED BY <1>3, <2>1 DEF RequestPcs
<1> QED BY <1>4, <1>5, <1>6, <1>7, <1>8, <1>9

\* The app asks for a token of another tenant.
LEMMA SwitchTenantInd ==
    ASSUME SessionInd, NEW c \in Programs, switchTenant(c)
    PROVE  SessionInd'
<1>1. client[c] \in Client /\ ClientOK(client[c]) /\ client[c].pc = "admitted"
  BY ClientHas DEF switchTenant
<1>2. User(c) \in Persons /\ account[User(c)] # Nil
  BY <1>1 DEF ClientOK, User
<1>3. PICK x \in Orgs : Becomes(c, [Out EXCEPT !.pc = "userVersion", !.token =
             [NoToken EXCEPT !.user = User(c), !.kind = "app", !.org = x]])
  BY DEF switchTenant
<1>4. PICK t, k : /\ t = [NoToken EXCEPT !.user = User(c), !.kind = "app", !.org = x]
                  /\ k = [Out EXCEPT !.pc = "userVersion", !.token = t]
  OBVIOUS
<1>5. t \in Token /\ t.user = User(c) /\ t.kind = "app" /\ t.org = x
  BY <1>2, <1>4, OutOK DEF NoToken, Token
<1>6. k \in Client /\ k.pc = "userVersion" /\ k.token = t
  BY <1>4, <1>5, OutOK DEF Client, SignInPcs
<1>7. ~Held(k)
  BY <1>6 DEF Held, RequestPcs
<1>8. ClientOK(k)
  BY <1>2, <1>5, <1>6, <1>7 DEF ClientOK
<1> QED BY <1>3, <1>4, <1>6, <1>8, BecomesStep

\* The new password, with a new version.
LEMMA PasswordInd ==
    ASSUME SessionInd, NEW c \in Programs, ChangeAdminPassword(c)
    PROVE  SessionInd'
<1>0. PICK o, u, k : o = client[c] /\ u = o.token.user /\ k = [o EXCEPT !.pc = "in", !.wasCurrent = FALSE]
  OBVIOUS
<1>1. o \in Client /\ ClientOK(o) /\ o.pc = "store"
  BY <1>0, ClientHas DEF ChangeAdminPassword
<1>2. u \in Persons /\ account[u] # Nil
  BY <1>0, <1>1 DEF ClientOK
<1>3. PICK p \in Passwords : account' = [account EXCEPT
         ![u] = [password |-> p, legacy |-> FALSE, version |-> @.version + 1]]
  BY <1>0 DEF ChangeAdminPassword, User
<1>4. PICK a : a = [password |-> p, legacy |-> FALSE, version |-> account[u].version + 1]
  OBVIOUS
<1>5. /\ changes < MaxChanges /\ changes' = changes + 1 /\ UNCHANGED <<seat, open>>
      /\ client' = [client EXCEPT ![c] = k]
  BY <1>0 DEF ChangeAdminPassword
<1>6. /\ account[u].version \in Nat /\ account[u].version <= changes /\ changes \in Nat /\ MaxChanges \in Nat
  BY <1>2, SessionAssumption DEF SessionInd, StoredInv, Account
<1>7. /\ changes' \in 0..MaxChanges /\ changes <= changes' /\ account[u].version + 1 \in 0..MaxChanges
      /\ account[u].version + 1 <= changes'
  BY <1>5, <1>6
<1>8. a \in Account /\ a.version <= changes' /\ account' = [account EXCEPT ![u] = a]
  BY <1>2, <1>3, <1>4, <1>7 DEF Account, SessionInd, StoredInv
<1>9. StoredInv' /\ Grow
  BY <1>2, <1>5, <1>7, <1>8, AccountStep
<1>10. k \in Client /\ k.pc = "in" /\ k.token = o.token
  BY <1>0, <1>1 DEF Client
<1>11. Held(o) /\ Held(k) /\ o.pc # "out"
  BY <1>1, <1>10 DEF Held, RequestPcs
<1>12. ClientOK(k)
  BY <1>1, <1>10, <1>11 DEF ClientOK
<1>13. ClientOK(k)'
  BY <1>9, <1>10, <1>12, GrowClient DEF SessionInd
<1> QED BY <1>5, <1>9, <1>10, <1>13, ClientStep DEF SessionInd

-----------------------------------------------------------------------------
\* What others change.

\* RegisterUser.
LEMMA RegisterInd ==
    ASSUME SessionInd, NEW u \in Persons, RegisterUser(u)
    PROVE  SessionInd'
<1>1. PICK p \in Passwords : account' = [account EXCEPT
         ![u] = [password |-> p, legacy |-> FALSE, version |-> 0]]
  BY DEF RegisterUser
<1>2. PICK a : a = [password |-> p, legacy |-> FALSE, version |-> 0]
  OBVIOUS
<1>3. UNCHANGED <<seat, open, client, changes>>
  BY DEF RegisterUser
<1>4. changes \in 0..MaxChanges /\ changes <= changes /\ 0 <= changes /\ MaxChanges \in Nat
  BY SessionAssumption DEF SessionInd, StoredInv
<1>5. a \in Account /\ a.version <= changes
  BY <1>2, <1>4 DEF Account
<1>6. StoredInv' /\ Grow
  BY <1>1, <1>2, <1>3, <1>4, <1>5, AccountStep
<1> QED BY <1>3, <1>6, ClientsStay DEF SessionInd

\* A change of memberships that makes each changed row newer.
LEMMA SeatStep ==
    ASSUME SessionInd, changes < MaxChanges, changes' = changes + 1, UNCHANGED <<account, client>>,
           open' \subseteq Orgs,
           seat' \in [Orgs -> [Persons -> Seat \cup {Nil}]],
           \A o \in Orgs, u \in Persons :
              \/ seat'[o][u] = seat[o][u] /\ (o \in open <=> o \in open')
              \/ seat[o][u] = Nil /\ (seat'[o][u] # Nil => seat'[o][u].version = 1)
              \/ /\ seat[o][u] # Nil /\ seat'[o][u] # Nil
                 /\ seat'[o][u].version = seat[o][u].version + 1
    PROVE  SessionInd'
<1>0. changes \in Nat /\ changes' \in 0..MaxChanges /\ MaxChanges \in Nat
  BY SessionAssumption DEF SessionInd, StoredInv
<1>1. \A o \in Orgs, u \in Persons : seat[o][u] # Nil =>
         seat[o][u].version \in Nat /\ seat[o][u].version <= changes + 1
  BY SeatTypes DEF SessionInd, RowsTyped, StoredInv
<1>2. ASSUME NEW o \in Orgs, NEW u \in Persons, seat'[o][u] # Nil PROVE seat'[o][u].version <= changes' + 1
  <2>1. seat'[o][u].version \in {1, seat[o][u].version, seat[o][u].version + 1}
        /\ (seat[o][u] = Nil => seat'[o][u].version = 1)
    BY <1>2
  <2>2. CASE seat[o][u] = Nil
    BY <1>0, <2>1, <2>2
  <2>3. CASE seat[o][u] # Nil
    BY <1>0, <1>1, <2>1, <2>3
  <2> QED BY <2>2, <2>3
<1>3. \A u \in Persons : account[u] # Nil => account[u].version \in Nat /\ account[u].version <= changes
  BY SeatTypes, SessionAssumption DEF SessionInd, RowsTyped, StoredInv
<1>4. \A u \in Persons : account'[u] # Nil => account'[u].version <= changes'
  BY <1>0, <1>3
<1>5. StoredInv'
  BY <1>0, <1>2, <1>4 DEF SessionInd, StoredInv
<1>6. ASSUME NEW o \in Orgs, NEW u \in Persons, seat[o][u] # Nil
      PROVE  /\ seat'[o][u] # Nil
             /\ seat[o][u].version <= seat'[o][u].version
             /\ seat'[o][u].version = seat[o][u].version =>
                   seat'[o][u].role = seat[o][u].role /\ (Seated(o, u)' => Seated(o, u))
  <2>1. seat[o][u].version \in Nat
    BY <1>1, <1>6
  <2>2. CASE seat'[o][u] = seat[o][u] /\ (o \in open <=> o \in open')
    BY <1>6, <2>1, <2>2 DEF Seated
  <2>3. CASE seat'[o][u] # Nil /\ seat'[o][u].version = seat[o][u].version + 1
    BY <2>1, <2>3
  <2> QED BY <1>6, <2>2, <2>3
<1>7. Grow
  BY <1>6 DEF Grow
<1> QED BY <1>5, <1>7, ClientsStay DEF SessionInd

\* SetTenantActive: every membership of the tenant is newer.
LEMMA SwitchOrgInd ==
    ASSUME SessionInd, NEW o \in Orgs, SwitchOrg(o)
    PROVE  SessionInd'
<1>1. /\ changes < MaxChanges /\ changes' = changes + 1 /\ UNCHANGED <<account, client>>
      /\ open' = IF o \in open THEN open \ {o} ELSE open \cup {o}
      /\ seat' = [seat EXCEPT ![o] = [u \in Persons |-> Switched(seat[o][u])]]
  BY DEF SwitchOrg, SessionInd, StoredInv
<1>2. open' \subseteq Orgs /\ \A x \in Orgs \ {o} : x \in open <=> x \in open'
  BY <1>1 DEF SessionInd, StoredInv
<1>3. ASSUME NEW u \in Persons
      PROVE  /\ Switched(seat[o][u]) \in Seat \cup {Nil}
             /\ seat[o][u] = Nil => Switched(seat[o][u]) = Nil
             /\ seat[o][u] # Nil => /\ Switched(seat[o][u]) # Nil
                                    /\ Switched(seat[o][u]).version = seat[o][u].version + 1
  <2>1. CASE seat[o][u] = Nil
    BY <2>1 DEF Switched
  <2>2. CASE seat[o][u] # Nil
    <3>1. /\ seat[o][u] \in Seat /\ seat[o][u].version \in Nat /\ seat[o][u].version <= changes + 1
          /\ seat[o][u].version >= 1
      BY <2>2, SeatTypes, SessionAssumption DEF SessionInd, RowsTyped, StoredInv
    <3>2. PICK s : s = [seat[o][u] EXCEPT !.version = @ + 1]
      OBVIOUS
    <3>3. seat[o][u].version + 1 \in 1..(MaxChanges + 1)
      BY <1>1, <3>1, SessionAssumption DEF SessionInd, StoredInv
    <3>4. s \in Seat /\ s.version = seat[o][u].version + 1 /\ Switched(seat[o][u]) = s
      BY <2>2, <3>1, <3>2, <3>3 DEF Seat, Switched
    <3> QED BY <2>2, <3>4, SessionAssumption
  <2> QED BY <2>1, <2>2
<1>4. PICK f : f = [u \in Persons |-> Switched(seat[o][u])]
  OBVIOUS
<1>5. f \in [Persons -> Seat \cup {Nil}]
  BY <1>3, <1>4
<1>6. seat' \in [Orgs -> [Persons -> Seat \cup {Nil}]]
  BY <1>1, <1>4, <1>5 DEF SessionInd, StoredInv
<1>7. \A x \in Orgs : seat'[x] = IF x = o THEN f ELSE seat[x]
  BY <1>1, <1>4 DEF SessionInd, StoredInv
<1>8. ASSUME NEW x \in Orgs, NEW u \in Persons
      PROVE  \/ seat'[x][u] = seat[x][u] /\ (x \in open <=> x \in open')
             \/ seat[x][u] = Nil /\ (seat'[x][u] # Nil => seat'[x][u].version = 1)
             \/ /\ seat[x][u] # Nil /\ seat'[x][u] # Nil
                /\ seat'[x][u].version = seat[x][u].version + 1
  <2>1. CASE x = o
    <3>1. seat'[x][u] = Switched(seat[o][u])
      BY <1>4, <1>7, <2>1
    <3> QED BY <1>3, <2>1, <3>1
  <2>2. CASE x # o
    BY <1>2, <1>7, <2>2
  <2> QED BY <2>1, <2>2
<1> QED BY <1>1, <1>2, <1>6, <1>8, SeatStep

\* SetTenantMember: the membership is newer, or the first.
LEMMA ChangeSeatInd ==
    ASSUME SessionInd, NEW o \in Orgs, NEW u \in Persons, ChangeSeat(o, u)
    PROVE  SessionInd'
<1>1. PICK r \in Roles, a \in BOOLEAN : seat' = [seat EXCEPT ![o][u] =
             [role |-> r, active |-> a, expired |-> FALSE, version |-> IF @ = Nil THEN 1 ELSE @.version + 1]]
  BY DEF ChangeSeat
<1>2. changes < MaxChanges /\ changes' = changes + 1 /\ UNCHANGED <<account, open, client>>
  BY DEF ChangeSeat
<1>3. PICK s : s = [role |-> r, active |-> a, expired |-> FALSE,
                    version |-> IF seat[o][u] = Nil THEN 1 ELSE seat[o][u].version + 1]
  OBVIOUS
<1>4. (IF seat[o][u] = Nil THEN 1 ELSE seat[o][u].version + 1) \in 1..(MaxChanges + 1)
  <2>1. seat[o][u] # Nil => seat[o][u].version \in Nat /\ seat[o][u].version <= changes + 1
    BY SeatTypes DEF SessionInd, RowsTyped, StoredInv
  <2>2. changes \in Nat /\ MaxChanges \in Nat
    BY SessionAssumption DEF SessionInd, StoredInv
  <2> QED BY <1>2, <2>1, <2>2
<1>5. s \in Seat /\ s.version = IF seat[o][u] = Nil THEN 1 ELSE seat[o][u].version + 1
  BY <1>3, <1>4 DEF Seat
<1>6. PICK f : f = [seat[o] EXCEPT ![u] = s]
  OBVIOUS
<1>7. seat' = [seat EXCEPT ![o] = f] /\ f \in [Persons -> Seat \cup {Nil}]
      /\ \A v \in Persons : f[v] = IF v = u THEN s ELSE seat[o][v]
  BY <1>1, <1>3, <1>5, <1>6 DEF SessionInd, StoredInv
<1>8. seat' \in [Orgs -> [Persons -> Seat \cup {Nil}]] /\ open' \subseteq Orgs
      /\ \A x \in Orgs : seat'[x] = IF x = o THEN f ELSE seat[x]
  BY <1>2, <1>7 DEF SessionInd, StoredInv
<1>9. s # Nil
  BY <1>5, SessionAssumption
<1>10. ASSUME NEW x \in Orgs, NEW v \in Persons
       PROVE  \/ seat'[x][v] = seat[x][v] /\ (x \in open <=> x \in open')
              \/ seat[x][v] = Nil /\ (seat'[x][v] # Nil => seat'[x][v].version = 1)
              \/ /\ seat[x][v] # Nil /\ seat'[x][v] # Nil
                 /\ seat'[x][v].version = seat[x][v].version + 1
  <2>1. CASE x = o /\ v = u
    BY <1>5, <1>7, <1>8, <1>9, <2>1
  <2>2. CASE ~(x = o /\ v = u)
    BY <1>2, <1>7, <1>8, <2>2
  <2> QED BY <2>1, <2>2
<1> QED BY <1>2, <1>8, <1>10, SeatStep

\* The end of a support grant: the membership stops counting under its version.
LEMMA ExpireSeatInd ==
    ASSUME SessionInd, NEW o \in Orgs, NEW u \in Persons, ExpireSeat(o, u)
    PROVE  SessionInd'
<1>1. /\ seat[o][u] # Nil /\ seat' = [seat EXCEPT ![o][u].expired = TRUE]
      /\ UNCHANGED <<account, open, client, changes>>
  BY DEF ExpireSeat
<1>2. PICK s, f : s = [seat[o][u] EXCEPT !.expired = TRUE] /\ f = [seat[o] EXCEPT ![u] = s]
  OBVIOUS
<1>3. seat[o][u] \in Seat /\ seat \in [Orgs -> [Persons -> Seat \cup {Nil}]]
  BY <1>1 DEF SessionInd, StoredInv
<1>4. /\ s \in Seat /\ s.version = seat[o][u].version /\ s.role = seat[o][u].role /\ s.expired
      /\ s # Nil
  BY <1>2, <1>3, SessionAssumption DEF Seat
<1>5. seat' = [seat EXCEPT ![o] = f] /\ f \in [Persons -> Seat \cup {Nil}]
      /\ \A v \in Persons : f[v] = IF v = u THEN s ELSE seat[o][v]
  BY <1>1, <1>2, <1>3, <1>4
<1>6. seat' \in [Orgs -> [Persons -> Seat \cup {Nil}]]
      /\ \A x \in Orgs : seat'[x] = IF x = o THEN f ELSE seat[x]
  BY <1>3, <1>5
<1>7. ASSUME NEW x \in Orgs, NEW v \in Persons
      PROVE  \/ seat'[x][v] = seat[x][v]
             \/ x = o /\ v = u /\ seat'[x][v] = s
  BY <1>5, <1>6
<1>8. RowsTyped /\ StoredInv
  BY SeatTypes DEF SessionInd
<1>9. StoredInv'
  <2>1. \A x \in Orgs, v \in Persons : seat'[x][v] # Nil => seat'[x][v].version <= changes + 1
    BY <1>1, <1>4, <1>7, <1>8 DEF StoredInv
  <2> QED BY <1>1, <1>6, <1>8, <2>1 DEF StoredInv
<1>10. Grow
  <2>1. ASSUME NEW x \in Orgs, NEW v \in Persons, seat[x][v] # Nil
        PROVE  /\ seat'[x][v] # Nil
               /\ seat[x][v].version <= seat'[x][v].version
               /\ seat'[x][v].role = seat[x][v].role
               /\ Seated(x, v)' => Seated(x, v)
    <3>1. seat[x][v].version \in Nat
      BY <1>8, <2>1 DEF RowsTyped
    <3>2. CASE seat'[x][v] = seat[x][v]
      <4>1. Seated(x, v)' => Seated(x, v)
        BY Zenon, <1>1, <3>2 DEF Seated
      <4> QED BY <2>1, <3>1, <3>2, <4>1
    <3>3. CASE x = o /\ v = u /\ seat'[x][v] = s
      <4>1. ~Seated(x, v)'
        BY <1>4, <3>3 DEF Seated
      <4> QED BY <1>4, <3>1, <3>3, <4>1
    <3> QED BY <1>7, <3>2, <3>3
  <2> QED BY <1>1, <2>1 DEF Grow
<1> QED BY <1>1, <1>8, <1>9, <1>10, ClientsStay DEF SessionInd

-----------------------------------------------------------------------------
\* The invariant of the sessions.

\* At the start every version is the first one and nobody is signed in.
LEMMA SessionInitInd == SessionInit => SessionInd
<1> SUFFICES ASSUME SessionInit PROVE SessionInd
  OBVIOUS
<1>0. MaxChanges \in Nat /\ 0 \in 0..MaxChanges /\ 1 \in 1..(MaxChanges + 1)
  BY SessionAssumption
<1>1. ASSUME NEW u \in Persons, account[u] # Nil PROVE account[u] \in Account /\ account[u].version <= 0
  <2>1. PICK p \in Passwords, l \in BOOLEAN : account[u] = [password |-> p, legacy |-> l, version |-> 0]
    BY <1>1 DEF SessionInit
  <2> QED BY <1>0, <2>1 DEF Account
<1>2. account \in [Persons -> Account \cup {Nil}]
  <2>1. DOMAIN account = Persons /\ account = [u \in Persons |-> account[u]]
    BY DEF SessionInit
  <2> QED BY <1>1, <2>1
<1>3. PICK s : s = [role |-> "support", active |-> TRUE, expired |-> FALSE, version |-> 1]
  OBVIOUS
<1>4. s \in Seat /\ s.version = 1 /\ seat \in [Orgs -> [Persons -> {Nil, s}]]
  BY <1>0, <1>3, SessionAssumption DEF SessionInit, Seat
<1>5. \A o \in Orgs, u \in Persons : seat[o][u] \in {Nil, s}
  BY <1>4
<1>6. seat \in [Orgs -> [Persons -> Seat \cup {Nil}]]
  BY <1>4
<1>7. StoredInv
  BY <1>0, <1>1, <1>2, <1>4, <1>5, <1>6 DEF SessionInit, StoredInv
<1>8. ClientInv
  BY OutOK DEF SessionInit, ClientInv
<1> QED BY <1>7, <1>8 DEF SessionInd

\* Every step keeps it.
LEMMA SessionNextInd == SessionInd /\ [SessionNext]_sessionVars => SessionInd'
<1> SUFFICES ASSUME SessionInd, [SessionNext]_sessionVars PROVE SessionInd'
  OBVIOUS
<1>1. ASSUME NEW c \in Programs,
             \/ login(c) \/ UpgradeAdminPassword(c) \/ AdminTokenVersion(c) \/ EnsureUser(c)
             \/ DefaultTenantForUser(c) \/ MembershipExists(c) \/ UserTokenVersion(c)
             \/ signTokenForTenant(c)
      PROVE  SessionInd'
  BY <1>1, LoginInd, UpgradeInd, VersionInd, EnsureInd, DefaultInd, SignInd
<1>2. ASSUME NEW c \in Programs,
             \/ BeginRequest(c) \/ CheckVersion(c) \/ CheckNoTenant(c)
             \/ CheckOrg(c) \/ CheckRole(c) \/ switchTenant(c)
             \/ changePassword(c) \/ ChangeAdminPassword(c) \/ Abandon(c)
      PROVE  SessionInd'
  BY <1>2, RequestInd, SwitchTenantInd, PasswordInd, AbandonInd
<1>3. ASSUME NEW u \in Persons, RegisterUser(u) PROVE SessionInd'
  BY <1>3, RegisterInd
<1>4. ASSUME NEW o \in Orgs, SwitchOrg(o) PROVE SessionInd'
  BY <1>4, SwitchOrgInd
<1>5. ASSUME NEW o \in Orgs, NEW u \in Persons, ChangeSeat(o, u) \/ ExpireSeat(o, u) PROVE SessionInd'
  BY <1>5, ChangeSeatInd, ExpireSeatInd
<1>6. CASE UNCHANGED sessionVars
  <2>1. account' = account /\ seat' = seat /\ open' = open /\ client' = client /\ changes' = changes
    BY <1>6 DEF sessionVars
  <2>2. StoredInv /\ ClientInv /\ RowsTyped
    BY SeatTypes DEF SessionInd
  <2>3. StoredInv'
    BY <2>1, <2>2 DEF StoredInv
  <2>4. \A o \in Orgs, u \in Persons : seat[o][u] # Nil => seat[o][u].version <= seat[o][u].version
    BY <2>2 DEF RowsTyped
  <2>5. \A o \in Orgs, u \in Persons : Seated(o, u)' <=> Seated(o, u)
    BY Zenon, <2>1 DEF Seated
  <2>6. Grow
    BY <2>1, <2>4, <2>5 DEF Grow
  <2> QED BY <2>1, <2>2, <2>3, <2>6, ClientsStay
<1> QED BY <1>1, <1>2, <1>3, <1>4, <1>5, <1>6 DEF SessionNext

\* ... and so it always holds.
LEMMA SessionInductive == SessionSpec => []SessionInd
<1> QED BY SessionInitInd, SessionNextInd, PTL DEF SessionSpec

\* authRequired and the sign-ins of console and app, for any number of users, tenants
\* and programs: the claims of a token, read by several queries and checked by several
\* more, were all true at one moment, and version and role of a token go together.
THEOREM ClaimsAgreeAlways == SessionSpec => []ClaimsAgree
<1>1. ASSUME SessionInd PROVE ClaimsAgree
  <2>1. ASSUME NEW c \in Programs, client[c].pc \in {"in"} \cup RequestPcs
        PROVE  LET t == client[c].token IN
               /\ account[t.user] # Nil /\ t.ver \in 0..MaxChanges
               /\ t.org = Nil => t.orgVer = Nil /\ t.role = Nil /\ t.kind = "console"
               /\ t.org # Nil => t.orgVer \in 1..(MaxChanges + 1) /\ t.role \in Roles
               /\ t.org # Nil /\ seat[t.org][t.user].version = t.orgVer => seat[t.org][t.user].role = t.role
    <3>1. PICK o : o = client[c]
      OBVIOUS
    <3>2. ClientOK(o) /\ Held(o) /\ o.pc # "out"
      BY <1>1, <2>1, <3>1, ClientHas DEF Held, RequestPcs
    <3> QED BY <3>1, <3>2 DEF ClientOK, Names
  <2>2. ASSUME NEW c \in Programs, client[c].pc \in {"admitted", "store"} PROVE client[c].wasCurrent
    <3>1. ClientOK(client[c])
      BY <1>1, ClientHas
    <3> QED BY <2>2, <3>1 DEF ClientOK
  <2> QED BY <2>1, <2>2 DEF ClaimsAgree, SessionTypeOK, VersionNamesRole, AdmittedWasCurrent
<1> QED BY <1>1, SessionInductive, PTL

-----------------------------------------------------------------------------
\* Requests of the console (Tenancy).  What follows speaks of the record of a
\* request, so that it can be said of the one it has and the one it gets.

TxPcs == {"begin", "checked", "locked", "authorized", "looked"}
Ops == {"CreateTenant", "SetTenantActive", "SetTenantMember", "CreateFarm", "UpdateFarm", "DeleteFarm",
        "SetFarmOwner", "SetFarmMember", "CreatePond", "UpdatePond", "DeletePond"}
ClaimSet == [user : Users, tenant : Tenants \cup {None}, token : Nat,
             role : ROLE \cup {None}, version : Nat, epoch : Nat]
ReadySet == [pc : {"ready"}, claims : ClaimSet]
TxSet == [pc : TxPcs, claims : ClaimSet, op : Ops, start : 0..MaxNow,
          farm : Farms \cup {None}, owner : Users \cup {None}]
RequestSet == {Idle} \cup ReadySet \cup TxSet

\* A platform write, and the locks on the tenant and on the farm.
Platform(k) ==
    /\ k.pc \in TxPcs
    /\ \/ k.op \in {"CreateTenant", "SetTenantActive"}
       \/ k.op = "SetTenantMember" /\ k.claims.user \in Admins
LocksTenant(k, t) ==
    k.pc \in {"locked", "authorized", "looked"} /\ ~Platform(k) /\ k.claims.tenant = t
LocksAlone(k) == k.pc \in TxPcs /\ k.op = "SetTenantMember"
LocksFarm(k, f) == k.pc \in {"checked", "locked", "authorized"} /\ k.op = "SetFarmOwner" /\ k.farm = f

\* Where each operation passes, and what it knows of the farm there.
Shape(k) ==
    /\ k.pc # "idle" /\ k.claims.tenant = None => k.claims.user \in Admins
    /\ k.pc \in TxPcs =>
       /\ ~Platform(k) => k.claims.tenant \in Tenants
       /\ Platform(k) => k.pc \in {"begin", "authorized"}
       /\ k.pc = "checked" => k.op \in {"SetFarmOwner", "SetFarmMember"}
       /\ k.pc = "looked" => k.op \in {"DeleteFarm", "CreatePond"} /\ k.farm \in Farms
       /\ k.pc # "begin" /\ k.op \in {"SetFarmOwner", "SetFarmMember"} => k.farm \in Farms
       /\ k.pc # "begin" /\ k.op = "SetFarmMember" => k.owner \in Users

\* The membership of the claims: the row was written as often as its tenant and it
\* were since, and not at all under the locks.
GrantOK(k) ==
    k.pc # "idle" /\ k.claims.tenant # None =>
       LET t == k.claims.tenant
           m == member[t][k.claims.user]
           e == epoch[t][k.claims.user]
       IN /\ m # None /\ k.claims.epoch <= e
          /\ m.version + k.claims.epoch = k.claims.version + e
          /\ e = k.claims.epoch => m.role = k.claims.role
          /\ LocksTenant(k, t) => tenant[t] = "active"
          /\ LocksTenant(k, t) /\ k.pc # "locked" =>
                e = k.claims.epoch /\ m.active /\ k.claims.user \notin Admins

\* The password of a platform admin.
TokenOK(k) == k.pc = "authorized" /\ Platform(k) => token[k.claims.user] = k.claims.token

\* The farm a request has read is of its tenant, if it is still there.
FarmOK(k) ==
    /\ k.pc \in {"checked", "locked", "authorized"} /\ k.op = "SetFarmOwner" =>
          Exists(k.farm) /\ farm[k.farm].tenant = k.claims.tenant
    /\ \/ k.pc \in {"checked", "locked", "authorized"} /\ k.op = "SetFarmMember"
       \/ k.pc = "looked" /\ k.op = "CreatePond"
       => farm[k.farm] # None /\ (Exists(k.farm) => farm[k.farm].tenant = k.claims.tenant)

RequestOK(k) == Shape(k) /\ GrantOK(k) /\ TokenOK(k) /\ FarmOK(k)

\* Two requests at once.
Apart(j, k) ==
    /\ \A t \in Tenants : LocksTenant(j, t) /\ LocksTenant(k, t) => ~LocksAlone(j) /\ ~LocksAlone(k)
    /\ \A f \in Farms : ~(LocksFarm(j, f) /\ LocksFarm(k, f))

RowsOK ==
    /\ tenant \in [Tenants -> {"none", "active", "inactive"}]
    /\ member \in [Tenants -> [Users -> Membership \cup {None}]]
    /\ epoch \in [Tenants -> [Users -> Nat]]
    /\ token \in [Users -> Nat]
    /\ farm \in [Farms -> {None, Gone} \cup FarmRow]
    /\ grant \in [Farms -> [Users -> Grant \cup {None}]]
    /\ pond \in [Ponds -> {None, Gone} \cup Farms]
    /\ \A t \in Tenants, u \in Users : member[t][u] # None => Support(member[t][u])
    /\ \A f \in Farms, u \in Users : grant[f][u] # None => Support(grant[f][u])
    /\ NoOrphanPond
    /\ now \in 0..MaxNow

\* A request in flight may write a membership once more.
Flying == {c \in Clients : req[c].pc # "idle"}
CountOK ==
    /\ Cardinality(Flying) <= spent
    /\ spent \in 0..MaxRequests
    /\ \A t \in Tenants, u \in Users :
          member[t][u] # None => member[t][u].version + Cardinality(Flying) <= spent + 1

TenancyInd ==
    /\ RowsOK
    /\ req \in [Clients -> RequestSet]
    /\ \A c \in Clients : RequestOK(req[c])
    /\ \A c, d \in Clients : c # d => Apart(req[c], req[d])
    /\ CountOK

-----------------------------------------------------------------------------
\* The records and the locks.

\* A request is idle, ready or in its transaction, and its place says which.
LEMMA Places ==
    ASSUME NEW k \in RequestSet
    PROVE  /\ k.pc = "idle" => k = Idle
           /\ k.pc = "ready" => k \in ReadySet /\ k.claims \in ClaimSet
           /\ k.pc \in TxPcs => k \in TxSet /\ k.claims \in ClaimSet
           /\ k.pc \in {"idle", "ready"} \cup TxPcs
<1>1. CASE k = Idle
  BY <1>1 DEF Idle, TxPcs
<1>2. CASE k \in ReadySet
  BY <1>2 DEF ReadySet, TxPcs
<1>3. CASE k \in TxSet
  BY <1>3 DEF TxSet, TxPcs
<1> QED BY <1>1, <1>2, <1>3 DEF RequestSet

\* What the definitions of the module say of a request, said of its record.
LEMMA OfRecord ==
    ASSUME NEW c
    PROVE  /\ InTx(c) <=> req[c].pc \in TxPcs
           /\ ByPlatform(c) <=> Platform(req[c])
           /\ Exclusive(c) <=> LocksAlone(req[c])
           /\ \A t : HoldsTenant(c, t) <=> LocksTenant(req[c], t)
           /\ \A f : HoldsFarm(c, f) <=> LocksFarm(req[c], f)
<1>1. InTx(c) <=> req[c].pc \in TxPcs
  BY DEF InTx, TxPcs
<1>2. ByPlatform(c) <=> Platform(req[c])
  BY <1>1 DEF ByPlatform, Platform, Runs, IsPlatform
<1>3. Exclusive(c) <=> LocksAlone(req[c])
  BY <1>1 DEF Exclusive, LocksAlone, Runs
<1>4. \A t : HoldsTenant(c, t) <=> LocksTenant(req[c], t)
  BY <1>2 DEF HoldsTenant, LocksTenant, Past, Claims
<1>5. \A f : HoldsFarm(c, f) <=> LocksFarm(req[c], f)
  BY <1>1 DEF HoldsFarm, LocksFarm, Runs, TxPcs
<1> QED BY <1>1, <1>2, <1>3, <1>4, <1>5

\* A request in no transaction holds and knows nothing.
LEMMA IdleOK ==
    /\ Idle \in RequestSet /\ RequestOK(Idle) /\ Idle.pc = "idle"
    /\ \A k : Apart(Idle, k) /\ Apart(k, Idle)
<1>1. Idle \in RequestSet /\ Idle.pc = "idle" /\ Idle.pc \notin TxPcs
  BY DEF RequestSet, Idle, TxPcs
<1>2. Shape(Idle) /\ GrantOK(Idle) /\ TokenOK(Idle) /\ FarmOK(Idle)
  BY <1>1 DEF Shape, GrantOK, TokenOK, FarmOK
<1>3. \A k : Apart(Idle, k) /\ Apart(k, Idle)
  BY <1>1 DEF Apart, LocksTenant, LocksFarm
<1> QED BY <1>1, <1>2, <1>3 DEF RequestOK

\* The invariant, of one request and of two.
LEMMA RequestHas ==
    ASSUME TenancyInd, NEW c \in Clients
    PROVE  /\ req[c] \in RequestSet /\ RequestOK(req[c])
           /\ \A d \in Clients : d # c => Apart(req[c], req[d]) /\ Apart(req[d], req[c])
  BY DEF TenancyInd

-----------------------------------------------------------------------------
\* Counting the requests in flight.

\* ... a finite set of them.
LEMMA FlyingType ==
    /\ IsFiniteSet(Flying) /\ Flying \subseteq Clients /\ Cardinality(Flying) \in Nat
<1>1. Flying \subseteq Clients
  BY DEF Flying
<1>2. IsFiniteSet(Flying)
  BY <1>1, FS_Subset, TenancyAssumption
<1> QED BY <1>1, <1>2, FS_CardinalityType

\* How it changes with the place of one request.
LEMMA FlyingStep ==
    ASSUME req \in [Clients -> RequestSet], NEW c \in Clients, NEW k,
           req' = [req EXCEPT ![c] = k]
    PROVE  /\ Cardinality(Flying') \in Nat
           /\ (req[c].pc # "idle") = (k.pc # "idle") => Cardinality(Flying') = Cardinality(Flying)
           /\ req[c].pc = "idle" /\ k.pc # "idle" => Cardinality(Flying') = Cardinality(Flying) + 1
           /\ req[c].pc # "idle" /\ k.pc = "idle" => Cardinality(Flying') = Cardinality(Flying) - 1
<1>0. \A d \in Clients : req'[d] = IF d = c THEN k ELSE req[d]
  OBVIOUS
<1>1. IsFiniteSet(Flying) /\ Cardinality(Flying) \in Nat
  BY FlyingType
<1>2. ASSUME (req[c].pc # "idle") = (k.pc # "idle") PROVE Flying' = Flying
  BY <1>0, <1>2 DEF Flying
<1>3. ASSUME req[c].pc = "idle", k.pc # "idle"
      PROVE  Flying' = Flying \cup {c} /\ c \notin Flying
  BY <1>0, <1>3 DEF Flying
<1>4. ASSUME req[c].pc # "idle", k.pc = "idle"
      PROVE  Flying' = Flying \ {c} /\ c \in Flying
  BY <1>0, <1>4 DEF Flying
<1>5. ASSUME req[c].pc = "idle", k.pc # "idle"
      PROVE  Cardinality(Flying') = Cardinality(Flying) + 1
  BY <1>1, <1>3, <1>5, FS_AddElement
<1>6. ASSUME req[c].pc # "idle", k.pc = "idle"
      PROVE  Cardinality(Flying') = Cardinality(Flying) - 1
  BY <1>1, <1>4, <1>6, FS_RemoveElement
<1>7. Cardinality(Flying') \in Nat
  <2>1. \/ (req[c].pc # "idle") = (k.pc # "idle")
        \/ req[c].pc = "idle" /\ k.pc # "idle"
        \/ req[c].pc # "idle" /\ k.pc = "idle"
    OBVIOUS
  <2>2. CASE req[c].pc # "idle" /\ k.pc = "idle"
    <3>1. IsFiniteSet(Flying')
      BY <1>1, <1>4, <2>2, FS_RemoveElement
    <3> QED BY <3>1, FS_CardinalityType
  <2> QED BY <1>1, <1>2, <1>5, <2>1, <2>2
<1> QED BY <1>1, <1>2, <1>5, <1>6, <1>7

-----------------------------------------------------------------------------
\* Steps of a request.

\* The request gets the record k, the rest of the invariant being kept.
LEMMA StepTo ==
    ASSUME TenancyInd, RowsOK', CountOK', NEW c \in Clients, NEW k \in RequestSet,
           req' = [req EXCEPT ![c] = k], RequestOK(k)',
           \A d \in Clients \ {c} : \A j : j = req[d] => RequestOK(j)',
           \A d \in Clients \ {c} : Apart(k, req[d]) /\ Apart(req[d], k)
    PROVE  TenancyInd'
<1>1. req \in [Clients -> RequestSet] /\ req' \in [Clients -> RequestSet]
  BY DEF TenancyInd
<1>2. \A d \in Clients : req'[d] = IF d = c THEN k ELSE req[d]
  BY <1>1
<1>3. ASSUME NEW d \in Clients PROVE RequestOK(req[d])'
  <2>1. PICK j : j = req'[d]
    OBVIOUS
  <2>2. RequestOK(j)'
    BY <1>2, <2>1
  <2>3. Shape(req[d])'
    BY <2>1, <2>2 DEF RequestOK, Shape, Platform
  <2>4. GrantOK(req[d])'
    BY <2>1, <2>2 DEF RequestOK, GrantOK, LocksTenant, Platform
  <2>5. TokenOK(req[d])' /\ FarmOK(req[d])'
    BY <2>1, <2>2 DEF RequestOK, TokenOK, FarmOK, Exists, Platform
  <2> QED BY <2>3, <2>4, <2>5 DEF RequestOK
<1>4. ASSUME NEW d \in Clients, NEW e \in Clients, d # e PROVE Apart(req[d], req[e])'
  <2>1. Apart(req'[d], req'[e])
    BY <1>2, <1>4 DEF TenancyInd
  <2> QED BY <2>1 DEF Apart, LocksTenant, LocksAlone, LocksFarm, Platform
<1> QED BY <1>1, <1>3, <1>4 DEF TenancyInd

\* The rows stay, and time.
LEMMA RowsStay == RowsOK /\ UNCHANGED <<rows, now>> => RowsOK'
  BY DEF RowsOK, rows, NoOrphanPond, Exists, Support

\* What a request knows stays true.
LEMMA RequestStays ==
    ASSUME UNCHANGED rows, NEW k, RequestOK(k)
    PROVE  RequestOK(k)'
  BY DEF RequestOK, Shape, GrantOK, TokenOK, FarmOK, rows, Exists

\* A step within a request that writes nothing.
LEMMA WithinStep ==
    ASSUME TenancyInd, NEW c \in Clients, NEW k \in RequestSet,
           req' = [req EXCEPT ![c] = k], UNCHANGED <<rows, now, spent>>,
           req[c].pc # "idle", k.pc # "idle", RequestOK(k),
           \A d \in Clients \ {c} : Apart(k, req[d]) /\ Apart(req[d], k)
    PROVE  TenancyInd'
<1>1. RowsOK'
  BY RowsStay DEF TenancyInd
<1>2. Cardinality(Flying') = Cardinality(Flying)
  BY FlyingStep DEF TenancyInd
<1>3. CountOK'
  <2>1. member' = member /\ spent' = spent
    BY DEF rows
  <2> QED BY <1>2, <2>1 DEF TenancyInd, CountOK
<1>4. RequestOK(k)'
  BY RequestStays
<1>5. \A d \in Clients \ {c} : \A j : j = req[d] => RequestOK(j)'
  BY RequestHas, RequestStays
<1> QED BY <1>1, <1>3, <1>4, <1>5, StepTo

\* The request ends and its transaction has written what keeps the rows: those of
\* the memberships at most once.
LEMMA EndStep ==
    ASSUME TenancyInd, RowsOK', NEW c \in Clients, req[c].pc # "idle", Done(c), spent' = spent,
           \A t \in Tenants, u \in Users : member'[t][u] # None =>
              \/ member[t][u] = None /\ member'[t][u].version = 1
              \/ member[t][u] # None /\ member'[t][u].version <= member[t][u].version + 1,
           \A d \in Clients \ {c} : \A j : j = req[d] => RequestOK(j)'
    PROVE  TenancyInd'
<1>1. req' = [req EXCEPT ![c] = Idle] /\ req \in [Clients -> RequestSet]
  BY DEF Done, TenancyInd
<1>2. Idle.pc = "idle" /\ Idle \in RequestSet
  BY IdleOK
<1>3. /\ Cardinality(Flying') = Cardinality(Flying) - 1 /\ Cardinality(Flying) \in Nat
      /\ Cardinality(Flying') \in Nat
  BY <1>1, <1>2, FlyingStep, FlyingType
<1>4. CountOK'
  <2>1. Cardinality(Flying) <= spent /\ spent \in 0..MaxRequests /\ MaxRequests \in Nat
    BY TenancyAssumption DEF TenancyInd, CountOK
  <2>2. ASSUME NEW t \in Tenants, NEW u \in Users, member'[t][u] # None
        PROVE  member'[t][u].version + Cardinality(Flying') <= spent + 1
    <3>0. member'[t][u].version \in Nat
      <4>1. member'[t][u] \in Membership
        BY <2>2 DEF RowsOK
      <4> QED BY <2>1, <4>1 DEF Membership
    <3>1. CASE member[t][u] = None
      BY <1>3, <2>1, <2>2, <3>1
    <3>2. CASE member[t][u] # None
      <4>1. member[t][u] \in Membership
        BY <2>2, <3>2 DEF TenancyInd, RowsOK
      <4>2. member[t][u].version \in Nat
        BY <2>1, <4>1 DEF Membership
      <4>3. member[t][u].version + Cardinality(Flying) <= spent + 1
        BY <3>2 DEF TenancyInd, CountOK
      <4>4. member'[t][u].version <= member[t][u].version + 1
        BY <2>2, <3>2
      <4> QED BY <1>3, <2>1, <3>0, <4>2, <4>3, <4>4
    <3> QED BY <3>1, <3>2
  <2> QED BY <1>3, <2>1, <2>2 DEF CountOK
<1>5. RequestOK(Idle)'
  BY IdleOK, PTL
<1>6. \A d \in Clients \ {c} : Apart(Idle, req[d]) /\ Apart(req[d], Idle)
  BY IdleOK
<1> QED BY <1>1, <1>2, <1>4, <1>5, <1>6, StepTo

\* A request ends without a write.
LEMMA FailStep ==
    ASSUME TenancyInd, NEW c \in Clients, req[c].pc # "idle", Fail(c)
    PROVE  TenancyInd'
<1>1. Done(c) /\ UNCHANGED <<rows, now, spent>>
  BY DEF Fail
<1>2. RowsOK'
  BY <1>1, RowsStay DEF TenancyInd
<1>3. ASSUME NEW t \in Tenants, NEW u \in Users, member[t][u] # None
      PROVE  member'[t][u] # None /\ member'[t][u].version <= member[t][u].version + 1
  <2>1. member[t][u] \in Membership /\ member' = member
    BY <1>1, <1>3 DEF TenancyInd, RowsOK, rows
  <2>2. member[t][u].version \in Nat
    BY <2>1, TenancyAssumption DEF Membership
  <2> QED BY <1>3, <2>1, <2>2
<1>4. member' = member
  BY <1>1 DEF rows
<1>5. \A d \in Clients \ {c} : \A j : j = req[d] => RequestOK(j)'
  BY <1>1, RequestHas, RequestStays
<1> QED BY <1>1, <1>2, <1>3, <1>4, <1>5, EndStep

\* A request is admitted.
LEMMA ArriveInd ==
    ASSUME TenancyInd, NEW c \in Clients, Arrive(c)
    PROVE  TenancyInd'
<1>1. PICK u \in Users, t \in Tenants \cup {None} :
        /\ IF t = None
             THEN u \in Admins /\ \A x \in Tenants : ~LiveMember(x, u, now)
             ELSE LiveMember(t, u, now)
        /\ req' = [req EXCEPT ![c] =
             [pc |-> "ready",
              claims |-> [user |-> u, tenant |-> t, token |-> token[u],
                          role |-> IF t = None THEN None ELSE member[t][u].role,
                          version |-> IF t = None THEN 0 ELSE member[t][u].version,
                          epoch |-> IF t = None THEN 0 ELSE epoch[t][u]]]]
  BY DEF Arrive
<1>2. PICK q, k :
        /\ q = [user |-> u, tenant |-> t, token |-> token[u],
                role |-> IF t = None THEN None ELSE member[t][u].role,
                version |-> IF t = None THEN 0 ELSE member[t][u].version,
                epoch |-> IF t = None THEN 0 ELSE epoch[t][u]]
        /\ k = [pc |-> "ready", claims |-> q]
  OBVIOUS
<1>3. req[c] = Idle /\ spent < MaxRequests /\ spent' = spent + 1 /\ UNCHANGED <<rows, now>>
      /\ req' = [req EXCEPT ![c] = k]
  BY <1>1, <1>2 DEF Arrive
<1>4. ASSUME t # None
      PROVE  /\ member[t][u] \in Membership /\ member[t][u] # None /\ epoch[t][u] \in Nat
             /\ member[t][u].role \in ROLE /\ member[t][u].version \in Nat
  <2>1. member[t][u] # None
    BY <1>1, <1>4 DEF LiveMember, Unexpired
  <2>2. member[t][u] \in Membership /\ epoch[t][u] \in Nat
    BY <1>4, <2>1 DEF TenancyInd, RowsOK
  <2> QED BY <2>1, <2>2, TenancyAssumption DEF Membership
<1>5. q \in ClaimSet
  <2>1. token[u] \in Nat
    BY DEF TenancyInd, RowsOK
  <2> QED BY <1>2, <1>4, <2>1 DEF ClaimSet
<1>6. k \in RequestSet /\ k.pc = "ready" /\ k.claims = q
  BY <1>2, <1>5 DEF RequestSet, ReadySet
<1>7. k.pc \notin TxPcs /\ q.user = u /\ q.tenant = t
  BY <1>2, <1>6 DEF TxPcs
<1>8. RequestOK(k)
  <2>1. Shape(k)
    BY <1>1, <1>6, <1>7 DEF Shape
  <2>2. GrantOK(k)
    BY <1>2, <1>4, <1>6, <1>7 DEF GrantOK, LocksTenant
  <2> QED BY <1>6, <2>1, <2>2 DEF RequestOK, TokenOK, FarmOK
<1>9. \A d \in Clients \ {c} : Apart(k, req[d]) /\ Apart(req[d], k)
  BY <1>6 DEF Apart, LocksTenant, LocksFarm
<1>10. CountOK'
  <2>1. Cardinality(Flying') = Cardinality(Flying) + 1 /\ Cardinality(Flying) \in Nat
    BY <1>3, <1>6, IdleOK, FlyingStep, FlyingType DEF TenancyInd
  <2>2. Cardinality(Flying) <= spent /\ spent \in 0..MaxRequests /\ MaxRequests \in Nat /\ member' = member
    BY <1>3, TenancyAssumption DEF TenancyInd, CountOK, rows
  <2>3. ASSUME NEW x \in Tenants, NEW y \in Users, member[x][y] # None
        PROVE  member[x][y].version + Cardinality(Flying') <= (spent + 1) + 1
    <3>1. member[x][y] \in Membership
      BY <2>3 DEF TenancyInd, RowsOK
    <3>2. member[x][y].version \in Nat
      BY <2>2, <3>1 DEF Membership
    <3>3. member[x][y].version + Cardinality(Flying) <= spent + 1
      BY <2>3 DEF TenancyInd, CountOK
    <3> QED BY <2>1, <2>2, <3>2, <3>3
  <2>4. \A x \in Tenants, y \in Users :
          member'[x][y] # None => member'[x][y].version + Cardinality(Flying') <= spent' + 1
    BY <1>3, <2>2, <2>3
  <2>5. Cardinality(Flying') <= spent' /\ spent' \in 0..MaxRequests
    BY <1>3, <2>1, <2>2
  <2> QED BY <2>4, <2>5 DEF CountOK
<1>11. RowsOK' /\ RequestOK(k)' /\ \A d \in Clients \ {c} : \A j : j = req[d] => RequestOK(j)'
  BY <1>3, <1>8, RowsStay, RequestHas, RequestStays DEF TenancyInd
<1> QED BY <1>3, <1>6, <1>9, <1>10, <1>11, StepTo

\* What is known of the grant does not depend on where the request is, without locks.
LEMMA GrantKept ==
    ASSUME NEW j, NEW k, GrantOK(j), j.pc # "idle", k.claims = j.claims,
           k.pc \notin {"locked", "authorized", "looked"} \/ Platform(k)
    PROVE  GrantOK(k)
  BY DEF GrantOK, LocksTenant

\* A handler begins its transaction.
LEMMA SubmitInd ==
    ASSUME TenancyInd, NEW c \in Clients, NEW op \in Ops, Submit(c, op),
           \/ op \in {"CreateTenant", "SetTenantActive"}
           \/ op = "SetTenantMember"
           \/ req[c].claims.tenant # None
    PROVE  TenancyInd'
<1>1. PICK j, k : j = req[c] /\ k = [pc |-> "begin", claims |-> j.claims, op |-> op,
                                     start |-> now, farm |-> None, owner |-> None]
  OBVIOUS
<1>2. j.pc = "ready" /\ req' = [req EXCEPT ![c] = k] /\ UNCHANGED <<rows, now, spent>>
  BY <1>1 DEF Submit
<1>3. j \in RequestSet /\ RequestOK(j) /\ j.claims \in ClaimSet
  BY <1>1, <1>2, RequestHas, Places
<1>4. k \in TxSet /\ k \in RequestSet /\ k.pc = "begin" /\ k.op = op /\ k.claims = j.claims
  BY <1>1, <1>3 DEF RequestSet, TxSet, TxPcs, TenancyInd, RowsOK
<1>5. RequestOK(k)
  <2>1. Shape(k)
    <3>1. j.claims.tenant \in Tenants \cup {None} /\ (j.claims.tenant = None => j.claims.user \in Admins)
      BY <1>2, <1>3 DEF RequestOK, Shape, ClaimSet
    <3>2. ~Platform(k) => j.claims.tenant \in Tenants
      BY <1>1, <1>4, <3>1 DEF Platform, TxPcs
    <3> QED BY <1>4, <3>1, <3>2 DEF Shape
  <2>2. GrantOK(k)
    BY <1>2, <1>3, <1>4, GrantKept DEF RequestOK
  <2> QED BY <1>4, <2>1, <2>2 DEF RequestOK, TokenOK, FarmOK
<1>6. \A d \in Clients \ {c} : Apart(k, req[d]) /\ Apart(req[d], k)
  BY <1>4 DEF Apart, LocksTenant, LocksFarm
<1> QED BY <1>1, <1>2, <1>4, <1>5, <1>6, WithinStep

\* The handlers.
LEMMA HandlerInd ==
    ASSUME TenancyInd, NEW c \in Clients,
           \/ createTenant(c) \/ setTenantStatus(c) \/ setTenantMember(c)
           \/ createFarm(c) \/ updateFarm(c) \/ deleteFarm(c) \/ setFarmOwner(c) \/ setFarmMember(c)
           \/ createPond(c) \/ updatePond(c) \/ deletePond(c)
    PROVE  TenancyInd'
<1>1. CASE createTenant(c) \/ setTenantStatus(c) \/ setTenantMember(c)
  BY <1>1, SubmitInd DEF createTenant, setTenantStatus, setTenantMember, Ops
<1>2. CASE createFarm(c) \/ updateFarm(c) \/ deleteFarm(c) \/ setFarmOwner(c)
  BY <1>2, SubmitInd DEF createFarm, updateFarm, deleteFarm, setFarmOwner, tenantRequired, Ops
<1>3. CASE setFarmMember(c) \/ createPond(c) \/ updatePond(c) \/ deletePond(c)
  BY <1>3, SubmitInd DEF setFarmMember, createPond, updatePond, deletePond, tenantRequired, Ops
<1> QED BY <1>1, <1>2, <1>3

\* A request in its transaction is the record of one.
LEMMA TxHas ==
    ASSUME TenancyInd, NEW c \in Clients, req[c].pc \in TxPcs
    PROVE  /\ req[c] \in TxSet /\ req[c].claims \in ClaimSet /\ RequestOK(req[c]) /\ Shape(req[c])
           /\ req[c].pc # "idle" /\ GrantOK(req[c])
  BY RequestHas, Places DEF RequestOK, TxPcs

\* The reads before a write of a farm's owner or members.
LEMMA PrecheckInd ==
    ASSUME TenancyInd, NEW c \in Clients, PrecheckOwner(c) \/ PrecheckMember(c)
    PROVE  TenancyInd'
<1>1. req[c].pc = "begin" /\ req[c].op \in {"SetFarmOwner", "SetFarmMember"} /\ req[c].pc \in TxPcs
  BY DEF PrecheckOwner, PrecheckMember, At, TxPcs
<1>2. CASE Fail(c)
  BY <1>1, <1>2, FailStep
<1>3. CASE ~Fail(c)
  <2>1. PICK f \in Farms, o \in Users \cup {None} :
          /\ InTenant(c, f) /\ With(c, "checked", f, o)
          /\ req[c].op = "SetFarmOwner" => Free(c, {d \in Clients : HoldsFarm(d, f)})
          /\ req[c].op = "SetFarmMember" => o \in Users
    BY <1>1, <1>3 DEF PrecheckOwner, PrecheckMember, At
  <2>2. PICK j, k : j = req[c] /\ k = [j EXCEPT !.pc = "checked", !.farm = f, !.owner = o]
    OBVIOUS
  <2>3. j \in TxSet /\ RequestOK(j) /\ j.pc = "begin" /\ j.op \in {"SetFarmOwner", "SetFarmMember"}
    BY <1>1, <2>2, TxHas
  <2>4. req' = [req EXCEPT ![c] = k] /\ UNCHANGED <<rows, now, spent>>
    BY <2>1, <2>2 DEF With, TenancyInd
  <2>5. /\ k \in TxSet /\ k \in RequestSet /\ k.pc = "checked" /\ k.op = j.op /\ k.claims = j.claims
        /\ k.farm = f /\ k.owner = o
    BY <2>2, <2>3 DEF RequestSet, TxSet, TxPcs
  <2>6. ~Platform(k) /\ ~Platform(j)
    BY <2>3, <2>5 DEF Platform
  <2>7. RequestOK(k)
    <3>1. Shape(k)
      BY <2>1, <2>2, <2>3, <2>5, <2>6 DEF RequestOK, Shape, TxPcs
    <3>2. GrantOK(k)
      BY <2>3, <2>5, GrantKept DEF RequestOK
    <3>3. FarmOK(k)
      <4>1. Exists(f) /\ farm[f].tenant = k.claims.tenant /\ farm[f] # None
        BY <2>1, <2>2, <2>5 DEF InTenant, Claims, Exists
      <4> QED BY <2>5, <4>1 DEF FarmOK
    <3> QED BY <2>5, <3>1, <3>2, <3>3 DEF RequestOK, TokenOK
  <2>8. \A d \in Clients \ {c} : Apart(k, req[d]) /\ Apart(req[d], k)
    <3>1. ASSUME NEW d \in Clients \ {c}, k.op = "SetFarmOwner" PROVE ~LocksFarm(req[d], f)
      BY <2>1, <2>2, <2>5, <3>1, OfRecord DEF Free
    <3> QED BY <2>5, <3>1 DEF Apart, LocksTenant, LocksFarm
  <2> QED BY <1>1, <2>4, <2>5, <2>7, <2>8, WithinStep
<1> QED BY <1>2, <1>3

\* authorizeTenantWrite locks the tenant.
LEMMA LockTenantInd ==
    ASSUME TenancyInd, NEW c \in Clients, LockTenant(c)
    PROVE  TenancyInd'
<1>1. /\ req[c].pc \in TxPcs /\ ~Platform(req[c]) /\ Blockers(c) = {}
      /\ req[c].pc = IF req[c].op \in {"SetFarmOwner", "SetFarmMember"} THEN "checked" ELSE "begin"
  BY OfRecord DEF LockTenant, Runs
<1>2. CASE tenant[Claims(c).tenant] # "active"
  BY <1>1, <1>2, TxHas, FailStep DEF LockTenant
<1>3. CASE tenant[Claims(c).tenant] = "active"
  <2>1. PICK j, k : j = req[c] /\ k = [j EXCEPT !.pc = "locked"]
    OBVIOUS
  <2>2. j \in TxSet /\ RequestOK(j) /\ j.pc # "idle"
    BY <1>1, <2>1, TxHas
  <2>3. req' = [req EXCEPT ![c] = k] /\ UNCHANGED <<rows, now, spent>>
    BY <1>3, <2>1 DEF LockTenant, Goto, TenancyInd
  <2>4. /\ k \in TxSet /\ k \in RequestSet /\ k.pc = "locked" /\ k.op = j.op /\ k.claims = j.claims
        /\ k.farm = j.farm /\ k.owner = j.owner
    BY <2>1, <2>2 DEF RequestSet, TxSet, TxPcs
  <2>5. ~Platform(k) /\ ~Platform(j) /\ j.pc \in TxPcs /\ k.pc \in TxPcs
    BY <1>1, <2>1, <2>4 DEF Platform, TxPcs
  <2>6. RequestOK(k)
    <3>1. Shape(k)
      BY <1>1, <2>1, <2>2, <2>4, <2>5 DEF RequestOK, Shape
    <3>2. GrantOK(k)
      <4>1. tenant[k.claims.tenant] = "active"
        BY <1>3, <2>1, <2>4 DEF Claims
      <4>2. GrantOK(j)
        BY <2>2 DEF RequestOK
      <4> QED BY <2>2, <2>4, <4>1, <4>2 DEF GrantOK
    <3>3. FarmOK(k)
      <4>1. k.op \in {"SetFarmOwner", "SetFarmMember"} => j.pc = "checked"
        BY <1>1, <2>1, <2>4
      <4> QED BY <2>2, <2>4, <4>1 DEF RequestOK, FarmOK
    <3> QED BY <2>4, <3>1, <3>2, <3>3 DEF RequestOK, TokenOK
  <2>7. ASSUME NEW d \in Clients \ {c} PROVE Apart(k, req[d]) /\ Apart(req[d], k)
    <3>1. Apart(j, req[d]) /\ Apart(req[d], j)
      BY <2>1, RequestHas
    <3>2. ASSUME NEW t \in Tenants, LocksTenant(k, t), LocksTenant(req[d], t)
          PROVE  ~LocksAlone(k) /\ ~LocksAlone(req[d])
      <4>1. Past(c, {"begin", "checked"}) /\ Claims(c).tenant = t /\ HoldsTenant(d, t)
        BY <1>1, <2>1, <2>4, <3>2, OfRecord DEF Past, Claims, LocksTenant
      <4>2. Runs(c, {"SetFarmOwner", "SetFarmMember"}) => req[c].pc = "checked"
        BY <1>1 DEF Runs
      <4>3. ~Exclusive(c) /\ ~Exclusive(d)
        BY <1>1, <4>1, <4>2 DEF Blockers
      <4>4. ~LocksAlone(j) /\ ~LocksAlone(req[d])
        BY <2>1, <4>3, OfRecord
      <4> QED BY <2>4, <2>5, <4>4 DEF LocksAlone
    <3>3. \A f \in Farms : LocksFarm(k, f) => LocksFarm(j, f)
      BY <1>1, <2>1, <2>4 DEF LocksFarm
    <3> QED BY <3>1, <3>2, <3>3 DEF Apart
  <2> QED BY <2>1, <2>2, <2>3, <2>4, <2>5, <2>6, <2>7, WithinStep DEF TxPcs
<1> QED BY <1>2, <1>3

\* The policy gives a support grant no right to write.
LEMMA SupportReads == \A x : ~Allow("support", x, "write")
  BY DEF Allow

\* authorizeTenantWrite locks the membership and compares it with the claims.
LEMMA AuthorizeTenantInd ==
    ASSUME TenancyInd, NEW c \in Clients, AuthorizeTenantWrite(c)
    PROVE  TenancyInd'
<1>1. req[c].pc = "locked" /\ req[c].pc \in TxPcs
  BY DEF AuthorizeTenantWrite, TxPcs
<1>2. CASE Fail(c)
  BY <1>1, <1>2, TxHas, FailStep
<1>3. CASE ~Fail(c)
  <2>1. PICK m : m = member[Claims(c).tenant][Claims(c).user]
    OBVIOUS
  <2>2. /\ Unexpired(m, req[c].start)
        /\ Claims(c).user \in Admins => m.role = "support"
        /\ SameGrant(c, m) /\ Allow(m.role, Resource(c), "write")
        /\ IF Runs(c, {"CreateFarm"})
             THEN \E o \in Users \cup {None} : With(c, "authorized", None, o)
             ELSE Goto(c, "authorized")
    BY <1>3, <2>1 DEF AuthorizeTenantWrite
  <2>3. PICK j : j = req[c]
    OBVIOUS
  <2>4. j \in TxSet /\ RequestOK(j) /\ j.pc = "locked" /\ j.claims \in ClaimSet
    BY <1>1, <2>3, TxHas
  <2>5. PICK k, o : /\ req' = [req EXCEPT ![c] = k] /\ o \in Users \cup {None}
                    /\ \/ k = [j EXCEPT !.pc = "authorized"]
                       \/ /\ j.op = "CreateFarm"
                          /\ k = [j EXCEPT !.pc = "authorized", !.farm = None, !.owner = o]
    <3>1. CASE Runs(c, {"CreateFarm"})
      <4>1. PICK o \in Users \cup {None} : With(c, "authorized", None, o)
        BY <2>2, <3>1
      <4>2. PICK k : k = [j EXCEPT !.pc = "authorized", !.farm = None, !.owner = o]
        OBVIOUS
      <4>3. req' = [req EXCEPT ![c] = k] /\ j.op = "CreateFarm"
        BY <2>3, <3>1, <4>1, <4>2 DEF With, Runs, TenancyInd
      <4> QED BY <4>2, <4>3
    <3>2. CASE ~Runs(c, {"CreateFarm"})
      <4>1. PICK k : k = [j EXCEPT !.pc = "authorized"]
        OBVIOUS
      <4>2. req' = [req EXCEPT ![c] = k]
        BY <2>2, <2>3, <3>2, <4>1 DEF Goto, TenancyInd
      <4> QED BY <4>1, <4>2
    <3> QED BY <3>1, <3>2
  <2>6. UNCHANGED <<rows, now, spent>>
    BY <2>2 DEF With, Goto
  <2>7. /\ k \in TxSet /\ k \in RequestSet /\ k.pc = "authorized" /\ k.op = j.op /\ k.claims = j.claims
        /\ k.op # "CreateFarm" => k.farm = j.farm /\ k.owner = j.owner
    BY <2>4, <2>5 DEF RequestSet, TxSet, TxPcs
  <2>8. ~Platform(k) /\ ~Platform(j) /\ j.claims.tenant \in Tenants
    BY <2>4, <2>7 DEF RequestOK, Shape, Platform, TxPcs
  <2>9. RequestOK(k)
    <3>1. Shape(k)
      BY <2>4, <2>7, <2>8 DEF RequestOK, Shape, TxPcs
    <3>2. GrantOK(k)
      <4>1. PICK e : e = epoch[j.claims.tenant][j.claims.user]
        OBVIOUS
      <4>2. j.claims.user \in Users /\ {j.claims.version, j.claims.epoch} \subseteq Nat
            /\ j.claims.tenant # None
        BY <2>4, <2>8, TenancyAssumption DEF ClaimSet
      <4>3. e \in Nat
        BY <2>8, <4>1, <4>2 DEF TenancyInd, RowsOK
      <4>4. /\ m # None /\ j.claims.epoch <= e
            /\ m.version + j.claims.epoch = j.claims.version + e
            /\ e = j.claims.epoch => m.role = j.claims.role
            /\ tenant[j.claims.tenant] = "active"
        <5>1. LocksTenant(j, j.claims.tenant)
          BY <2>4, <2>8 DEF LocksTenant
        <5>2. GrantOK(j)
          BY <2>4 DEF RequestOK
        <5> QED BY <2>1, <2>3, <2>4, <4>1, <4>2, <5>1, <5>2 DEF GrantOK, Claims
      <4>5. m.version = j.claims.version
        BY <2>2, <2>3 DEF SameGrant, Claims
      <4>6. e = j.claims.epoch
        BY <4>2, <4>3, <4>4, <4>5
      <4>7. m.active /\ j.claims.user \notin Admins
        BY <2>2, <2>3, SupportReads DEF Unexpired, Claims
      <4> QED BY <2>1, <2>3, <2>7, <4>1, <4>4, <4>6, <4>7 DEF GrantOK, Claims
    <3>3. FarmOK(k)
      BY <2>4, <2>7 DEF RequestOK, FarmOK
    <3> QED BY <2>8, <3>1, <3>2, <3>3 DEF RequestOK, TokenOK
  <2>10. ASSUME NEW d \in Clients \ {c} PROVE Apart(k, req[d]) /\ Apart(req[d], k)
    <3>1. Apart(j, req[d]) /\ Apart(req[d], j)
      BY <2>3, RequestHas
    <3>2. \A t : LocksTenant(k, t) <=> LocksTenant(j, t)
      BY <2>4, <2>7, <2>8 DEF LocksTenant
    <3>3. \A f : LocksFarm(k, f) => LocksFarm(j, f)
      BY <2>4, <2>7 DEF LocksFarm
    <3>4. LocksAlone(k) <=> LocksAlone(j)
      BY <2>4, <2>7 DEF LocksAlone, TxPcs
    <3> QED BY <3>1, <3>2, <3>3, <3>4 DEF Apart
  <2> QED BY <1>1, <2>4, <2>5, <2>6, <2>7, <2>9, <2>10, WithinStep DEF TxPcs
<1> QED BY <1>2, <1>3

\* AuthorizePlatformWrite.
LEMMA AuthorizePlatformInd ==
    ASSUME TenancyInd, NEW c \in Clients, AuthorizePlatformWrite(c)
    PROVE  TenancyInd'
<1>1. req[c].pc = "begin" /\ req[c].pc \in TxPcs /\ Platform(req[c])
  BY OfRecord DEF AuthorizePlatformWrite, TxPcs
<1>2. CASE Fail(c)
  BY <1>1, <1>2, TxHas, FailStep
<1>3. CASE ~Fail(c)
  <2>1. PICK j, k : j = req[c] /\ k = [j EXCEPT !.pc = "authorized"]
    OBVIOUS
  <2>2. j \in TxSet /\ RequestOK(j) /\ j.pc = "begin"
    BY <1>1, <2>1, TxHas
  <2>3. /\ req' = [req EXCEPT ![c] = k] /\ UNCHANGED <<rows, now, spent>>
        /\ token[j.claims.user] = j.claims.token
    BY <1>3, <2>1 DEF AuthorizePlatformWrite, Goto, PlatformToken, Claims, TenancyInd
  <2>4. /\ k \in TxSet /\ k \in RequestSet /\ k.pc = "authorized" /\ k.op = j.op /\ k.claims = j.claims
    BY <2>1, <2>2 DEF RequestSet, TxSet, TxPcs
  <2>5. Platform(k) /\ k.op \notin {"SetFarmOwner", "SetFarmMember"}
    BY <1>1, <2>1, <2>4 DEF Platform, TxPcs
  <2>6. RequestOK(k)
    <3>1. Shape(k)
      BY <2>2, <2>4, <2>5 DEF RequestOK, Shape
    <3>2. GrantOK(k)
      BY <2>2, <2>4, <2>5, GrantKept DEF RequestOK
    <3> QED BY <2>3, <2>4, <2>5, <3>1, <3>2 DEF RequestOK, TokenOK, FarmOK
  <2>7. \A d \in Clients \ {c} : Apart(k, req[d]) /\ Apart(req[d], k)
    BY <2>5 DEF Apart, LocksTenant, LocksFarm
  <2> QED BY <1>1, <2>3, <2>4, <2>6, <2>7, WithinStep DEF TxPcs
<1> QED BY <1>2, <1>3

\* The reads before the last statement.
LEMMA LookupInd ==
    ASSUME TenancyInd, NEW c \in Clients, Lookup(c)
    PROVE  TenancyInd'
<1>1. /\ req[c].pc = "authorized" /\ req[c].pc \in TxPcs /\ ~Platform(req[c])
      /\ req[c].op \in {"DeleteFarm", "CreatePond"}
  BY OfRecord DEF Lookup, Past, Runs, TxPcs
<1>2. CASE Fail(c)
  BY <1>1, <1>2, TxHas, FailStep
<1>3. CASE ~Fail(c)
  <2>1. PICK f \in Farms : With(c, "looked", f, None) /\ (req[c].op = "CreatePond" => InTenant(c, f))
    BY <1>1, <1>3 DEF Lookup, Runs
  <2>2. PICK j, k : j = req[c] /\ k = [j EXCEPT !.pc = "looked", !.farm = f, !.owner = None]
    OBVIOUS
  <2>3. j \in TxSet /\ RequestOK(j) /\ j.pc = "authorized" /\ ~Platform(j) /\ j.op \in {"DeleteFarm", "CreatePond"}
    BY <1>1, <2>2, TxHas
  <2>4. req' = [req EXCEPT ![c] = k] /\ UNCHANGED <<rows, now, spent>>
    BY <2>1, <2>2 DEF With, TenancyInd
  <2>5. /\ k \in TxSet /\ k \in RequestSet /\ k.pc = "looked" /\ k.op = j.op /\ k.claims = j.claims /\ k.farm = f
    BY <2>2, <2>3 DEF RequestSet, TxSet, TxPcs
  <2>6. ~Platform(k)
    BY <2>3, <2>5 DEF Platform, TxPcs
  <2>7. RequestOK(k)
    <3>1. Shape(k)
      BY <2>3, <2>5, <2>6 DEF RequestOK, Shape, TxPcs
    <3>2. GrantOK(k)
      <4>1. GrantOK(j)
        BY <2>3 DEF RequestOK
      <4> QED BY <2>3, <2>5, <2>6, <4>1 DEF GrantOK, LocksTenant
    <3>3. FarmOK(k)
      <4>1. k.op = "CreatePond" => Exists(f) /\ farm[f].tenant = k.claims.tenant /\ farm[f] # None
        BY <2>1, <2>2, <2>5 DEF InTenant, Claims, Exists
      <4> QED BY <2>5, <4>1 DEF FarmOK
    <3> QED BY <2>5, <3>1, <3>2, <3>3 DEF RequestOK, TokenOK
  <2>8. ASSUME NEW d \in Clients \ {c} PROVE Apart(k, req[d]) /\ Apart(req[d], k)
    <3>1. Apart(j, req[d]) /\ Apart(req[d], j)
      BY <2>2, RequestHas
    <3>2. \A t : LocksTenant(k, t) <=> LocksTenant(j, t)
      BY <2>3, <2>5, <2>6 DEF LocksTenant
    <3>3. \A g : ~LocksFarm(k, g)
      BY <2>5 DEF LocksFarm
    <3>4. LocksAlone(k) <=> LocksAlone(j)
      BY <2>3, <2>5 DEF LocksAlone
    <3> QED BY <3>1, <3>2, <3>3, <3>4 DEF Apart
  <2> QED BY <1>1, <2>3, <2>4, <2>5, <2>7, <2>8, WithinStep
<1> QED BY <1>2, <1>3

-----------------------------------------------------------------------------
\* The writes.  Each keeps what the other requests know because of their locks.

\* A row that is not written.
LEMMA MemberStays ==
    ASSUME TenancyInd, NEW t \in Tenants, NEW u \in Users, member[t][u] # None
    PROVE  member[t][u].version \in Nat /\ member[t][u].version <= member[t][u].version + 1
<1>1. member[t][u] \in Membership
  BY DEF TenancyInd, RowsOK
<1>2. member[t][u].version \in Nat
  BY <1>1, TenancyAssumption DEF Membership
<1> QED BY <1>2

\* A write of tenants or memberships, for a request k that does not do it.
LEMMA MemberWrite ==
    ASSUME RowsOK, NEW k \in RequestSet, RequestOK(k), UNCHANGED <<token, farm>>,
           \A t \in Tenants, u \in Users :
              k.pc # "idle" /\ k.claims.tenant = t /\ k.claims.user = u =>
                 \/ /\ member'[t][u] = member[t][u] /\ epoch'[t][u] = epoch[t][u]
                    /\ tenant[t] = "active" => tenant'[t] = "active"
                 \/ /\ ~LocksTenant(k, t) /\ epoch'[t][u] = epoch[t][u] + 1
                    /\ member[t][u] # None =>
                          member'[t][u] # None /\ member'[t][u].version = member[t][u].version + 1
    PROVE  RequestOK(k)'
<1>1. Shape(k)' /\ TokenOK(k)' /\ FarmOK(k)'
  BY DEF RequestOK, Shape, TokenOK, FarmOK, Platform, Exists
<1>2. ASSUME k.pc # "idle", k.claims.tenant # None PROVE GrantOK(k)'
  <2>1. PICK q : q = k.claims
    OBVIOUS
  <2>2. q \in ClaimSet
    BY <1>2, <2>1, Places DEF TxPcs
  <2>3. q.tenant \in Tenants /\ q.user \in Users /\ q.epoch \in Nat /\ q.version \in Nat
    BY <1>2, <2>1, <2>2 DEF ClaimSet
  <2>4. PICK t, u : t = q.tenant /\ u = q.user
    OBVIOUS
  <2>5. GrantOK(k)
    BY DEF RequestOK
  <2>6. /\ member[t][u] # None /\ q.epoch <= epoch[t][u]
        /\ member[t][u].version + q.epoch = q.version + epoch[t][u]
        /\ epoch[t][u] = q.epoch => member[t][u].role = q.role
        /\ LocksTenant(k, t) => tenant[t] = "active"
        /\ LocksTenant(k, t) /\ k.pc # "locked" =>
              epoch[t][u] = q.epoch /\ member[t][u].active /\ u \notin Admins
    BY <1>2, <2>1, <2>4, <2>5 DEF GrantOK
  <2>7. epoch[t][u] \in Nat /\ member[t][u] \in Membership
    BY <2>3, <2>4, <2>6 DEF RowsOK
  <2>8. member[t][u].version \in Nat
    BY <2>7, TenancyAssumption DEF Membership
  <2>9. CASE /\ member'[t][u] = member[t][u] /\ epoch'[t][u] = epoch[t][u]
             /\ tenant[t] = "active" => tenant'[t] = "active"
    BY <2>1, <2>4, <2>6, <2>9 DEF GrantOK, LocksTenant, Platform
  <2>10. CASE /\ ~LocksTenant(k, t) /\ epoch'[t][u] = epoch[t][u] + 1
              /\ member'[t][u] # None /\ member'[t][u].version = member[t][u].version + 1
    <3>1. /\ q.epoch <= epoch'[t][u] /\ epoch'[t][u] # q.epoch
          /\ member'[t][u].version + q.epoch = q.version + epoch'[t][u]
      BY <2>3, <2>6, <2>7, <2>8, <2>10
    <3> QED BY <2>1, <2>4, <2>10, <3>1 DEF GrantOK, LocksTenant, Platform
  <2> QED BY <1>2, <2>1, <2>3, <2>4, <2>6, <2>9, <2>10
<1>3. ~(k.pc # "idle" /\ k.claims.tenant # None) => GrantOK(k)'
  BY DEF GrantOK
<1> QED BY <1>1, <1>2, <1>3 DEF RequestOK

\* A write of farms, for a request k that does not do it.
LEMMA FarmWrite ==
    ASSUME NEW k \in RequestSet, RequestOK(k), UNCHANGED <<tenant, member, epoch, token>>,
           \A f \in Farms :
              \/ farm'[f] = farm[f]
              \/ farm[f] = None
              \/ Exists(f) /\ farm'[f] \notin {None, Gone} /\ farm'[f].tenant = farm[f].tenant
              \/ farm'[f] = Gone /\ ~LocksFarm(k, f)
    PROVE  RequestOK(k)'
<1>1. Shape(k)' /\ GrantOK(k)' /\ TokenOK(k)'
  BY DEF RequestOK, Shape, GrantOK, TokenOK, Platform, LocksTenant
<1>2. FarmOK(k)'
  <2>0. FarmOK(k) /\ Shape(k) /\ Gone # None
    BY TenancyAssumption DEF RequestOK
  <2>1. ASSUME k.pc \in {"checked", "locked", "authorized"}, k.op = "SetFarmOwner"
        PROVE  Exists(k.farm)' /\ farm'[k.farm].tenant = k.claims.tenant
    <3>1. Exists(k.farm) /\ farm[k.farm].tenant = k.claims.tenant
      BY <2>0, <2>1 DEF FarmOK
    <3>2. k.farm \in Farms
      BY <2>0, <2>1 DEF Shape, TxPcs
    <3>3. LocksFarm(k, k.farm)
      BY <2>1 DEF LocksFarm
    <3> QED BY <3>1, <3>2, <3>3 DEF Exists
  <2>2. ASSUME \/ k.pc \in {"checked", "locked", "authorized"} /\ k.op = "SetFarmMember"
               \/ k.pc = "looked" /\ k.op = "CreatePond"
        PROVE  farm'[k.farm] # None /\ (Exists(k.farm)' => farm'[k.farm].tenant = k.claims.tenant)
    <3>1. farm[k.farm] # None /\ (Exists(k.farm) => farm[k.farm].tenant = k.claims.tenant)
      BY <2>0, <2>2 DEF FarmOK
    <3>2. k.farm \in Farms
      BY <2>0, <2>2 DEF Shape, TxPcs
    <3> QED BY <2>0, <3>1, <3>2 DEF Exists
  <2> QED BY <2>1, <2>2 DEF FarmOK, Exists
<1> QED BY <1>1, <1>2 DEF RequestOK

\* CreateTenant.
LEMMA CreateTenantInd ==
    ASSUME TenancyInd, NEW c \in Clients, CreateTenant(c)
    PROVE  TenancyInd'
<1>1. req[c].pc = "authorized" /\ req[c].pc \in TxPcs
  BY DEF CreateTenant, At, TxPcs
<1>2. CASE Fail(c)
  BY <1>1, <1>2, TxHas, FailStep
<1>3. CASE ~Fail(c)
  <2>1. PICK t \in Tenants : tenant[t] = "none" /\ tenant' = [tenant EXCEPT ![t] = "active"]
    BY <1>3 DEF CreateTenant
  <2>2. Done(c) /\ UNCHANGED <<member, epoch, token, farm, grant, pond, now, spent>>
    BY <1>3 DEF CreateTenant
  <2>3. RowsOK'
    BY <2>1, <2>2 DEF TenancyInd, RowsOK, NoOrphanPond, Exists, Support
  <2>4. \A x \in Tenants : tenant[x] = "active" => tenant'[x] = "active"
    BY <2>1 DEF TenancyInd, RowsOK
  <2>5. ASSUME NEW d \in Clients \ {c}, NEW k, k = req[d] PROVE RequestOK(k)'
    <3>1. k \in RequestSet /\ RequestOK(k) /\ RowsOK
      BY <2>5, RequestHas DEF TenancyInd
    <3> QED BY <2>2, <2>4, <3>1, MemberWrite
  <2> QED BY <1>1, <2>2, <2>3, <2>5, MemberStays, EndStep DEF TxPcs
<1> QED BY <1>2, <1>3

\* A request in flight may write a membership once more.
LEMMA VersionFits ==
    ASSUME TenancyInd, NEW c \in Clients, req[c].pc # "idle",
           NEW t \in Tenants, NEW u \in Users, member[t][u] # None
    PROVE  /\ member[t][u] \in Membership /\ member[t][u].version \in Nat
           /\ member[t][u].version + 1 \in 0..(MaxRequests + 1)
<1>1. c \in Flying
  BY DEF Flying
<1>2. Cardinality(Flying) \in Nat \ {0}
  BY <1>1, FlyingType, FS_EmptySet
<1>3. member[t][u] \in Membership
  BY DEF TenancyInd, RowsOK
<1>4. member[t][u].version \in Nat
  BY <1>3, TenancyAssumption DEF Membership
<1>5. member[t][u].version + Cardinality(Flying) <= spent + 1 /\ spent \in 0..MaxRequests
  BY DEF TenancyInd, CountOK
<1> QED BY <1>2, <1>3, <1>4, <1>5, TenancyAssumption

\* Who may write a membership of tenant t: nobody else holds the tenant then.
LEMMA AloneWithTenant ==
    ASSUME TenancyInd, NEW c \in Clients, NEW d \in Clients \ {c}, NEW t \in Tenants,
           \/ Free(c, {e \in Clients : HoldsTenant(e, t)})
           \/ LocksTenant(req[c], t) /\ LocksAlone(req[c])
    PROVE  ~LocksTenant(req[d], t)
<1>1. CASE Free(c, {e \in Clients : HoldsTenant(e, t)})
  BY <1>1, OfRecord DEF Free
<1>2. CASE LocksTenant(req[c], t) /\ LocksAlone(req[c])
  BY <1>2, RequestHas DEF Apart
<1> QED BY <1>1, <1>2

\* SetTenantActive: the versions of all memberships go up with the status.
LEMMA SetTenantActiveInd ==
    ASSUME TenancyInd, NEW c \in Clients, SetTenantActive(c)
    PROVE  TenancyInd'
<1>1. req[c].pc = "authorized" /\ req[c].pc \in TxPcs
  BY DEF SetTenantActive, At, TxPcs
<1>2. CASE Fail(c)
  BY <1>1, <1>2, TxHas, FailStep
<1>3. CASE ~Fail(c)
  <2>1. PICK t \in Tenants, to \in {"active", "inactive"} :
          /\ Free(c, {d \in Clients : HoldsTenant(d, t)})
          /\ tenant' = [tenant EXCEPT ![t] = to]
          /\ member' = [member EXCEPT ![t] = [u \in Users |-> NextVersion(member[t][u])]]
          /\ epoch' = [epoch EXCEPT ![t] = [u \in Users |-> epoch[t][u] + 1]]
    BY <1>3 DEF SetTenantActive
  <2>2. Done(c) /\ UNCHANGED <<token, farm, grant, pond, now, spent>>
    BY <1>3 DEF SetTenantActive
  <2>3. PICK g, h : /\ g = [u \in Users |-> NextVersion(member[t][u])]
                    /\ h = [u \in Users |-> epoch[t][u] + 1]
    OBVIOUS
  <2>4. member' = [member EXCEPT ![t] = g] /\ epoch' = [epoch EXCEPT ![t] = h]
    BY <2>1, <2>3
  <2>5. ASSUME NEW u \in Users
        PROVE  /\ g[u] \in Membership \cup {None}
               /\ g[u] = None <=> member[t][u] = None
               /\ g[u] # None => g[u].version = member[t][u].version + 1 /\ Support(g[u])
    <3>1. CASE member[t][u] = None
      BY <2>3, <3>1 DEF NextVersion
    <3>2. CASE member[t][u] # None
      <4>1. PICK m : m = member[t][u]
        OBVIOUS
      <4>2. m \in Membership /\ m.version \in Nat /\ m.version + 1 \in 0..(MaxRequests + 1) /\ Support(m)
        BY <1>1, <3>2, <4>1, VersionFits DEF TenancyInd, RowsOK, TxPcs
      <4>3. g[u] = [m EXCEPT !.version = m.version + 1]
        BY <2>3, <3>2, <4>1 DEF NextVersion
      <4>4. g[u] \in Membership /\ g[u].version = m.version + 1 /\ g[u].role = m.role /\ g[u].until = m.until
        BY <4>2, <4>3 DEF Membership
      <4>5. g[u] # None
        BY <4>4, TenancyAssumption
      <4> QED BY <3>2, <4>1, <4>2, <4>4, <4>5 DEF Support
    <3> QED BY <3>1, <3>2
  <2>6. g \in [Users -> Membership \cup {None}] /\ h \in [Users -> Nat]
    BY <2>3, <2>5 DEF TenancyInd, RowsOK
  <2>7. \A x \in Tenants : /\ member'[x] = (IF x = t THEN g ELSE member[x])
                           /\ epoch'[x] = (IF x = t THEN h ELSE epoch[x])
                           /\ tenant'[x] = (IF x = t THEN to ELSE tenant[x])
    BY <2>1, <2>4 DEF TenancyInd, RowsOK
  <2>8. RowsOK'
    <3>1. /\ member' \in [Tenants -> [Users -> Membership \cup {None}]]
          /\ epoch' \in [Tenants -> [Users -> Nat]]
          /\ tenant' \in [Tenants -> {"none", "active", "inactive"}]
      BY <2>1, <2>4, <2>6 DEF TenancyInd, RowsOK
    <3>2. \A x \in Tenants, u \in Users : member'[x][u] # None => Support(member'[x][u])
      BY <2>5, <2>7 DEF TenancyInd, RowsOK
    <3> QED BY <2>2, <3>1, <3>2 DEF TenancyInd, RowsOK, NoOrphanPond, Exists, Support
  <2>9. ASSUME NEW x \in Tenants, NEW u \in Users, member'[x][u] # None
        PROVE  member[x][u] # None /\ member'[x][u].version <= member[x][u].version + 1
    <3>1. CASE x = t
      <4>1. member[t][u] # None /\ member'[x][u].version = member[t][u].version + 1
        BY <2>5, <2>7, <2>9, <3>1
      <4> QED BY <3>1, <4>1, MemberStays
    <3>2. CASE x # t
      BY <2>7, <2>9, <3>2, MemberStays
    <3> QED BY <3>1, <3>2
  <2>10. ASSUME NEW d \in Clients \ {c}, NEW k, k = req[d] PROVE RequestOK(k)'
    <3>1. k \in RequestSet /\ RequestOK(k) /\ RowsOK
      BY <2>10, RequestHas DEF TenancyInd
    <3>2. ~LocksTenant(k, t)
      BY <2>1, <2>10, AloneWithTenant
    <3>3. ASSUME NEW x \in Tenants, NEW u \in Users
          PROVE  \/ /\ member'[x][u] = member[x][u] /\ epoch'[x][u] = epoch[x][u]
                    /\ tenant[x] = "active" => tenant'[x] = "active"
                 \/ /\ ~LocksTenant(k, x) /\ epoch'[x][u] = epoch[x][u] + 1
                    /\ member[x][u] # None =>
                          member'[x][u] # None /\ member'[x][u].version = member[x][u].version + 1
      <4>1. CASE x = t
        <5>1. epoch'[x][u] = epoch[x][u] + 1
          BY <2>3, <2>7, <4>1
        <5>2. member'[x][u] = g[u]
          BY <2>7, <4>1
        <5> QED BY <2>5, <3>2, <4>1, <5>1, <5>2
      <4>2. CASE x # t
        BY <2>7, <4>2
      <4> QED BY <4>1, <4>2
    <3> QED BY <2>2, <3>1, <3>3, MemberWrite
  <2> QED BY <1>1, <2>2, <2>8, <2>9, <2>10, EndStep DEF TxPcs
<1> QED BY <1>2, <1>3

\* The end of a grant.
LEMMA UntilFits ==
    ASSUME NEW c, req[c] \in TxSet, NEW r
    PROVE  /\ Until(c, r) \in {None} \cup 1..(MaxNow + 1)
           /\ r = "support" => Until(c, r) # None
<1>1. req[c].start \in 0..MaxNow /\ MaxNow \in Nat /\ None \notin 1..(MaxNow + 1)
  BY TenancyAssumption DEF TxSet
<1> QED BY <1>1 DEF Until

\* SetTenantMember.
LEMMA SetTenantMemberInd ==
    ASSUME TenancyInd, NEW c \in Clients, SetTenantMember(c)
    PROVE  TenancyInd'
<1>1. req[c].pc = "authorized" /\ req[c].pc \in TxPcs /\ req[c].op = "SetTenantMember"
  BY DEF SetTenantMember, At, TxPcs
<1>2. CASE Fail(c)
  BY <1>1, <1>2, TxHas, FailStep
<1>3. CASE ~Fail(c)
  <2>0. PICK t \in Tenants, u \in Users, r \in Granted, a \in BOOLEAN :
          /\ IF ByPlatform(c) THEN r # "support" /\ Free(c, {d \in Clients : HoldsTenant(d, t)})
                              ELSE t = Claims(c).tenant
          /\ IF tenant[t] = "none" \/ (u \in Admins /\ r # "support") THEN Fail(c)
             ELSE /\ member' = [member EXCEPT ![t][u] =
                       [role |-> r, active |-> a, until |-> Until(c, r),
                        version |-> Version(member[t][u]) + 1]]
                  /\ epoch' = [epoch EXCEPT ![t][u] = @ + 1]
                  /\ Done(c)
                  /\ UNCHANGED <<tenant, token, farm, grant, pond, now, spent>>
    BY Zenon DEF SetTenantMember
  <2>1. /\ IF ByPlatform(c) THEN r # "support" /\ Free(c, {d \in Clients : HoldsTenant(d, t)})
                            ELSE t = Claims(c).tenant
        /\ member' = [member EXCEPT ![t][u] =
              [role |-> r, active |-> a, until |-> Until(c, r), version |-> Version(member[t][u]) + 1]]
        /\ epoch' = [epoch EXCEPT ![t][u] = @ + 1]
    BY <1>3, <2>0
  <2>2. Done(c) /\ UNCHANGED <<tenant, token, farm, grant, pond, now, spent>>
    BY <1>3, <2>0
  <2>3. PICK m, n : /\ m = [role |-> r, active |-> a, until |-> Until(c, r), version |-> n]
                    /\ n = Version(member[t][u]) + 1
    OBVIOUS
  <2>4. member' = [member EXCEPT ![t][u] = m] /\ epoch' = [epoch EXCEPT ![t][u] = epoch[t][u] + 1]
    BY <2>1, <2>3
  <2>5. /\ n \in 0..(MaxRequests + 1)
        /\ member[t][u] = None => n = 1
        /\ member[t][u] # None => n = member[t][u].version + 1
    <3>1. CASE member[t][u] = None
      BY <2>3, <3>1, TenancyAssumption DEF Version
    <3>2. CASE member[t][u] # None
      <4>1. req[c].pc # "idle"
        BY <1>1
      <4>2. n = member[t][u].version + 1
        BY <2>3, <3>2 DEF Version
      <4> QED BY <3>2, <4>1, <4>2, VersionFits
    <3> QED BY <3>1, <3>2
  <2>6. m \in Membership /\ m # None /\ m.version = n /\ Support(m)
    <3>1. Until(c, r) \in {None} \cup 1..(MaxNow + 1) /\ (r = "support" => Until(c, r) # None)
      BY <1>1, TxHas, UntilFits
    <3>2. m \in Membership /\ m.version = n /\ m.role = r /\ m.until = Until(c, r)
      BY <2>3, <2>5, <3>1, TenancyAssumption DEF Membership
    <3> QED BY <3>1, <3>2, TenancyAssumption DEF Support
  <2>7. ASSUME NEW x \in Tenants, NEW v \in Users
        PROVE  /\ member'[x][v] = (IF x = t /\ v = u THEN m ELSE member[x][v])
               /\ epoch'[x][v] = (IF x = t /\ v = u THEN epoch[x][v] + 1 ELSE epoch[x][v])
    BY <2>4 DEF TenancyInd, RowsOK
  <2>8. RowsOK'
    <3>1. member' \in [Tenants -> [Users -> Membership \cup {None}]]
      BY <2>4, <2>6 DEF TenancyInd, RowsOK
    <3>2. epoch' \in [Tenants -> [Users -> Nat]]
      BY <2>4 DEF TenancyInd, RowsOK
    <3>3. \A x \in Tenants, v \in Users : member'[x][v] # None => Support(member'[x][v])
      BY <2>6, <2>7 DEF TenancyInd, RowsOK
    <3> QED BY <2>2, <3>1, <3>2, <3>3 DEF TenancyInd, RowsOK, NoOrphanPond, Exists, Support
  <2>9. ASSUME NEW x \in Tenants, NEW v \in Users, member'[x][v] # None
        PROVE  \/ member[x][v] = None /\ member'[x][v].version = 1
               \/ member[x][v] # None /\ member'[x][v].version <= member[x][v].version + 1
    <3>1. CASE x = t /\ v = u
      BY <2>5, <2>6, <2>7, <3>1, MemberStays
    <3>2. CASE ~(x = t /\ v = u)
      BY <2>7, <2>9, <3>2, MemberStays
    <3> QED BY <3>1, <3>2
  <2>10. ASSUME NEW d \in Clients \ {c}, NEW k, k = req[d] PROVE RequestOK(k)'
    <3>1. k \in RequestSet /\ RequestOK(k) /\ RowsOK
      BY <2>10, RequestHas DEF TenancyInd
    <3>2. ~LocksTenant(k, t)
      <4>1. \/ Free(c, {e \in Clients : HoldsTenant(e, t)})
            \/ LocksTenant(req[c], t) /\ LocksAlone(req[c])
        <5>1. CASE ByPlatform(c)
          BY <2>1, <5>1
        <5>2. CASE ~ByPlatform(c)
          BY <1>1, <2>1, <5>2, OfRecord DEF LocksTenant, LocksAlone, Claims
        <5> QED BY <5>1, <5>2
      <4> QED BY <2>10, <4>1, AloneWithTenant
    <3>3. ASSUME NEW x \in Tenants, NEW v \in Users
          PROVE  \/ /\ member'[x][v] = member[x][v] /\ epoch'[x][v] = epoch[x][v]
                    /\ tenant[x] = "active" => tenant'[x] = "active"
                 \/ /\ ~LocksTenant(k, x) /\ epoch'[x][v] = epoch[x][v] + 1
                    /\ member[x][v] # None =>
                          member'[x][v] # None /\ member'[x][v].version = member[x][v].version + 1
      BY <2>2, <2>5, <2>6, <2>7, <3>2
    <3> QED BY <2>2, <3>1, <3>3, MemberWrite
  <2> QED BY <1>1, <2>2, <2>8, <2>9, <2>10, EndStep DEF TxPcs
<1> QED BY <1>2, <1>3

\* A request that writes no membership ends.
LEMMA EndOther ==
    ASSUME TenancyInd, RowsOK', NEW c \in Clients, req[c].pc \in TxPcs, Done(c),
           UNCHANGED <<tenant, member, epoch, token, spent>>,
           \A f \in Farms :
                 \/ farm'[f] = farm[f]
                 \/ farm[f] = None
                 \/ Exists(f) /\ farm'[f] \notin {None, Gone} /\ farm'[f].tenant = farm[f].tenant
                 \/ farm'[f] = Gone /\ \A d \in Clients \ {c} : ~LocksFarm(req[d], f)
    PROVE  TenancyInd'
<1>1. ASSUME NEW d \in Clients \ {c}, NEW k, k = req[d] PROVE RequestOK(k)'
  <2>1. k \in RequestSet /\ RequestOK(k)
    BY <1>1, RequestHas
  <2> QED BY <1>1, <2>1, FarmWrite
<1>2. \A t \in Tenants, u \in Users : member'[t][u] # None =>
         member[t][u] # None /\ member'[t][u].version <= member[t][u].version + 1
  BY MemberStays
<1> QED BY <1>1, <1>2, TxHas, EndStep

\* A write of farms keeps the rows, when no pond loses its farm.
LEMMA FarmRows ==
    ASSUME RowsOK, UNCHANGED <<tenant, member, epoch, token, pond, now>>,
           farm' \in [Farms -> {None, Gone} \cup FarmRow],
           grant' \in [Farms -> [Users -> Grant \cup {None}]],
           \A f \in Farms, u \in Users : grant'[f][u] # None => Support(grant'[f][u]),
           \A f \in Farms : Exists(f) /\ (\E p \in Ponds : pond[p] = f) => farm'[f] \notin {None, Gone}
    PROVE  RowsOK'
<1>1. NoOrphanPond'
  BY DEF RowsOK, NoOrphanPond, Exists
<1> QED BY <1>1 DEF RowsOK, Support

\* CreateFarm.
LEMMA CreateFarmInd ==
    ASSUME TenancyInd, NEW c \in Clients, CreateFarm(c)
    PROVE  TenancyInd'
<1>1. req[c].pc = "authorized" /\ req[c].pc \in TxPcs /\ req[c].op = "CreateFarm"
  BY DEF CreateFarm, At, TxPcs
<1>2. CASE Fail(c)
  BY <1>1, <1>2, TxHas, FailStep
<1>3. CASE ~Fail(c)
  <2>1. PICK j : j = req[c]
    OBVIOUS
  <2>2. j \in TxSet /\ Shape(j) /\ ~Platform(j)
    BY <1>1, <2>1, TxHas DEF Platform
  <2>3. j.claims.tenant \in Tenants /\ j.owner \in Users \cup {None}
    BY <1>1, <2>1, <2>2 DEF Shape, TxSet
  <2>3b. PICK row : row = [tenant |-> j.claims.tenant, owner |-> j.owner]
    OBVIOUS
  <2>4. PICK f \in Farms : farm[f] = None /\ farm' = [farm EXCEPT ![f] = row]
    BY <1>3, <2>1, <2>3b DEF CreateFarm, Claims
  <2>5. Done(c) /\ UNCHANGED <<tenant, member, epoch, token, grant, pond, now, spent>>
    BY <1>3 DEF CreateFarm
  <2>6. row \in FarmRow /\ row \notin {None, Gone}
    BY <2>3, <2>3b, TenancyAssumption DEF FarmRow
  <2>7. /\ farm' \in [Farms -> {None, Gone} \cup FarmRow]
        /\ \A g \in Farms : farm'[g] = IF g = f THEN row ELSE farm[g]
    BY <2>4, <2>6 DEF TenancyInd, RowsOK
  <2>8. RowsOK'
    BY <2>5, <2>6, <2>7, FarmRows DEF TenancyInd, RowsOK, Exists, Support
  <2> QED BY <1>1, <2>4, <2>5, <2>7, <2>8, EndOther
<1> QED BY <1>2, <1>3

\* SetFarmOwner.
LEMMA SetFarmOwnerInd ==
    ASSUME TenancyInd, NEW c \in Clients, SetFarmOwner(c)
    PROVE  TenancyInd'
<1>1. req[c].pc = "authorized" /\ req[c].pc \in TxPcs /\ req[c].op = "SetFarmOwner"
  BY DEF SetFarmOwner, At, TxPcs
<1>2. CASE Fail(c)
  BY <1>1, <1>2, TxHas, FailStep
<1>3. CASE ~Fail(c)
  <2>1. PICK j, f, o, p : j = req[c] /\ f = j.farm /\ o = j.owner /\ p = farm[f].owner
    OBVIOUS
  <2>2. j \in TxSet /\ Shape(j) /\ FarmOK(j)
    BY <1>1, <2>1, TxHas DEF RequestOK
  <2>3. f \in Farms /\ o \in Users \cup {None} /\ Exists(f) /\ farm[f] \in FarmRow
    <3>1. f \in Farms /\ o \in Users \cup {None} /\ Exists(f)
      BY <1>1, <2>1, <2>2 DEF Shape, FarmOK, TxSet
    <3> QED BY <3>1 DEF TenancyInd, RowsOK, Exists
  <2>4. PICK row, g :
          /\ row = [farm[f] EXCEPT !.owner = o]
          /\ g = [u \in Users |->
                 IF u = o THEN [role |-> "owner", active |-> TRUE, until |-> None]
                 ELSE IF u = p /\ grant[f][u] # None THEN [grant[f][u] EXCEPT !.active = FALSE]
                 ELSE grant[f][u]]
    OBVIOUS
  <2>5. farm' = [farm EXCEPT ![f] = row] /\ grant' = [grant EXCEPT ![f] = g]
    BY <1>3, <2>1, <2>4 DEF SetFarmOwner
  <2>6. Done(c) /\ UNCHANGED <<tenant, member, epoch, token, pond, now, spent>>
    BY <1>3 DEF SetFarmOwner
  <2>7. row \in FarmRow /\ row.tenant = farm[f].tenant /\ row \notin {None, Gone}
    <3>1. row \in FarmRow /\ row.tenant = farm[f].tenant
      BY <2>3, <2>4 DEF FarmRow
    <3> QED BY <3>1, TenancyAssumption
  <2>8. ASSUME NEW u \in Users
        PROVE  g[u] \in Grant \cup {None} /\ (g[u] # None => Support(g[u]))
    <3>0. grant[f][u] \in Grant \cup {None} /\ (grant[f][u] # None => Support(grant[f][u]))
      BY <2>3 DEF TenancyInd, RowsOK
    <3>1. CASE u = o
      <4>1. PICK new : new = [role |-> "owner", active |-> TRUE, until |-> None]
        OBVIOUS
      <4>2. new \in Grant /\ new.role = "owner"
        BY <4>1 DEF Grant, ROLE
      <4> QED BY <2>4, <3>1, <4>1, <4>2 DEF Support
    <3>2. CASE u # o /\ u = p /\ grant[f][u] # None
      <4>1. PICK old, new : old = grant[f][u] /\ new = [old EXCEPT !.active = FALSE]
        OBVIOUS
      <4>2. new \in Grant /\ new.role = old.role /\ new.until = old.until
        BY <3>0, <3>2, <4>1 DEF Grant
      <4> QED BY <2>4, <3>0, <3>2, <4>1, <4>2 DEF Support
    <3>3. CASE u # o /\ ~(u = p /\ grant[f][u] # None)
      BY <2>4, <3>0, <3>3
    <3> QED BY <3>1, <3>2, <3>3
  <2>9. g \in [Users -> Grant \cup {None}]
    BY <2>4, <2>8
  <2>10. /\ farm' \in [Farms -> {None, Gone} \cup FarmRow]
         /\ grant' \in [Farms -> [Users -> Grant \cup {None}]]
         /\ \A x \in Farms : farm'[x] = (IF x = f THEN row ELSE farm[x])
                             /\ grant'[x] = (IF x = f THEN g ELSE grant[x])
    BY <2>5, <2>7, <2>9 DEF TenancyInd, RowsOK
  <2>11. RowsOK'
    <3>1. \A x \in Farms, u \in Users : grant'[x][u] # None => Support(grant'[x][u])
      BY <2>8, <2>10 DEF TenancyInd, RowsOK
    <3>2. \A x \in Farms : Exists(x) => farm'[x] \notin {None, Gone}
      BY <2>7, <2>10 DEF Exists
    <3> QED BY <2>6, <2>10, <3>1, <3>2, FarmRows DEF TenancyInd
  <2> QED BY <1>1, <2>3, <2>6, <2>7, <2>10, <2>11, EndOther
<1> QED BY <1>2, <1>3

\* SetFarmMember.
LEMMA SetFarmMemberInd ==
    ASSUME TenancyInd, NEW c \in Clients, SetFarmMember(c)
    PROVE  TenancyInd'
<1>1. req[c].pc = "authorized" /\ req[c].pc \in TxPcs /\ req[c].op = "SetFarmMember"
  BY DEF SetFarmMember, At, TxPcs
<1>2. CASE Fail(c)
  BY <1>1, <1>2, TxHas, FailStep
<1>3. CASE ~Fail(c)
  <2>1. PICK j, f, u : j = req[c] /\ f = j.farm /\ u = j.owner
    OBVIOUS
  <2>2. j \in TxSet /\ f \in Farms /\ u \in Users
    BY <1>1, <2>1, TxHas DEF Shape
  <2>3. PICK r \in Granted, a \in BOOLEAN :
          /\ u \in Admins => r = "support"
          /\ grant' = [grant EXCEPT ![f][u] = [role |-> r, active |-> a, until |-> Until(c, r)]]
    BY <1>3, <2>1 DEF SetFarmMember
  <2>4. Done(c) /\ UNCHANGED <<tenant, member, epoch, token, farm, pond, now, spent>>
    BY <1>3 DEF SetFarmMember
  <2>5. PICK row : row = [role |-> r, active |-> a, until |-> Until(c, r)]
    OBVIOUS
  <2>6. row \in Grant /\ Support(row)
    <3>1. Until(c, r) \in {None} \cup 1..(MaxNow + 1) /\ (r = "support" => Until(c, r) # None)
      BY <2>1, <2>2, UntilFits
    <3>2. row \in Grant /\ row.role = r /\ row.until = Until(c, r)
      BY <2>5, <3>1, TenancyAssumption DEF Grant
    <3> QED BY <3>1, <3>2 DEF Support
  <2>7. grant' = [grant EXCEPT ![f][u] = row]
    BY <2>3, <2>5
  <2>8. grant' \in [Farms -> [Users -> Grant \cup {None}]]
    BY <2>6, <2>7 DEF TenancyInd, RowsOK
  <2>9. \A x \in Farms, v \in Users : grant'[x][v] = IF x = f /\ v = u THEN row ELSE grant[x][v]
    BY <2>2, <2>7 DEF TenancyInd, RowsOK
  <2>10. \A x \in Farms, v \in Users : grant'[x][v] # None => Support(grant'[x][v])
    BY <2>6, <2>9 DEF TenancyInd, RowsOK
  <2>11. RowsOK'
    <3>1. farm' \in [Farms -> {None, Gone} \cup FarmRow]
          /\ \A x \in Farms : Exists(x) => farm'[x] \notin {None, Gone}
      BY <2>4 DEF TenancyInd, RowsOK, Exists
    <3> QED BY <2>4, <2>8, <2>10, <3>1, FarmRows DEF TenancyInd
  <2> QED BY <1>1, <2>4, <2>11, EndOther
<1> QED BY <1>2, <1>3

\* DeleteFarm: nobody who changes the owner holds the farm, and no pond is left.
LEMMA DeleteFarmInd ==
    ASSUME TenancyInd, NEW c \in Clients, DeleteFarm(c)
    PROVE  TenancyInd'
<1>1. /\ req[c].pc = "looked" /\ req[c].pc \in TxPcs /\ req[c].op = "DeleteFarm" /\ Blockers(c) = {}
      /\ ~Platform(req[c])
  BY DEF DeleteFarm, At, TxPcs, Platform
<1>2. CASE Fail(c)
  BY <1>1, <1>2, TxHas, FailStep
<1>3. CASE ~Fail(c)
  <2>1. PICK f : f = req[c].farm
    OBVIOUS
  <2>2. f \in Farms
    BY <1>1, <2>1, TxHas DEF Shape
  <2>3. /\ InTenant(c, f) /\ NoPondLeft(f) /\ farm' = [farm EXCEPT ![f] = Gone]
        /\ grant' = [grant EXCEPT ![f] = [u \in Users |-> None]]
        /\ Done(c) /\ UNCHANGED <<tenant, member, epoch, token, pond, now, spent>>
    BY <1>3, <2>1 DEF DeleteFarm
  <2>4. \A d \in Clients \ {c} : ~LocksFarm(req[d], f)
    <3>1. Past(c, {"authorized", "looked"}) /\ Runs(c, {"SetFarmMember", "CreatePond", "DeleteFarm"})
      BY <1>1, OfRecord DEF Past, Runs
    <3> QED BY <1>1, <2>1, <3>1, OfRecord DEF Blockers
  <2>5. /\ farm' \in [Farms -> {None, Gone} \cup FarmRow]
        /\ \A x \in Farms : farm'[x] = IF x = f THEN Gone ELSE farm[x]
    BY <2>3 DEF TenancyInd, RowsOK
  <2>6. PICK g : g = [u \in Users |-> None]
    OBVIOUS
  <2>7. /\ grant' \in [Farms -> [Users -> Grant \cup {None}]]
        /\ \A x \in Farms, u \in Users : grant'[x][u] = IF x = f THEN None ELSE grant[x][u]
    <3>1. g \in [Users -> Grant \cup {None}] /\ grant' = [grant EXCEPT ![f] = g]
          /\ \A u \in Users : g[u] = None
      BY <2>3, <2>6
    <3> QED BY <3>1 DEF TenancyInd, RowsOK
  <2>8. RowsOK'
    <3>1. \A x \in Farms, u \in Users : grant'[x][u] # None => Support(grant'[x][u])
      BY <2>7 DEF TenancyInd, RowsOK
    <3>2. \A x \in Farms : Exists(x) /\ (\E p \in Ponds : pond[p] = x) => farm'[x] \notin {None, Gone}
      BY <2>3, <2>5 DEF Exists, NoPondLeft
    <3> QED BY <2>3, <2>5, <2>7, <3>1, <3>2, FarmRows DEF TenancyInd
  <2> QED BY <1>1, <2>3, <2>4, <2>5, <2>8, EndOther
<1> QED BY <1>2, <1>3

\* CreatePond: the foreign key finds the farm.
LEMMA CreatePondInd ==
    ASSUME TenancyInd, NEW c \in Clients, CreatePond(c)
    PROVE  TenancyInd'
<1>1. req[c].pc = "looked" /\ req[c].pc \in TxPcs /\ req[c].op = "CreatePond"
  BY DEF CreatePond, At, TxPcs
<1>2. CASE Fail(c)
  BY <1>1, <1>2, TxHas, FailStep
<1>3. CASE ~Fail(c)
  <2>1. PICK f : f = req[c].farm
    OBVIOUS
  <2>2. f \in Farms
    BY <1>1, <2>1, TxHas DEF Shape
  <2>3. PICK p \in Ponds : Exists(f) /\ pond[p] = None /\ pond' = [pond EXCEPT ![p] = f]
    BY <1>3, <2>1 DEF CreatePond
  <2>4. Done(c) /\ UNCHANGED <<tenant, member, epoch, token, farm, grant, now, spent>>
    BY <1>3 DEF CreatePond
  <2>5. pond' \in [Ponds -> {None, Gone} \cup Farms] /\ \A x \in Ponds : pond'[x] = IF x = p THEN f ELSE pond[x]
    BY <2>2, <2>3 DEF TenancyInd, RowsOK
  <2>6. NoOrphanPond'
    BY <2>3, <2>4, <2>5 DEF TenancyInd, RowsOK, NoOrphanPond, Exists
  <2>7. RowsOK'
    BY <2>4, <2>5, <2>6 DEF TenancyInd, RowsOK, Support
  <2> QED BY <1>1, <2>4, <2>7, EndOther
<1> QED BY <1>2, <1>3

\* DeletePond.
LEMMA DeletePondInd ==
    ASSUME TenancyInd, NEW c \in Clients, DeletePond(c)
    PROVE  TenancyInd'
<1>1. req[c].pc = "authorized" /\ req[c].pc \in TxPcs
  BY DEF DeletePond, At, TxPcs
<1>2. CASE Fail(c)
  BY <1>1, <1>2, TxHas, FailStep
<1>3. CASE ~Fail(c)
  <2>1. PICK p \in Ponds : pond' = [pond EXCEPT ![p] = Gone]
    BY <1>3 DEF DeletePond
  <2>2. Done(c) /\ UNCHANGED <<tenant, member, epoch, token, farm, grant, now, spent>>
    BY <1>3 DEF DeletePond
  <2>3. pond' \in [Ponds -> {None, Gone} \cup Farms] /\ \A x \in Ponds : pond'[x] = IF x = p THEN Gone ELSE pond[x]
    BY <2>1 DEF TenancyInd, RowsOK
  <2>4. Gone \notin Farms
    BY TenancyAssumption
  <2>5. NoOrphanPond'
    BY <2>2, <2>3, <2>4 DEF TenancyInd, RowsOK, NoOrphanPond, Exists
  <2>6. RowsOK'
    BY <2>2, <2>3, <2>5 DEF TenancyInd, RowsOK, Support
  <2> QED BY <1>1, <2>2, <2>6, EndOther
<1> QED BY <1>2, <1>3

\* A new password waits for who shares the user's row.
LEMMA ChangePasswordInd ==
    ASSUME TenancyInd, NEW u \in Users, ChangePassword(u)
    PROVE  TenancyInd'
<1>1. /\ spent < MaxRequests /\ token' = [token EXCEPT ![u] = @ + 1] /\ spent' = spent + 1
      /\ UNCHANGED <<tenant, member, epoch, farm, grant, pond, req, now>>
      /\ \A c \in Clients : ~HoldsUser(c, u)
  BY DEF ChangePassword
<1>2. RowsOK'
  BY <1>1 DEF TenancyInd, RowsOK, NoOrphanPond, Exists, Support
<1>3. CountOK'
  <2>1. Flying' = Flying
    BY <1>1 DEF Flying
  <2>2. Cardinality(Flying) \in Nat /\ Cardinality(Flying) <= spent /\ spent \in 0..MaxRequests /\ MaxRequests \in Nat
    BY FlyingType, TenancyAssumption DEF TenancyInd, CountOK
  <2>3. ASSUME NEW t \in Tenants, NEW v \in Users, member[t][v] # None
        PROVE  member[t][v].version + Cardinality(Flying) <= (spent + 1) + 1
    <3>1. member[t][v].version + Cardinality(Flying) <= spent + 1 /\ member[t][v].version \in Nat
      BY <2>3, MemberStays DEF TenancyInd, CountOK
    <3> QED BY <2>2, <3>1
  <2> QED BY <1>1, <2>1, <2>2, <2>3 DEF CountOK
<1>4. ASSUME NEW c \in Clients PROVE RequestOK(req[c])'
  <2>1. PICK k : k = req[c]
    OBVIOUS
  <2>2. RequestOK(k) /\ (k.pc = "authorized" => k.claims.user # u)
    BY <1>1, <2>1, RequestHas DEF HoldsUser, Claims
  <2>3. \A v \in Users : v # u => token'[v] = token[v]
    BY <1>1 DEF TenancyInd, RowsOK
  <2>4. k.pc = "authorized" => k.claims.user \in Users
    BY <2>1, TxHas DEF ClaimSet, TxPcs
  <2>5. Shape(k)' /\ GrantOK(k)' /\ FarmOK(k)'
    BY <1>1, <2>2 DEF RequestOK, Shape, GrantOK, FarmOK, Platform, LocksTenant, Exists
  <2>6. TokenOK(k)'
    BY <2>2, <2>3, <2>4 DEF RequestOK, TokenOK, Platform
  <2>7. req'[c] = k
    BY <1>1, <2>1
  <2>8. Shape(req[c])' /\ TokenOK(req[c])'
    BY <2>5, <2>6, <2>7 DEF Shape, TokenOK, Platform
  <2>9. GrantOK(req[c])'
    BY <2>5, <2>7 DEF GrantOK, LocksTenant, Platform
  <2>10. FarmOK(req[c])'
    BY <2>5, <2>7 DEF FarmOK, Exists
  <2> QED BY <2>8, <2>9, <2>10 DEF RequestOK
<1>5. \A c, d \in Clients : c # d => Apart(req[c], req[d])'
  BY <1>1 DEF TenancyInd, Apart, LocksTenant, LocksAlone, LocksFarm, Platform
<1> QED BY <1>1, <1>2, <1>3, <1>4, <1>5 DEF TenancyInd

\* Time passes, or nothing happens.
LEMMA QuietInd ==
    ASSUME TenancyInd, UNCHANGED <<rows, req, spent>>, now' \in 0..MaxNow
    PROVE  TenancyInd'
<1>1. UNCHANGED <<tenant, member, epoch, token, farm, grant, pond, req, spent>>
  BY DEF rows
<1>2. RowsOK'
  BY <1>1 DEF TenancyInd, RowsOK, NoOrphanPond, Exists, Support
<1>3. CountOK'
  BY <1>1 DEF TenancyInd, CountOK, Flying
<1>4. ASSUME NEW c \in Clients PROVE RequestOK(req[c])'
  <2>1. PICK k : k = req[c]
    OBVIOUS
  <2>2. RequestOK(k)' /\ req'[c] = k
    BY <1>1, <2>1, RequestHas, RequestStays
  <2>3. Shape(req[c])' /\ TokenOK(req[c])'
    BY <2>2 DEF RequestOK, Shape, TokenOK, Platform
  <2>4. GrantOK(req[c])'
    BY <2>2 DEF RequestOK, GrantOK, LocksTenant, Platform
  <2>5. FarmOK(req[c])'
    BY <2>2 DEF RequestOK, FarmOK, Exists
  <2> QED BY <2>3, <2>4, <2>5 DEF RequestOK
<1>5. \A c, d \in Clients : c # d => Apart(req[c], req[d])'
  BY <1>1 DEF TenancyInd, Apart, LocksTenant, LocksAlone, LocksFarm, Platform
<1> QED BY <1>1, <1>2, <1>3, <1>4, <1>5 DEF TenancyInd

\* Every step keeps the invariant.
LEMMA TenancyNextInd == TenancyInd /\ [TenancyNext]_tenancyVars => TenancyInd'
<1> SUFFICES ASSUME TenancyInd, [TenancyNext]_tenancyVars PROVE TenancyInd'
  OBVIOUS
<1>1. ASSUME NEW c \in Clients,
             \/ Arrive(c) \/ EndWithoutWrite(c) \/ Rollback(c)
             \/ UpdateFarm(c) \/ UpdatePond(c)
      PROVE  TenancyInd'
  <2>1. CASE Arrive(c)
    BY <2>1, ArriveInd
  <2>2. CASE EndWithoutWrite(c) \/ Rollback(c) \/ UpdateFarm(c) \/ UpdatePond(c)
    <3>1. Fail(c) /\ req[c].pc # "idle"
      BY <2>2 DEF EndWithoutWrite, Rollback, InTx, UpdateFarm, UpdatePond, At
    <3> QED BY <3>1, FailStep
  <2> QED BY <1>1, <2>1, <2>2
<1>2. ASSUME NEW c \in Clients,
             \/ createTenant(c) \/ setTenantStatus(c) \/ setTenantMember(c)
             \/ createFarm(c) \/ updateFarm(c) \/ deleteFarm(c) \/ setFarmOwner(c) \/ setFarmMember(c)
             \/ createPond(c) \/ updatePond(c) \/ deletePond(c)
      PROVE  TenancyInd'
  BY <1>2, HandlerInd
<1>3. ASSUME NEW c \in Clients,
             \/ PrecheckOwner(c) \/ PrecheckMember(c) \/ LockTenant(c)
             \/ AuthorizeTenantWrite(c) \/ AuthorizePlatformWrite(c) \/ Lookup(c)
      PROVE  TenancyInd'
  BY <1>3, PrecheckInd, LockTenantInd, AuthorizeTenantInd, AuthorizePlatformInd, LookupInd
<1>4. ASSUME NEW c \in Clients,
             \/ CreateTenant(c) \/ SetTenantActive(c) \/ SetTenantMember(c)
             \/ CreateFarm(c) \/ SetFarmOwner(c) \/ SetFarmMember(c)
             \/ DeleteFarm(c) \/ CreatePond(c) \/ DeletePond(c)
      PROVE  TenancyInd'
  BY <1>4, CreateTenantInd, SetTenantActiveInd, SetTenantMemberInd, CreateFarmInd, SetFarmOwnerInd,
     SetFarmMemberInd, DeleteFarmInd, CreatePondInd, DeletePondInd
<1>5. ASSUME NEW u \in Users, ChangePassword(u) PROVE TenancyInd'
  BY <1>5, ChangePasswordInd
<1>6. CASE TenancyTick
  <2>1. now \in 0..MaxNow /\ MaxNow \in Nat
    BY TenancyAssumption DEF TenancyInd, RowsOK
  <2> QED BY <1>6, <2>1, QuietInd DEF TenancyTick
<1>7. CASE UNCHANGED tenancyVars
  <2>1. UNCHANGED <<rows, req, spent, now>> /\ now \in 0..MaxNow
    BY <1>7 DEF tenancyVars, rows, TenancyInd, RowsOK
  <2> QED BY <2>1, QuietInd
<1> QED BY <1>1, <1>2, <1>3, <1>4, <1>5, <1>6, <1>7 DEF TenancyNext

\* No request runs at the start, and the rows are those of the schema.
LEMMA TenancyInitInd == TenancyInit => TenancyInd
<1> SUFFICES ASSUME TenancyInit PROVE TenancyInd
  OBVIOUS
<1> DEFINE Start(v, w) ==
       \E second \in BOOLEAN, r \in {Row("member", None), Row("support", 1)},
              s \in {None, Row("support", 1)}, b \in SUBSET Farms :
        /\ tenant = [x \in Tenants |-> IF x = v \/ second THEN "active" ELSE "none"]
        /\ member = [x \in Tenants |-> [y \in Users |->
             CASE y = w /\ (x = v \/ second) -> Row("owner", None)
               [] y \notin Admins \cup {w} /\ x = v -> r
               [] y \in Admins /\ x = v -> s
               [] OTHER -> None]]
        /\ \E of \in [b -> {x \in Tenants : x = v \/ second}] :
             /\ \A f, g \in b : of[f] = of[g] => f = g
             /\ farm = [f \in Farms |-> IF f \in b THEN [tenant |-> of[f], owner |-> w] ELSE None]
             /\ grant = [f \in Farms |-> [y \in Users |-> IF f \in b /\ y = w
                  THEN [role |-> "owner", active |-> TRUE, until |-> None] ELSE None]]
<1>1. PICK t, u : t = (CHOOSE x \in Tenants : TRUE) /\ u = CHOOSE x \in Users \ Admins : TRUE
  OBVIOUS
<1>2. u \in Users
  <2>1. u \in Users \ Admins
    BY <1>1, TenancyAssumption
  <2> QED BY <2>1
<1>a1. Start(CHOOSE x \in Tenants : TRUE, CHOOSE x \in Users \ Admins : TRUE)
  BY Zenon DEF TenancyInit
<1>b1. Start(t, u)
  <2> HIDE DEF Start
  <2> QED BY <1>1, <1>a1
<1>3. PICK second \in BOOLEAN, r \in {Row("member", None), Row("support", 1)},
           s \in {None, Row("support", 1)}, b \in SUBSET Farms :
        /\ tenant = [x \in Tenants |-> IF x = t \/ second THEN "active" ELSE "none"]
        /\ member = [x \in Tenants |-> [y \in Users |->
             CASE y = u /\ (x = t \/ second) -> Row("owner", None)
               [] y \notin Admins \cup {u} /\ x = t -> r
               [] y \in Admins /\ x = t -> s
               [] OTHER -> None]]
        /\ \E of \in [b -> {x \in Tenants : x = t \/ second}] :
             /\ \A f, g \in b : of[f] = of[g] => f = g
             /\ farm = [f \in Farms |-> IF f \in b THEN [tenant |-> of[f], owner |-> u] ELSE None]
             /\ grant = [f \in Farms |-> [y \in Users |-> IF f \in b /\ y = u
                  THEN [role |-> "owner", active |-> TRUE, until |-> None] ELSE None]]
  BY <1>b1, Zenon
<1>4. PICK of \in [b -> {x \in Tenants : x = t \/ second}] :
        /\ farm = [f \in Farms |-> IF f \in b THEN [tenant |-> of[f], owner |-> u] ELSE None]
        /\ grant = [f \in Farms |-> [y \in Users |-> IF f \in b /\ y = u
                  THEN [role |-> "owner", active |-> TRUE, until |-> None] ELSE None]]
  BY <1>3
<1>5. /\ epoch = [x \in Tenants |-> [y \in Users |-> 0]] /\ token = [y \in Users |-> 0]
      /\ pond \in [Ponds -> {None} \cup {f \in Farms : Exists(f)}]
      /\ req = [c \in Clients |-> Idle] /\ now = 0 /\ spent = 0
  BY DEF TenancyInit
<1>6. /\ MaxRequests \in Nat /\ MaxNow \in Nat /\ 1 \in 0..(MaxRequests + 1) /\ 1 \in 1..(MaxNow + 1)
      /\ None # Gone /\ None # 1
  BY TenancyAssumption
<1>7. ASSUME NEW m \in {Row("owner", None), Row("member", None), Row("support", 1)}
      PROVE  m \in Membership /\ Support(m) /\ m.version = 1
  <2>1. CASE m = Row("owner", None)
    <3>1. m = [role |-> "owner", active |-> TRUE, until |-> None, version |-> 1]
      BY <2>1 DEF Row
    <3> QED BY <1>6, <3>1 DEF Membership, ROLE, Support
  <2>2. CASE m = Row("member", None)
    <3>1. m = [role |-> "member", active |-> TRUE, until |-> None, version |-> 1]
      BY <2>2 DEF Row
    <3> QED BY <1>6, <3>1 DEF Membership, ROLE, Support
  <2>3. CASE m = Row("support", 1)
    <3>1. m = [role |-> "support", active |-> TRUE, until |-> 1, version |-> 1]
      BY <2>3 DEF Row
    <3> QED BY <1>6, <3>1 DEF Membership, ROLE, Support
  <2> QED BY <1>7, <2>1, <2>2, <2>3
<1>8. ASSUME NEW x \in Tenants, NEW y \in Users
      PROVE  member[x][y] \in {None, Row("owner", None), Row("member", None), Row("support", 1)}
  BY <1>3
<1>9. /\ member \in [Tenants -> [Users -> Membership \cup {None}]]
      /\ \A x \in Tenants, y \in Users :
            member[x][y] # None => Support(member[x][y]) /\ member[x][y].version = 1
  <2>1. \A x \in Tenants, y \in Users : member[x][y] \in Membership \cup {None}
    BY <1>7, <1>8
  <2>2. member = [x \in Tenants |-> [y \in Users |-> member[x][y]]]
    BY <1>3
  <2> QED BY <1>7, <1>8, <2>1, <2>2
<1>10. /\ grant \in [Farms -> [Users -> Grant \cup {None}]]
       /\ \A f \in Farms, y \in Users : grant[f][y] # None => Support(grant[f][y])
  <2>1. PICK g : g = [role |-> "owner", active |-> TRUE, until |-> None]
    OBVIOUS
  <2>2. g \in Grant /\ Support(g)
    BY <2>1 DEF Grant, ROLE, Support
  <2>3. grant = [f \in Farms |-> [y \in Users |-> IF f \in b /\ y = u THEN g ELSE None]]
    BY <1>4, <2>1
  <2> QED BY <2>2, <2>3
<1>11. farm \in [Farms -> {None, Gone} \cup FarmRow]
  <2>1. ASSUME NEW f \in b PROVE [tenant |-> of[f], owner |-> u] \in FarmRow
    BY <1>2 DEF FarmRow
  <2> QED BY <1>4, <2>1
<1>12. RowsOK
  <2>1. tenant \in [Tenants -> {"none", "active", "inactive"}]
    BY <1>3
  <2>2. epoch \in [Tenants -> [Users -> Nat]] /\ token \in [Users -> Nat]
    BY <1>5
  <2>3. pond \in [Ponds -> {None, Gone} \cup Farms] /\ NoOrphanPond
    <3>1. \A p \in Ponds : pond[p] = None \/ (pond[p] \in Farms /\ Exists(pond[p]))
      BY <1>5
    <3>2. pond \in [Ponds -> {None, Gone} \cup Farms]
      BY <1>5
    <3> QED BY <3>1, <3>2, TenancyAssumption DEF NoOrphanPond
  <2> QED BY <1>5, <1>6, <1>9, <1>10, <1>11, <2>1, <2>2, <2>3 DEF RowsOK
<1>13. CountOK
  <2>1. Flying = {}
    BY <1>5 DEF Flying, Idle
  <2>2. Cardinality(Flying) = 0
    BY <2>1, FS_EmptySet
  <2> QED BY <1>5, <1>6, <1>9, <2>2 DEF CountOK
<1>14. \A c \in Clients : req[c] = Idle
  BY <1>5
<1>15. req \in [Clients -> RequestSet] /\ \A c \in Clients : RequestOK(req[c])
  BY <1>5, <1>14, IdleOK
<1>16. \A c, d \in Clients : c # d => Apart(req[c], req[d])
  BY <1>14, IdleOK
<1> QED BY <1>12, <1>13, <1>15, <1>16 DEF TenancyInd

\* ... and so it always holds.
LEMMA TenancyInductive == TenancySpec => []TenancyInd
<1> QED BY TenancyInitInd, TenancyNextInd, PTL DEF TenancySpec

\* Of two requests that wait for each other one waits for the tenant's lock, a
\* membership or a farm; the other holds it, and none of the four fits but
\* CreateFarm's wait for a membership.
LEMMA DeadlockOfUpgrades == TenancyInd => OnlyUpgradesDeadlock
<1> DEFINE ForTenant(c, d) == /\ req[c].pc \in {"begin", "checked"} /\ HoldsTenant(d, Claims(c).tenant)
                              /\ Exclusive(c) \/ Exclusive(d)
           ForMember(c, d) == /\ req[c].pc = "authorized" /\ Runs(c, {"CreateFarm"})
                              /\ req[d].pc \in {"authorized", "looked"}
           ForFarm(c, d) == /\ Past(c, {"authorized", "looked"})
                            /\ Runs(c, {"SetFarmMember", "CreatePond", "DeleteFarm"})
                            /\ Runs(d, {"SetFarmOwner"}) /\ req[d].pc \in {"checked", "locked", "authorized"}
<1>1. ASSUME TenancyInd, NEW c \in Clients, NEW d \in Clients, d \in Blockers(c)
      PROVE  c # d /\ (ForTenant(c, d) \/ ForMember(c, d) \/ ForFarm(c, d))
  <2>1. c # d
    BY <1>1 DEF Blockers
  <2>2. \/ ForTenant(c, d) \/ ForMember(c, d) \/ ForFarm(c, d)
        \/ /\ Past(c, {"authorized"}) /\ Runs(c, {"SetTenantMember"})
           /\ HoldsTenant(d, Claims(c).tenant)
    BY <1>1 DEF Blockers, Past, HoldsMember, HoldsFarm
  <2>3. CASE /\ Past(c, {"authorized"}) /\ Runs(c, {"SetTenantMember"})
             /\ HoldsTenant(d, Claims(c).tenant)
    <3>1. /\ req[c].pc = "authorized" /\ ~Platform(req[c]) /\ LocksAlone(req[c])
          /\ LocksTenant(req[d], req[c].claims.tenant)
      BY <2>3, OfRecord DEF Past, Exclusive, Claims
    <3>2. LocksTenant(req[c], req[c].claims.tenant) /\ req[c].claims.tenant \in Tenants
      BY <1>1, <3>1, RequestHas DEF LocksTenant, RequestOK, Shape, TxPcs
    <3>3. Apart(req[c], req[d])
      BY <1>1, <2>1, RequestHas
    <3> QED BY <3>1, <3>2, <3>3 DEF Apart
  <2> QED BY <2>1, <2>2, <2>3
<1>2. ASSUME TenancyInd, NEW c \in Clients, NEW d \in Clients, d \in Blockers(c), c \in Blockers(d)
      PROVE  Runs(c, {"CreateFarm"}) /\ Runs(d, {"CreateFarm"})
  <2>1. ForTenant(c, d) \/ ForMember(c, d) \/ ForFarm(c, d)
    BY <1>1, <1>2
  <2>2. ForTenant(d, c) \/ ForMember(d, c) \/ ForFarm(d, c)
    BY <1>1, <1>2
  <2>3. ~ForTenant(c, d)
    BY <2>2 DEF HoldsTenant, Past, Exclusive, Runs
  <2>4. ~ForTenant(d, c)
    BY <2>1 DEF HoldsTenant, Past, Exclusive, Runs
  <2> QED BY <2>1, <2>2, <2>3, <2>4 DEF Runs
<1> QED BY <1>2 DEF OnlyUpgradesDeadlock

\* What the inductive invariant says of a request is what the run checks.
LEMMA TenancyIndGives == TenancyInd => WritesStandOnGrants
<1> SUFFICES ASSUME TenancyInd PROVE WritesStandOnGrants
  OBVIOUS
<1>1. TenancyTypeOK
  BY DEF TenancyInd, RowsOK, CountOK, TenancyTypeOK
<1>2. WriteUnderGrant
  <2> SUFFICES ASSUME NEW c \in Clients, Past(c, {"authorized", "looked"})
               PROVE  /\ tenant[Claims(c).tenant] = "active"
                      /\ epoch[Claims(c).tenant][Claims(c).user] = Claims(c).epoch
                      /\ member[Claims(c).tenant][Claims(c).user].active
                      /\ member[Claims(c).tenant][Claims(c).user].role = Claims(c).role
                      /\ Claims(c).user \notin Admins
    BY Zenon DEF WriteUnderGrant
  <2>1. /\ req[c].pc \in {"authorized", "looked"} /\ req[c].pc \in TxPcs
        /\ req[c].pc # "idle" /\ req[c].pc # "locked" /\ ~Platform(req[c])
    BY OfRecord DEF Past, TxPcs
  <2>2. Shape(req[c]) /\ GrantOK(req[c])
    BY RequestHas DEF RequestOK
  <2>3. req[c].claims.tenant \in Tenants /\ req[c].claims.tenant # None
    BY <2>1, <2>2, TenancyAssumption DEF Shape
  <2>4. LocksTenant(req[c], req[c].claims.tenant)
    BY <2>1 DEF LocksTenant
  <2> QED BY <2>1, <2>2, <2>3, <2>4 DEF GrantOK, Claims
<1>3. PlatformWriteUnderToken
  <2>1. \A c \in Clients : TokenOK(req[c]) /\ (ByPlatform(c) <=> Platform(req[c]))
    BY RequestHas, OfRecord DEF RequestOK
  <2> QED BY <2>1 DEF PlatformWriteUnderToken, TokenOK, Claims
<1>4. NoOrphanPond
  BY DEF TenancyInd, RowsOK
<1> QED BY <1>1, <1>2, <1>3, <1>4, DeadlockOfUpgrades DEF WritesStandOnGrants

\* Whatever the numbers of users, tenants and requests, until it commits a tenant
\* write stands on the grant (AuthorizeTenantWrite) and a platform write on the
\* password (AuthorizePlatformWrite) it was admitted with, no pond loses its farm,
\* and no two transactions but CreateFarm's wait for each other.
THEOREM WritesStandOnGrantsAlways == TenancySpec => []WritesStandOnGrants
  BY TenancyInductive, TenancyIndGives, PTL

-----------------------------------------------------------------------------
\* What the writes do to farms, their members and ponds.

ByTenant(x) == \E c \in Clients :
    Past(c, {"authorized", "looked"}) /\ Claims(c).tenant = x /\ tenant[x] = "active"
TenantOf(f) == IF Exists(f) THEN farm[f].tenant ELSE farm'[f].tenant

\* A request that is authorised writes for its tenant.
LEMMA AuthorizedByTenant ==
    ASSUME TenancyInd, NEW c \in Clients, Past(c, {"authorized", "looked"})
    PROVE  ByTenant(Claims(c).tenant) /\ Claims(c).tenant \in Tenants
<1>1. /\ req[c].pc \in {"authorized", "looked"} /\ req[c].pc \in TxPcs
      /\ req[c].pc # "idle" /\ req[c].pc # "locked" /\ ~Platform(req[c])
  BY OfRecord DEF Past, TxPcs
<1>2. Shape(req[c]) /\ GrantOK(req[c])
  BY RequestHas DEF RequestOK
<1>3. req[c].claims.tenant \in Tenants /\ req[c].claims.tenant # None
  BY <1>1, <1>2, TenancyAssumption DEF Shape
<1>4. LocksTenant(req[c], req[c].claims.tenant)
  BY <1>1 DEF LocksTenant
<1>5. tenant[req[c].claims.tenant] = "active"
  BY <1>2, <1>3, <1>4, <1>1 DEF GrantOK
<1> QED BY <1>3, <1>5 DEF ByTenant, Claims

\* A step that writes the rows of one tenant.
LEMMA InOneTenant ==
    ASSUME NEW x, ByTenant(x),
           \A f \in Farms : farm'[f] # farm[f] \/ grant'[f] # grant[f] => TenantOf(f) = x,
           \A p \in Ponds : pond'[p] # pond[p] =>
              TenantOf(IF pond[p] \in Farms THEN pond[p] ELSE pond'[p]) = x
    PROVE  OneTenantPerWrite
  BY DEF OneTenantPerWrite, ByTenant, TenantOf

\* A step that writes none of them.
LEMMA InNoTenant ==
    ASSUME UNCHANGED <<farm, grant, pond>>
    PROVE  NewOwnerIsMember /\ OneTenantPerWrite
<1>1. NewOwnerIsMember
  BY DEF NewOwnerIsMember, Exists
<1>2. OneTenantPerWrite
  BY DEF OneTenantPerWrite
<1> QED BY <1>1, <1>2

\* CreateFarm.
LEMMA CreateFarmInTenant ==
    ASSUME TenancyInd, NEW c \in Clients, CreateFarm(c)
    PROVE  NewOwnerIsMember /\ OneTenantPerWrite
<1>1. Past(c, {"authorized", "looked"}) /\ req[c].pc = "authorized" /\ req[c].op = "CreateFarm"
  BY DEF CreateFarm, At, Past, ByPlatform, Runs
<1>2. ByTenant(Claims(c).tenant) /\ Claims(c).tenant \in Tenants
  BY <1>1, AuthorizedByTenant
<1>3. CASE Fail(c)
  BY <1>3, InNoTenant DEF Fail, rows
<1>4. CASE ~Fail(c)
  <2>1. PICK t, o : t = Claims(c).tenant /\ o = req[c].owner
    OBVIOUS
  <2>2. PICK row : row = [tenant |-> t, owner |-> o]
    OBVIOUS
  <2>3. PICK f \in Farms : farm[f] = None /\ farm' = [farm EXCEPT ![f] = row]
    BY <1>4, <2>1, <2>2 DEF CreateFarm
  <2>4. o # None => MayOwn(c, o)
    BY <1>4, <2>1 DEF CreateFarm
  <2>5. UNCHANGED <<grant, pond>>
    BY <1>4 DEF CreateFarm
  <2>6. farm \in [Farms -> {None, Gone} \cup FarmRow]
    BY DEF TenancyInd, RowsOK
  <2>7. \A g \in Farms : farm'[g] = IF g = f THEN row ELSE farm[g]
    BY <2>3, <2>6
  <2>8. ~Exists(f)
    BY <2>3 DEF Exists
  <2>9. NewOwnerIsMember
    <3>1. o # None => member[t][o] # None /\ member[t][o].active
      BY <2>1, <2>4 DEF MayOwn, Unexpired
    <3>2. row.tenant = t /\ row.owner = o
      BY <2>2
    <3> QED BY <2>7, <2>8, <3>1, <3>2 DEF NewOwnerIsMember, Exists
  <2>10. OneTenantPerWrite
    <3>1. TenantOf(f) = t
      BY <2>2, <2>7, <2>8 DEF TenantOf
    <3> QED BY <1>2, <2>1, <2>5, <2>7, <3>1, InOneTenant
  <2> QED BY <2>9, <2>10
<1> QED BY <1>3, <1>4

\* SetFarmOwner.
LEMMA SetFarmOwnerInTenant ==
    ASSUME TenancyInd, NEW c \in Clients, SetFarmOwner(c)
    PROVE  NewOwnerIsMember /\ OneTenantPerWrite
<1>1. Past(c, {"authorized", "looked"}) /\ req[c].pc = "authorized" /\ req[c].op = "SetFarmOwner"
  BY DEF SetFarmOwner, At, Past, ByPlatform, Runs
<1>2. ByTenant(Claims(c).tenant) /\ Claims(c).tenant \in Tenants
  BY <1>1, AuthorizedByTenant
<1>3. CASE Fail(c)
  BY <1>3, InNoTenant DEF Fail, rows
<1>4. CASE ~Fail(c)
  <2>1. PICK t, f, o : t = Claims(c).tenant /\ f = req[c].farm /\ o = req[c].owner
    OBVIOUS
  <2>2. f \in Farms /\ Exists(f) /\ farm[f].tenant = t
    BY <1>1, <2>1, RequestHas DEF RequestOK, Shape, FarmOK, Claims, TxPcs
  <2>3. farm[f] \in FarmRow /\ farm \in [Farms -> {None, Gone} \cup FarmRow]
        /\ grant \in [Farms -> [Users -> Grant \cup {None}]]
    BY <2>2 DEF TenancyInd, RowsOK, Exists
  <2>4. PICK row : row = [farm[f] EXCEPT !.owner = o]
    OBVIOUS
  <2>5. farm' = [farm EXCEPT ![f] = row] /\ (o # None => StillMember(c, o))
    BY <1>4, <2>1, <2>4 DEF SetFarmOwner
  <2>6. \A g \in Farms : farm'[g] = IF g = f THEN row ELSE farm[g]
    BY <2>3, <2>5
  <2>7. \A g \in Farms : g # f => grant'[g] = grant[g]
    <3>1. PICK new : grant' = [grant EXCEPT ![f] = new]
      BY <1>4, <2>1 DEF SetFarmOwner
    <3> QED BY <2>3, <3>1
  <2>8. UNCHANGED pond
    BY <1>4 DEF SetFarmOwner
  <2>9. NewOwnerIsMember
    <3>1. o # None => member[t][o] # None /\ member[t][o].active
      BY <2>1, <2>5 DEF StillMember, Unexpired
    <3>2. row.tenant = t /\ row.owner = o
      BY <2>2, <2>3, <2>4 DEF FarmRow
    <3> QED BY <2>6, <3>1, <3>2 DEF NewOwnerIsMember, Exists
  <2>10. OneTenantPerWrite
    <3>1. TenantOf(f) = t
      BY <2>2 DEF TenantOf
    <3> QED BY <1>2, <2>1, <2>6, <2>7, <2>8, <3>1, InOneTenant
  <2> QED BY <2>9, <2>10
<1> QED BY <1>3, <1>4

\* SetFarmMember.
LEMMA SetFarmMemberInTenant ==
    ASSUME TenancyInd, NEW c \in Clients, SetFarmMember(c)
    PROVE  NewOwnerIsMember /\ OneTenantPerWrite
<1>1. Past(c, {"authorized", "looked"}) /\ req[c].pc = "authorized" /\ req[c].op = "SetFarmMember"
  BY DEF SetFarmMember, At, Past, ByPlatform, Runs
<1>2. ByTenant(Claims(c).tenant) /\ Claims(c).tenant \in Tenants
  BY <1>1, AuthorizedByTenant
<1>3. CASE Fail(c)
  BY <1>3, InNoTenant DEF Fail, rows
<1>4. CASE ~Fail(c)
  <2>1. PICK t, f, o : t = Claims(c).tenant /\ f = req[c].farm /\ o = req[c].owner
    OBVIOUS
  <2>2. Exists(f) /\ UNCHANGED <<farm, pond>>
    BY <1>4, <2>1 DEF SetFarmMember
  <2>3. f \in Farms /\ farm[f].tenant = t
    BY <1>1, <2>1, <2>2, RequestHas DEF RequestOK, Shape, FarmOK, Claims, TxPcs
  <2>4. grant \in [Farms -> [Users -> Grant \cup {None}]]
    BY DEF TenancyInd, RowsOK
  <2>5. PICK r \in Granted, a \in BOOLEAN :
            /\ o \in Admins => r = "support"
            /\ grant' = [grant EXCEPT ![f][o] = [role |-> r, active |-> a, until |-> Until(c, r)]]
    BY <1>4, <2>1, Zenon DEF SetFarmMember
  <2>6. \A g \in Farms : g # f => grant'[g] = grant[g]
    BY <2>4, <2>5
  <2>7. NewOwnerIsMember
    BY <2>2 DEF NewOwnerIsMember, Exists
  <2>8. TenantOf(f) = t
    BY <2>2, <2>3 DEF TenantOf
  <2> QED BY <1>2, <2>1, <2>2, <2>6, <2>7, <2>8, InOneTenant
<1> QED BY <1>3, <1>4

\* DeleteFarm.
LEMMA DeleteFarmInTenant ==
    ASSUME TenancyInd, NEW c \in Clients, DeleteFarm(c)
    PROVE  NewOwnerIsMember /\ OneTenantPerWrite
<1>1. Past(c, {"authorized", "looked"}) /\ req[c].pc = "looked"
  BY DEF DeleteFarm, At, Past, ByPlatform, Runs
<1>2. ByTenant(Claims(c).tenant) /\ Claims(c).tenant \in Tenants
  BY <1>1, AuthorizedByTenant
<1>3. CASE Fail(c)
  BY <1>3, InNoTenant DEF Fail, rows
<1>4. CASE ~Fail(c)
  <2>1. PICK f : f = req[c].farm
    OBVIOUS
  <2>2. /\ InTenant(c, f) /\ farm' = [farm EXCEPT ![f] = Gone] /\ UNCHANGED pond
        /\ grant' = [grant EXCEPT ![f] = [u \in Users |-> None]]
    BY <1>4, <2>1 DEF DeleteFarm
  <2>3. farm \in [Farms -> {None, Gone} \cup FarmRow] /\ grant \in [Farms -> [Users -> Grant \cup {None}]]
    BY DEF TenancyInd, RowsOK
  <2>4. /\ \A g \in Farms : farm'[g] = IF g = f THEN Gone ELSE farm[g]
        /\ \A g \in Farms : g # f => grant'[g] = grant[g]
    BY <2>2, <2>3
  <2>5. NewOwnerIsMember
    BY <2>4 DEF NewOwnerIsMember, Exists
  <2>6. TenantOf(f) = Claims(c).tenant
    BY <2>2 DEF InTenant, TenantOf
  <2>7. OneTenantPerWrite
    BY <1>2, <2>2, <2>4, <2>6, InOneTenant
  <2> QED BY <2>5, <2>7
<1> QED BY <1>3, <1>4

\* CreatePond.
LEMMA CreatePondInTenant ==
    ASSUME TenancyInd, NEW c \in Clients, CreatePond(c)
    PROVE  NewOwnerIsMember /\ OneTenantPerWrite
<1>1. Past(c, {"authorized", "looked"}) /\ req[c].pc = "looked" /\ req[c].op = "CreatePond"
  BY DEF CreatePond, At, Past, ByPlatform, Runs
<1>2. ByTenant(Claims(c).tenant) /\ Claims(c).tenant \in Tenants
  BY <1>1, AuthorizedByTenant
<1>3. CASE Fail(c)
  BY <1>3, InNoTenant DEF Fail, rows
<1>4. CASE ~Fail(c)
  <2>1. PICK f : f = req[c].farm
    OBVIOUS
  <2>2. Exists(f) /\ UNCHANGED <<farm, grant>>
    BY <1>4, <2>1 DEF CreatePond
  <2>3. f \in Farms /\ farm[f].tenant = Claims(c).tenant
    BY <1>1, <2>1, <2>2, RequestHas DEF RequestOK, Shape, FarmOK, Claims, TxPcs
  <2>4. PICK p \in Ponds : pond[p] = None /\ pond' = [pond EXCEPT ![p] = f]
    BY <1>4, <2>1 DEF CreatePond
  <2>5. pond \in [Ponds -> {None, Gone} \cup Farms]
    BY DEF TenancyInd, RowsOK
  <2>6. pond[p] \notin Farms /\ \A q \in Ponds : pond'[q] = IF q = p THEN f ELSE pond[q]
    BY <2>4, <2>5, TenancyAssumption
  <2>7. NewOwnerIsMember
    BY <2>2 DEF NewOwnerIsMember, Exists
  <2>8. TenantOf(f) = Claims(c).tenant
    BY <2>2, <2>3 DEF TenantOf
  <2> QED BY <1>2, <2>2, <2>6, <2>7, <2>8, InOneTenant
<1> QED BY <1>3, <1>4

\* DeletePond.
LEMMA DeletePondInTenant ==
    ASSUME TenancyInd, NEW c \in Clients, DeletePond(c)
    PROVE  NewOwnerIsMember /\ OneTenantPerWrite
<1>1. Past(c, {"authorized", "looked"})
  BY DEF DeletePond, At, Past, ByPlatform, Runs
<1>2. ByTenant(Claims(c).tenant) /\ Claims(c).tenant \in Tenants
  BY <1>1, AuthorizedByTenant
<1>3. CASE Fail(c)
  BY <1>3, InNoTenant DEF Fail, rows
<1>4. CASE ~Fail(c)
  <2>1. PICK p \in Ponds : /\ pond[p] \in Farms /\ InTenant(c, pond[p])
                           /\ pond' = [pond EXCEPT ![p] = Gone]
    BY <1>4 DEF DeletePond
  <2>2. UNCHANGED <<farm, grant>>
    BY <1>4 DEF DeletePond
  <2>3. \A q \in Ponds : pond'[q] = IF q = p THEN Gone ELSE pond[q]
    BY <2>1 DEF TenancyInd, RowsOK
  <2>4. NewOwnerIsMember
    BY <2>2 DEF NewOwnerIsMember, Exists
  <2>5. TenantOf(pond[p]) = Claims(c).tenant
    BY <2>1 DEF TenantOf, InTenant
  <2> QED BY <1>2, <2>1, <2>2, <2>3, <2>4, <2>5, InOneTenant
<1> QED BY <1>3, <1>4

\* Every step of the console.
LEMMA StepInTenant == TenancyInd /\ [TenancyNext]_tenancyVars => NewOwnerIsMember /\ OneTenantPerWrite
<1> SUFFICES ASSUME TenancyInd, [TenancyNext]_tenancyVars PROVE NewOwnerIsMember /\ OneTenantPerWrite
  OBVIOUS
<1>1. ASSUME NEW c \in Clients,
             \/ CreateFarm(c) \/ SetFarmOwner(c) \/ SetFarmMember(c)
             \/ DeleteFarm(c) \/ CreatePond(c) \/ DeletePond(c)
      PROVE  NewOwnerIsMember /\ OneTenantPerWrite
  BY <1>1, CreateFarmInTenant, SetFarmOwnerInTenant, SetFarmMemberInTenant,
     DeleteFarmInTenant, CreatePondInTenant, DeletePondInTenant
<1>2. ASSUME NEW c \in Clients, NEW op, Submit(c, op) PROVE UNCHANGED <<farm, grant, pond>>
  BY <1>2 DEF Submit, rows
<1>3. ASSUME NEW c \in Clients,
             \/ createTenant(c) \/ setTenantStatus(c) \/ setTenantMember(c)
             \/ createFarm(c) \/ updateFarm(c) \/ deleteFarm(c) \/ setFarmOwner(c) \/ setFarmMember(c)
             \/ createPond(c) \/ updatePond(c) \/ deletePond(c)
      PROVE  UNCHANGED <<farm, grant, pond>>
  BY <1>2, <1>3 DEF createTenant, setTenantStatus, setTenantMember, createFarm, updateFarm, deleteFarm,
     setFarmOwner, setFarmMember, createPond, updatePond, deletePond
<1>4. ASSUME NEW c \in Clients,
             \/ Arrive(c) \/ EndWithoutWrite(c) \/ Rollback(c) \/ UpdateFarm(c) \/ UpdatePond(c)
             \/ PrecheckOwner(c) \/ PrecheckMember(c) \/ LockTenant(c)
             \/ AuthorizeTenantWrite(c) \/ AuthorizePlatformWrite(c) \/ Lookup(c)
      PROVE  UNCHANGED <<farm, grant, pond>>
  BY <1>4 DEF Arrive, EndWithoutWrite, Rollback, UpdateFarm, UpdatePond, PrecheckOwner, PrecheckMember,
     LockTenant, AuthorizeTenantWrite, AuthorizePlatformWrite, Lookup, Fail, Goto, With, rows
<1>5. ASSUME NEW c \in Clients, CreateTenant(c) \/ SetTenantActive(c) \/ SetTenantMember(c)
      PROVE  UNCHANGED <<farm, grant, pond>>
  BY <1>5 DEF CreateTenant, SetTenantActive, SetTenantMember, Fail, rows
<1>6. ASSUME (\E u \in Users : ChangePassword(u)) \/ TenancyTick \/ UNCHANGED tenancyVars
      PROVE  UNCHANGED <<farm, grant, pond>>
  BY <1>6 DEF ChangePassword, TenancyTick, tenancyVars, rows
<1> QED BY <1>1, <1>3, <1>4, <1>5, <1>6, InNoTenant DEF TenancyNext

\* Whatever the numbers of tenants and requests, a write reaches the rows of one
\* active tenant, that of its claims, and makes only members owners (SetFarmOwner,
\* CreateFarm).
THEOREM WritesStayInTenantAlways == TenancySpec => WritesStayInTenant
<1>1. TenancyInd /\ [TenancyNext]_tenancyVars => [NewOwnerIsMember /\ OneTenantPerWrite]_tenancyVars
  BY StepInTenant
<1> QED BY <1>1, TenancyInductive, PTL DEF TenancySpec, WritesStayInTenant

-----------------------------------------------------------------------------
\* What the app and the console show, and the two writes of the app.  A request
\* that runs carries what it has seen: the inductive invariant says of every
\* question still to be asked that its answer may be shown, or that the question
\* before it will see to that.

Claim == [rank : Ranks, version : 0..MaxEdits]
Items == [what : {"pond", "device", "latest", "model", "history", "alarm"},
          pool : Pools, thing : Things \cup {Void}]
Questions ==
    [name : {"ponds", "alarms", "readings"}, of : {Void}]
    \cup [name : {"each"}, of : {"none", "readings"}]
    \cup [name : {"pond", "devices", "pondLatest"}, of : Pools]
    \cup [name : {"device", "latest", "visible", "history", "model"}, of : Things]
    \cup [name : {"page", "pageAll"}, of : Pools \cup {Void}]
CallRow ==
    [pc : {"free", "query", "update", "exists", "ok", "notFound", "select", "authorize", "insert"},
     via : {"none", "app", "console"}, claims : Claim \cup {Void},
     todo : Seq(Questions), got : SUBSET Items,
     alarm : Nat \cup {Void}, thing : Things \cup {Void}, pool : Pools \cup {Void},
     seen : SUBSET Sites, moved : BOOLEAN, stale : BOOLEAN, kept : BOOLEAN]
Alarm == [pool : Pools, level : {"warning", "critical"}, open : BOOLEAN]

Rows ==
    /\ call \in [Calls -> CallRow]
    /\ alarms \in Seq(Alarm)
    /\ edits \in 0..MaxEdits /\ post.version <= edits

\* The console goes by claims that are no longer true.
Excused(k) == k.via = "console" /\ k.stale

\* The request may show what is in the pond.
Shown(k, p) == SiteOf[p] \in k.seen \/ Excused(k)

\* What the claims entitle to now has been noted; they are true until a change.
ClaimsOK(k) == k.pc # "free" =>
    /\ k.via \in {"app", "console"} /\ k.claims \in Claim
    /\ Entitled(k.claims, post, owned, shared) \subseteq k.seen
    /\ ~k.stale => post.live /\ post.rank = k.claims.rank

\* A device that was found is in its pond unless a device moved.
Found(k, i) ==
    /\ Shown(k, i.pool) \/ (i.what = "latest" /\ k.moved)
    /\ i.what = "device" => i.thing \in Things /\ (i.pool = place[i.thing] \/ k.moved)
GotOK(k) == \A i \in k.got : Found(k, i)

\* A question that has no scope of its own is about a pond, or a device, that may
\* be shown; or the question asked next makes sure of it.
Safe(k, q) ==
    /\ q.name \in {"devices", "pondLatest"} => Shown(k, q.of)
    /\ q.name = "latest" => Shown(k, place[q.of]) \/ k.moved
Guarded(g, q) ==
    \/ q.name = "devices" /\ g = Q("pond", q.of)
    \/ q.name = "latest" /\ g = Q("device", q.of)
TodoOK(k) == \A n \in 1..Len(k.todo) :
    Safe(k, k.todo[n]) \/ (n > 1 /\ Guarded(k.todo[1], k.todo[n]))

\* Who could confirm the alarm all the time can do so now.
ConfirmOK(k) ==
    /\ k.pc \in {"update", "exists"} =>
          /\ k.via = "app" /\ k.alarm \in 1..Len(alarms)
          /\ k.kept => MayConfirm(k.claims, post, owned, shared, k.alarm)
    /\ k.pc = "exists" /\ k.kept => ~alarms[k.alarm].open
    /\ k.pc = "notFound" => ~k.kept

\* A submission holds the device it has read, and at the end the membership.
SubmitOK(k) ==
    /\ k.pc = "select" => k.thing \in Things
    /\ k.pc \in {"authorize", "insert"} =>
          k.thing \in Things \ off /\ k.pool = place[k.thing]
    /\ k.pc = "insert" => post.live /\ post.version = k.claims.version

CallOK(k) == ClaimsOK(k) /\ GotOK(k) /\ TodoOK(k) /\ ConfirmOK(k) /\ SubmitOK(k)
CallsInv == \A c \in Calls : CallOK(call[c])
ReadsInv == ReadsTypeOK /\ Rows /\ CallsInv

\* The initial states satisfy the inductive invariant.
LEMMA InitReads == ReadsInit => ReadsInv
<1> SUFFICES ASSUME ReadsInit PROVE ReadsInv
  OBVIOUS
<1>1. NoCall \in CallRow
  <2>1. <<>> \in Seq(Questions)
    BY EmptySeq
  <2> QED BY <2>1 DEF NoCall, CallRow
<1>2. alarms \in Seq(Alarm) /\ post.version = 0 /\ 0 \in 0..MaxEdits
  BY ReadsAssumption, EmptySeq DEF ReadsInit
<1>3. Rows
  BY <1>1, <1>2 DEF ReadsInit, Rows
<1>4. place \in [Things -> Pools] /\ owned \subseteq Sites /\ shared \subseteq Sites
  BY ReadsAssumption DEF ReadsInit
<1>5. ReadsTypeOK
  BY <1>2, <1>4 DEF ReadsInit, ReadsTypeOK
<1>6. CallOK(NoCall)
  BY EmptySeq DEF CallOK, ClaimsOK, GotOK, TodoOK, ConfirmOK, SubmitOK, NoCall
<1> QED BY <1>3, <1>5, <1>6 DEF ReadsInit, ReadsInv, CallsInv

\* The devices and the ponds of a set of items can be listed.
LEMMA Listed ==
    ASSUME NEW shownRows \in SUBSET Items, NEW what \in {"pond", "device"}
    PROVE  LET S == {i \in shownRows : i.what = what}
           IN Cardinality(S) \in Nat /\ SetToSeq(S) \in [1..Cardinality(S) -> S]
<1> DEFINE S == {i \in shownRows : i.what = what}
           B == Pools \X (Things \cup {Void})
           T == {i \in Items : i.what = what}
           f == [x \in B |-> Item(what, x[1], x[2])]
<1>1. IsFiniteSet(B)
  <2>1. IsFiniteSet(Things \cup {Void})
    BY ReadsAssumption, FS_AddElement
  <2> QED BY <2>1, ReadsAssumption, FS_Product
<1>2. f \in Surjection(B, T)
  <2>1. f \in [B -> T]
    BY DEF Item, Items
  <2>2. ASSUME NEW i \in T PROVE \E x \in B : f[x] = i
    <3>1. <<i.pool, i.thing>> \in B /\ i = Item(what, i.pool, i.thing)
      BY <2>2 DEF Item, Items
    <3> QED BY <3>1
  <2> QED BY <2>1, <2>2 DEF Surjection
<1>3. IsFiniteSet(T)
  BY <1>1, <1>2, FS_Surjection
<1>4. S \in SUBSET T
  OBVIOUS
<1>5. IsFiniteSet(S)
  BY <1>3, <1>4, FS_Subset
<1>6. Cardinality(S) \in Nat /\ ExistsBijection(1..Cardinality(S), S)
  BY <1>5, FS_CardinalityType
<1> HIDE DEF S
<1>7. \E g \in [1..Cardinality(S) -> S] : IsInjective(g)
  BY <1>6 DEF ExistsBijection, Bijection, Injection
<1>8. SetToSeq(S) \in [1..Cardinality(S) -> S]
  BY <1>7 DEF SetToSeq
<1> QED BY <1>6, <1>8 DEF S

\* The questions that follow from what was found: about the devices found ...
LEMMA LatestQuestions ==
    ASSUME NEW shownRows \in SUBSET Items, \A i \in shownRows : i.what = "device" => i.thing \in Things
    PROVE  /\ LatestOf(shownRows) \in Seq(Questions)
           /\ \A n \in 1..Len(LatestOf(shownRows)) : \E i \in shownRows :
                 i.what = "device" /\ LatestOf(shownRows)[n] = Q("latest", i.thing)
<1> DEFINE S == {i \in shownRows : i.what = "device"}
           found == SetToSeq(S)
           N == Cardinality(S)
<1>1. N \in Nat /\ found \in [1..N -> S]
  BY Listed
<1>2. LatestOf(shownRows) = [n \in 1..N |-> Q("latest", found[n].thing)]
  BY <1>1 DEF LatestOf
<1> HIDE DEF found, N
<1>3. LatestOf(shownRows) \in [1..N -> Questions]
  <2>1. \A n \in 1..N : Q("latest", found[n].thing) \in Questions
    BY <1>1 DEF Q, Questions
  <2> QED BY <1>2, <2>1
<1>4. LatestOf(shownRows) \in Seq(Questions)
  BY <1>1, <1>3, SeqDef
<1>5. Len(LatestOf(shownRows)) = N
  BY <1>1, <1>3, <1>4, LenProperties
<1> QED BY <1>1, <1>2, <1>4, <1>5

\* ... and about the ponds.
LEMMA DeviceQuestions ==
    ASSUME NEW shownRows \in SUBSET Items, NEW name \in {"devices", "pondLatest"}
    PROVE  /\ DevicesOf(shownRows, name) \in Seq(Questions)
           /\ \A n \in 1..Len(DevicesOf(shownRows, name)) : \E i \in shownRows :
                 i.what = "pond" /\ DevicesOf(shownRows, name)[n] = Q(name, i.pool)
<1> DEFINE S == {i \in shownRows : i.what = "pond"}
           found == SetToSeq(S)
           N == Cardinality(S)
<1>1. N \in Nat /\ found \in [1..N -> S]
  BY Listed
<1>2. DevicesOf(shownRows, name) = [n \in 1..N |-> Q(name, found[n].pool)]
  BY <1>1 DEF DevicesOf
<1> HIDE DEF found, N
<1>3. DevicesOf(shownRows, name) \in [1..N -> Questions]
  <2>1. \A n \in 1..N : Q(name, found[n].pool) \in Questions
    BY <1>1 DEF Q, Questions, Items
  <2> QED BY <1>2, <2>1
<1>4. DevicesOf(shownRows, name) \in Seq(Questions)
  BY <1>1, <1>3, SeqDef
<1>5. Len(DevicesOf(shownRows, name)) = N
  BY <1>1, <1>3, <1>4, LenProperties
<1> QED BY <1>1, <1>2, <1>4, <1>5

\* What a query may see the request may show.
LEMMA ScopeShown ==
    ASSUME ReadsInv, NEW c \in Calls, call[c].pc # "free", NEW p \in Pools, InScope(c, p)
    PROVE  Shown(call[c], p)
<1>1. ClaimsOK(call[c])
  BY DEF ReadsInv, CallsInv, CallOK
<1>2. SiteOf[p] \in Sites
  BY ReadsAssumption
<1> QED BY <1>1, <1>2 DEF InScope, Scope, appFarmScope, tenantFilter, Entitled, ClaimsOK, Shown, Excused

\* Every row of an answer may be shown.
LEMMA AnswerFound ==
    ASSUME ReadsInv, NEW c \in Calls, call[c].pc = "query",
           NEW q \in Questions, Safe(call[c], q), NEW i \in Answer(c, q)
    PROVE  i \in Items /\ Found(call[c], i)
<1> DEFINE k == call[c]
<1>1. /\ place \in [Things -> Pools] /\ off \subseteq Things
      /\ readings \subseteq [thing : Things, pool : Pools]
      /\ alarms \in Seq(Alarm)
  BY DEF ReadsInv, ReadsTypeOK, Rows
<1>2. \A p \in Pools : InScope(c, p) => Shown(k, p)
  BY ScopeShown
<1>3. CASE q.name = "ponds"
  BY <1>2, <1>3 DEF Answer, ListPonds, Item, Items, Found
<1>4. CASE q.name = "pond"
  <2>1. q.of \in Pools
    BY <1>4 DEF Questions
  <2> QED BY <1>2, <1>4, <2>1 DEF Answer, GetPond, Item, Items, Found
<1>5. CASE q.name \in {"devices", "pondLatest"}
  <2>1. q.of \in Pools /\ Shown(k, q.of)
    BY <1>5 DEF Questions, Safe
  <2> QED BY <1>1, <1>5, <2>1 DEF Answer, ListByPond, Item, Items, Found
<1>6. CASE q.name \in {"page", "pageAll"}
  <2>1. PICK d \in Things : i = Item("device", place[d], d) /\ InScope(c, place[d])
    BY <1>6 DEF Answer, ListPage
  <2> QED BY <1>1, <1>2, <2>1 DEF Item, Items, Found
<1>7. CASE q.name = "device"
  <2>1. q.of \in Things
    BY <1>7 DEF Questions
  <2> QED BY <1>1, <1>2, <1>7, <2>1 DEF Answer, GetDevice, Item, Items, Found
<1>8. CASE q.name = "latest"
  <2>1. q.of \in Things /\ (Shown(k, place[q.of]) \/ k.moved)
    BY <1>8 DEF Questions, Safe
  <2> QED BY <1>1, <1>8, <2>1 DEF Answer, Latest, Item, Items, Found
<1>9. CASE q.name = "model"
  <2>1. q.of \in Things
    BY <1>9 DEF Questions
  <2> QED BY <1>1, <1>2, <1>9, <2>1 DEF Answer, ModelLatestForUser, Item, Items, Found
<1>10. CASE q.name = "history"
  <2>1. q.of \in Things
    BY <1>10 DEF Questions
  <2>2. PICK x \in readings : i = Item("history", x.pool, q.of) /\ InScope(c, x.pool)
    BY <1>10 DEF Answer, HistoryForUser
  <2> QED BY <1>1, <1>2, <2>1, <2>2 DEF Item, Items, Found
<1>11. CASE q.name = "alarms"
  <2>1. PICK x \in Range(alarms) : i = Item("alarm", x.pool, Void) /\ InScope(c, x.pool)
    BY <1>11 DEF Answer, ListAlarms
  <2>2. x.pool \in Pools
    <3>1. PICK n \in DOMAIN alarms : x = alarms[n]
      BY DEF Range
    <3>2. alarms[n] \in Alarm
      BY <1>1, <3>1, LenProperties, ElementOfSeq
    <3> QED BY <3>1, <3>2 DEF Alarm
  <2> QED BY <1>2, <2>1, <2>2 DEF Item, Items, Found
<1>12. CASE q.name \in {"each", "readings", "visible"}
  BY <1>12 DEF Answer
<1> QED BY <1>3, <1>4, <1>5, <1>6, <1>7, <1>8, <1>9, <1>10, <1>11, <1>12 DEF Questions

\* An answer that does not end the request answers for the questions it guards.
LEMMA GuardHolds ==
    ASSUME ReadsInv, NEW c \in Calls, call[c].pc = "query", NEW g \in Questions,
           NEW q \in Questions, Guarded(g, q), ~Ends(c, g, Answer(c, g))
    PROVE  Safe(call[c], q)
<1>1. CASE q.name = "devices" /\ g = Q("pond", q.of)
  <2>1. q.of \in Pools /\ g.name = "pond" /\ g.of = q.of
    BY <1>1 DEF Questions, Q
  <2>2. InScope(c, q.of)
    BY <2>1 DEF Ends, Answer, GetPond
  <2> QED BY <1>1, <2>1, <2>2, ScopeShown DEF Safe
<1>2. CASE q.name = "latest" /\ g = Q("device", q.of)
  <2>1. q.of \in Things /\ g.name = "device" /\ g.of = q.of
    BY <1>2 DEF Questions, Q
  <2>2. InScope(c, place[q.of]) /\ place[q.of] \in Pools
    BY <2>1 DEF Ends, Answer, GetDevice, ReadsInv, ReadsTypeOK
  <2> QED BY <1>2, <2>1, <2>2, ScopeShown DEF Safe
<1> QED BY <1>1, <1>2 DEF Guarded

\* The questions that follow an answer may be asked.
LEMMA FollowSafe ==
    ASSUME ReadsInv, NEW c \in Calls, call[c].pc = "query",
           NEW q \in Questions, Safe(call[c], q)
    PROVE  /\ Follow(c, q, Answer(c, q)) \in Seq(Questions)
           /\ \A n \in 1..Len(Follow(c, q, Answer(c, q))) : Safe(call[c], Follow(c, q, Answer(c, q))[n])
<1> DEFINE k == call[c]
           shownRows == Answer(c, q)
<1>1. shownRows \in SUBSET Items /\ \A i \in shownRows : Found(k, i)
  BY AnswerFound
<1>2. k.got \in SUBSET Items /\ \A i \in k.got : Found(k, i)
  BY DEF ReadsInv, Rows, CallRow, CallsInv, CallOK, GotOK
<1> HIDE DEF k, shownRows
<1>3. ASSUME NEW R \in SUBSET Items, \A i \in R : Found(k, i)
      PROVE  LatestOf(R) \in Seq(Questions) /\ \A n \in 1..Len(LatestOf(R)) : Safe(k, LatestOf(R)[n])
  <2>1. \A i \in R : i.what = "device" => i.thing \in Things
    BY <1>3 DEF Found
  <2>2. ASSUME NEW n \in 1..Len(LatestOf(R)) PROVE Safe(k, LatestOf(R)[n])
    <3>1. PICK i \in R : i.what = "device" /\ LatestOf(R)[n] = Q("latest", i.thing)
      BY <2>1, <2>2, LatestQuestions
    <3> QED BY <1>3, <3>1 DEF Found, Safe, Q
  <2> QED BY <2>1, <2>2, LatestQuestions
<1>4. ASSUME NEW R \in SUBSET Items, \A i \in R : Found(k, i), NEW name \in {"devices", "pondLatest"}
      PROVE  /\ DevicesOf(R, name) \in Seq(Questions)
             /\ \A n \in 1..Len(DevicesOf(R, name)) : Safe(k, DevicesOf(R, name)[n])
  <2>2. ASSUME NEW n \in 1..Len(DevicesOf(R, name)) PROVE Safe(k, DevicesOf(R, name)[n])
    <3>1. PICK i \in R : i.what = "pond" /\ DevicesOf(R, name)[n] = Q(name, i.pool)
      BY <2>2, DeviceQuestions
    <3> QED BY <1>4, <3>1 DEF Found, Safe, Q
  <2> QED BY <2>2, DeviceQuestions
<1>5. CASE q.name = "each" /\ q.of = "readings"
  BY <1>2, <1>4, <1>5 DEF Follow, k
<1>6. CASE q.name = "each" /\ q.of # "readings"
  BY <1>2, <1>4, <1>6 DEF Follow, k
<1>7. CASE q.name = "pondLatest"
  BY <1>1, <1>3, <1>7 DEF Follow, shownRows, k
<1>8. CASE q.name = "readings"
  BY <1>2, <1>3, <1>8 DEF Follow, k
<1>9. CASE q.name \notin {"each", "pondLatest", "readings"}
  BY <1>9, EmptySeq DEF Follow
<1> QED BY <1>5, <1>6, <1>7, <1>8, <1>9 DEF k, shownRows

\* What the handlers ask at first: a question without a scope comes after the one
\* that guards it.
LEMMA HandlersGuarded ==
    ASSUME NEW t \in AppReads \cup ConsoleReads
    PROVE  /\ t \in Seq(Questions)
           /\ \A n \in 1..Len(t) : \/ t[n].name \notin {"devices", "pondLatest", "latest"}
                                   \/ n > 1 /\ Guarded(t[1], t[n])
<1> DEFINE Plain(q) == q \in Questions /\ q.name \notin {"devices", "pondLatest", "latest"}
           Good(s) == /\ s \in Seq(Questions)
                      /\ \A n \in 1..Len(s) : \/ s[n].name \notin {"devices", "pondLatest", "latest"}
                                              \/ n > 1 /\ Guarded(s[1], s[n])
<1>1. ASSUME NEW a, Plain(a) PROVE Good(<<a>>)
  BY <1>1
<1>2. ASSUME NEW a, NEW b, Plain(a), b \in Questions, Plain(b) \/ Guarded(a, b) PROVE Good(<<a, b>>)
  BY <1>2
<1>3. ASSUME NEW a, NEW b, NEW d, Plain(a), Plain(b), Plain(d) PROVE Good(<<a, b, d>>)
  BY <1>3
<1>4. ASSUME NEW p \in Pools PROVE Good(getPond(p))
  <2>1. /\ Q("pond", p) \in Questions /\ Q("devices", p) \in Questions
        /\ Q("alarms", Void) \in Questions /\ Q("readings", Void) \in Questions
    BY DEF Q, Questions
  <2>2. Guarded(Q("pond", p), Q("devices", p))
    BY DEF Q, Guarded
  <2> QED BY <2>1, <2>2 DEF getPond, Q
<1>5. Plain(Q("ponds", Void)) /\ Plain(Q("alarms", Void)) /\ Plain(Q("each", "readings")) /\ Plain(Q("each", "none"))
  BY DEF Q, Questions
<1>6. ASSUME NEW p \in Pools \cup {Void} PROVE Plain(Q("page", p)) /\ Plain(Q("pageAll", p))
  BY DEF Q, Questions
<1>7. ASSUME NEW d \in Things
      PROVE  /\ Plain(Q("device", d)) /\ Plain(Q("visible", d)) /\ Plain(Q("history", d)) /\ Plain(Q("model", d))
             /\ Q("latest", d) \in Questions /\ Guarded(Q("device", d), Q("latest", d))
  BY DEF Q, Questions, Guarded
<1>8. ASSUME NEW p \in Pools PROVE Plain(Q("pond", p))
  BY DEF Q, Questions
<1> HIDE DEF Plain, Good
<1>9. Good(listPonds) /\ Good(statsSummary) /\ Good(listAlarms)
  BY <1>1, <1>3, <1>5 DEF listPonds, statsSummary, listAlarms
<1>10. ASSUME NEW d \in Things
       PROVE  /\ Good(getDevice(d)) /\ Good(waterHistory(d))
              /\ Good(telemetryHistoryV2(d)) /\ Good(modelLatestV2(d))
  <2>1. Good(getDevice(d))
    BY <1>2, <1>7 DEF getDevice
  <2>2. Good(telemetryHistoryV2(d))
    <3>1. Q("history", d) \in Questions
      BY DEF Q, Questions
    <3> QED BY <1>2, <1>7, <3>1 DEF telemetryHistoryV2
  <2> QED BY <1>1, <1>7, <2>1, <2>2 DEF waterHistory, modelLatestV2
<1>11. ASSUME NEW p \in Pools \cup {Void} PROVE Good(listDevices(p))
  <2>1. CASE p = Void
    <3>1. listDevices(p) = <<Q("page", p)>>
      BY <2>1 DEF listDevices
    <3> QED BY <1>1, <1>6, <3>1
  <2>2. CASE p # Void
    <3>1. listDevices(p) = <<Q("pond", p), Q("page", p)>>
      BY <2>2 DEF listDevices
    <3>2. Q("page", p) \in Questions
      BY DEF Q, Questions
    <3> QED BY <1>2, <1>6, <1>8, <2>2, <3>1, <3>2
  <2> QED BY <2>1, <2>2
<1>12. ASSUME NEW p \in Pools \cup {Void}, NEW w \in {"page", "pageAll"} PROVE Good(consoleListDevices(p, w))
  BY <1>1, <1>6 DEF consoleListDevices
<1>13. ASSUME t \in AppReads PROVE Good(t)
  BY <1>4, <1>9, <1>10, <1>11, <1>13 DEF AppReads
<1>14. ASSUME t \in ConsoleReads PROVE Good(t)
  BY <1>9, <1>10, <1>12, <1>14 DEF ConsoleReads
<1>15. Good(t)
  BY <1>13, <1>14
<1> QED BY <1>15 DEF Good

\* A request as it arrives.
LEMMA ArrivedOK ==
    ASSUME ReadsInv, post.live, NEW via \in {"app", "console"},
           NEW pc \in {"query", "update", "select"}
    PROVE  LET k == Arrived(via, pc) IN
           /\ k \in CallRow /\ k.via = via /\ k.pc = pc
           /\ k.todo = <<>> /\ k.got = {} /\ k.claims = [rank |-> post.rank, version |-> post.version]
           /\ ClaimsOK(k)
<1> DEFINE m == [rank |-> post.rank, version |-> post.version]
           s == Entitled(m, post, owned, shared)
           k == Arrived(via, pc)
<1>1. m \in Claim
  BY DEF ReadsInv, ReadsTypeOK, Claim
<1>2. s \in SUBSET Sites
  BY DEF Entitled, ReadsInv, ReadsTypeOK
<1>3. NoCall \in CallRow
  <2>1. <<>> \in Seq(Questions)
    BY EmptySeq
  <2> QED BY <2>1 DEF NoCall, CallRow
<1>4. /\ k.pc = pc /\ k.via = via /\ k.claims = m /\ k.seen = s
      /\ k.todo = <<>> /\ k.got = {} /\ k.stale = FALSE
  BY DEF Arrived, NoCall
<1>5. k \in CallRow
  <2> HIDE DEF m, s
  <2>1. [NoCall EXCEPT !.pc = pc, !.via = via, !.claims = m, !.seen = s] \in CallRow
    BY <1>1, <1>2, <1>3 DEF CallRow
  <2> QED BY <2>1 DEF Arrived, m, s
<1>6. ClaimsOK(k)
  <2> HIDE DEF k
  <2> QED BY <1>1, <1>4 DEF ClaimsOK
<1> QED BY <1>4, <1>5, <1>6

\* A step of one request that changes nothing else.
LEMMA OneCall ==
    ASSUME ReadsInv, UNCHANGED world, NEW c \in Calls, NEW j \in CallRow, CallOK(j),
           call' = [call EXCEPT ![c] = j]
    PROVE  ReadsInv'
<1>1. ReadsTypeOK' /\ Rows'
  BY DEF world, ReadsInv, ReadsTypeOK, Rows
<1>2. ASSUME NEW e \in Calls PROVE CallOK(call[e])' 
  <2>1. PICK k : k = call'[e]
    OBVIOUS
  <2>2. CallOK(k)
    BY <2>1 DEF ReadsInv, CallsInv, Rows
  <2>3. CallOK(k)'
    BY <2>2 DEF world, CallOK, ClaimsOK, GotOK, Found, Shown, Excused, TodoOK, Safe, ConfirmOK,
                MayConfirm, SubmitOK
  <2> QED BY <2>1, <2>3
<1> QED BY <1>1, <1>2 DEF ReadsInv, CallsInv

\* Requests arrive.
LEMMA BeginStep ==
    ASSUME ReadsInv, NEW c \in Calls, BeginRead(c) \/ submitTelemetryV2(c)
    PROVE  ReadsInv'
<1>1. post.live
  BY DEF BeginRead, submitTelemetryV2, BeginCall
<1>2. ASSUME NEW via \in {"app", "console"}, NEW t \in AppReads \cup ConsoleReads,
             BeginCall(c, [Arrived(via, "query") EXCEPT !.todo = t])
      PROVE  ReadsInv'
  <2> DEFINE k == Arrived(via, "query")
             j == [k EXCEPT !.todo = t]
  <2>1. /\ k \in CallRow /\ k.via = via /\ k.pc = "query" /\ k.got = {} /\ ClaimsOK(k)
    BY <1>1, ArrivedOK
  <2> HIDE DEF k
  <2>2. /\ j \in CallRow /\ j.pc = "query" /\ j.via = via /\ j.got = {} /\ j.todo = t
        /\ j.claims = k.claims /\ j.seen = k.seen /\ j.stale = k.stale
    BY <2>1, HandlersGuarded DEF CallRow
  <2> HIDE DEF j
  <2>3. CallOK(j)
    BY <2>1, <2>2, HandlersGuarded DEF CallOK, ClaimsOK, GotOK, TodoOK, Safe, ConfirmOK, SubmitOK
  <2> QED BY <1>2, <2>2, <2>3, OneCall DEF BeginCall, j, k
<1>3. ASSUME NEW d \in Things, BeginCall(c, [Arrived("app", "select") EXCEPT !.thing = d])
      PROVE  ReadsInv'
  <2> DEFINE k == Arrived("app", "select")
             j == [k EXCEPT !.thing = d]
  <2>1. /\ k \in CallRow /\ k.via = "app" /\ k.pc = "select" /\ k.got = {} /\ k.todo = <<>>
        /\ ClaimsOK(k)
    BY <1>1, ArrivedOK
  <2> HIDE DEF k
  <2>2. /\ j \in CallRow /\ j.pc = "select" /\ j.via = "app" /\ j.got = {} /\ j.todo = <<>>
        /\ j.claims = k.claims /\ j.seen = k.seen /\ j.stale = k.stale /\ j.thing = d
    BY <2>1 DEF CallRow
  <2> HIDE DEF j
  <2>3. CallOK(j)
    BY <2>1, <2>2, EmptySeq DEF CallOK, ClaimsOK, GotOK, TodoOK, ConfirmOK, SubmitOK
  <2> QED BY <1>3, <2>2, <2>3, OneCall DEF BeginCall, j, k
<1> QED BY <1>2, <1>3 DEF BeginRead, submitTelemetryV2

\* A request to confirm an alarm arrives.
LEMMA ConfirmBegins ==
    ASSUME ReadsInv, NEW c \in Calls, confirmAlarm(c)
    PROVE  ReadsInv'
<1> DEFINE k == Arrived("app", "update")
           j(a) == [k EXCEPT !.alarm = a, !.kept = MayConfirm(k.claims, post, owned, shared, a)]
<1>1. PICK a \in DOMAIN alarms : BeginCall(c, j(a))
  BY DEF confirmAlarm
<1>2. post.live
  BY <1>1 DEF BeginCall
<1>3. /\ k \in CallRow /\ k.via = "app" /\ k.pc = "update" /\ k.got = {} /\ k.todo = <<>>
      /\ ClaimsOK(k)
  BY <1>2, ArrivedOK
<1>4. a \in 1..Len(alarms) /\ a \in Nat
  BY LenProperties DEF ReadsInv, Rows
<1>5. PICK m \in BOOLEAN : m = MayConfirm(k.claims, post, owned, shared, a)
  BY DEF MayConfirm
<1> HIDE DEF k
<1>6. /\ j(a) \in CallRow /\ j(a).pc = "update" /\ j(a).via = "app" /\ j(a).got = {}
      /\ j(a).todo = <<>> /\ j(a).claims = k.claims /\ j(a).seen = k.seen /\ j(a).stale = k.stale
      /\ j(a).alarm = a /\ j(a).kept = m
  BY <1>3, <1>4, <1>5 DEF CallRow
<1> HIDE DEF j
<1>7. CallOK(j(a))
  BY <1>3, <1>4, <1>5, <1>6, EmptySeq DEF CallOK, ClaimsOK, GotOK, TodoOK, ConfirmOK, SubmitOK
<1> QED BY <1>1, <1>6, <1>7, OneCall DEF BeginCall

\* A query is answered and the next ones are put in its place.
LEMMA QueryStep ==
    ASSUME ReadsInv, NEW c \in Calls, Query(c)
    PROVE  ReadsInv'
<1> DEFINE k == call[c]
           q == Head(k.todo)
           shownRows == Answer(c, q)
           more == Follow(c, q, shownRows)
           rest == IF Ends(c, q, shownRows) THEN <<>> ELSE more \o Tail(k.todo)
           j == [k EXCEPT !.got = k.got \cup shownRows, !.todo = rest]
<1>1. k \in CallRow /\ CallOK(k) /\ k.pc = "query" /\ k.todo # <<>>
  BY DEF Query, ReadsInv, Rows, CallsInv
<1>2. /\ k.todo \in Seq(Questions) /\ q = k.todo[1] /\ q \in Questions /\ Len(k.todo) \in Nat \ {0}
      /\ Tail(k.todo) \in Seq(Questions) /\ Len(Tail(k.todo)) = Len(k.todo) - 1
      /\ \A n \in 1..Len(Tail(k.todo)) : Tail(k.todo)[n] = k.todo[n + 1]
  BY <1>1, HeadTailProperties, EmptySeq DEF CallRow
<1>3. Safe(k, q)
  BY <1>1, <1>2 DEF CallOK, TodoOK
<1>4. shownRows \subseteq Items /\ \A i \in shownRows : Found(k, i)
  BY <1>1, <1>2, <1>3, AnswerFound
<1>5. more \in Seq(Questions) /\ \A n \in 1..Len(more) : Safe(k, more[n])
  BY <1>1, <1>2, <1>3, FollowSafe
<1>6. ASSUME ~Ends(c, q, shownRows), NEW n \in 1..Len(Tail(k.todo)) PROVE Safe(k, Tail(k.todo)[n])
  <2>1. n + 1 \in 1..Len(k.todo) /\ n + 1 > 1 /\ k.todo[n + 1] \in Questions
    BY <1>2, ElementOfSeq
  <2>2. Safe(k, k.todo[n + 1]) \/ Guarded(q, k.todo[n + 1])
    BY <1>1, <1>2, <2>1 DEF CallOK, TodoOK
  <2> QED BY <1>1, <1>2, <1>6, <2>1, <2>2, GuardHolds
<1> HIDE DEF shownRows, more
<1>7. rest \in Seq(Questions) /\ \A n \in 1..Len(rest) : Safe(k, rest[n])
  <2>1. CASE Ends(c, q, shownRows)
    BY <2>1, EmptySeq
  <2>2. CASE ~Ends(c, q, shownRows)
    <3>1. rest = more \o Tail(k.todo)
      BY <2>2
    <3>2. /\ rest \in Seq(Questions) /\ Len(rest) = Len(more) + Len(Tail(k.todo))
          /\ \A n \in 1..Len(more) + Len(Tail(k.todo)) :
                rest[n] = IF n <= Len(more) THEN more[n] ELSE Tail(k.todo)[n - Len(more)]
      BY <1>2, <1>5, <3>1, ConcatProperties
    <3>3. ASSUME NEW n \in 1..Len(rest) PROVE Safe(k, rest[n])
      <4>1. Len(more) \in Nat /\ Len(Tail(k.todo)) \in Nat
        BY <1>2, <1>5, LenProperties
      <4>2. CASE n <= Len(more)
        BY <1>5, <3>2, <3>3, <4>1, <4>2
      <4>3. CASE n > Len(more)
        <5>1. n - Len(more) \in 1..Len(Tail(k.todo)) /\ rest[n] = Tail(k.todo)[n - Len(more)]
          BY <3>2, <3>3, <4>1, <4>3
        <5> QED BY <1>6, <2>2, <5>1
      <4> QED BY <3>2, <3>3, <4>1, <4>2, <4>3
    <3> QED BY <3>2, <3>3
  <2> QED BY <2>1, <2>2
<1> HIDE DEF rest, q
<1>8. /\ j \in CallRow /\ j.got = k.got \cup shownRows /\ j.todo = rest /\ j.pc = "query"
      /\ j.via = k.via /\ j.claims = k.claims /\ j.seen = k.seen /\ j.stale = k.stale /\ j.moved = k.moved
  BY <1>1, <1>4, <1>7 DEF CallRow
<1>9. call' = [call EXCEPT ![c] = j] /\ UNCHANGED world
  BY <1>1 DEF Query, ReadsInv, Rows, CallRow, q, shownRows, more, rest
<1> HIDE DEF j
<1>10. CallOK(j)
  <2>1. ClaimsOK(j)
    BY <1>1, <1>8 DEF CallOK, ClaimsOK
  <2>2. GotOK(j)
    BY <1>1, <1>4, <1>8 DEF CallOK, GotOK, Found, Shown, Excused
  <2>3. TodoOK(j)
    BY <1>1, <1>7, <1>8 DEF TodoOK, Safe, Shown, Excused
  <2> QED BY <1>8, <2>1, <2>2, <2>3 DEF CallOK, ConfirmOK, SubmitOK
<1> QED BY <1>8, <1>9, <1>10, OneCall

\* A request that ends leaves nothing behind.
LEMMA NoCallOK == NoCall \in CallRow /\ CallOK(NoCall) /\ CallOK(NoCall)'
<1>1. NoCall \in CallRow
  <2>1. <<>> \in Seq(Questions)
    BY EmptySeq
  <2> QED BY <2>1 DEF NoCall, CallRow
<1>2. /\ NoCall.pc = "free" /\ NoCall.got = {} /\ NoCall.todo = <<>>
  BY DEF NoCall
<1>3. CallOK(NoCall)
  BY <1>2, EmptySeq DEF CallOK, ClaimsOK, GotOK, TodoOK, ConfirmOK, SubmitOK
<1>4. PICK k : k = NoCall
  OBVIOUS
<1>5. CallOK(k)'
  BY <1>2, <1>4, EmptySeq DEF CallOK, ClaimsOK, GotOK, TodoOK, ConfirmOK, SubmitOK
<1>6. NoCall' = NoCall
  BY DEF NoCall
<1> QED BY <1>1, <1>3, <1>4, <1>5, <1>6

\* Who could confirm the alarm all the time passes the query's conditions.
LEMMA KeptConfirms ==
    ASSUME ReadsInv, NEW c \in Calls, call[c].pc \in {"update", "exists"}, call[c].kept
    PROVE  Confirmable(c)
<1>1. CallOK(call[c])
  BY DEF ReadsInv, CallsInv
<1> QED BY <1>1 DEF CallOK, ConfirmOK, MayConfirm, Confirmable, InScope, Scope, appFarmScope, Entitled

\* The steps of one request besides its queries.
LEMMA CallStep ==
    ASSUME ReadsInv, NEW c \in Calls,
           \/ EndCall(c) \/ ConfirmExists(c) \/ SubmitTelemetry(c) \/ authorizeTelemetryWrite(c)
    PROVE  ReadsInv'
<1> DEFINE k == call[c]
<1>1. k \in CallRow /\ CallOK(k) /\ call \in [Calls -> CallRow]
  BY DEF ReadsInv, Rows, CallsInv
<1>2. ASSUME call' = [call EXCEPT ![c] = NoCall], UNCHANGED world PROVE ReadsInv'
  BY <1>2, NoCallOK, OneCall
<1>3. CASE EndCall(c)
  BY <1>2, <1>3 DEF EndCall
<1>4. CASE ConfirmExists(c)
  <2>1. PICK pc \in {"ok", "notFound"} : /\ call' = [call EXCEPT ![c].pc = pc]
                                         /\ pc = "notFound" => ~AlreadyDone(c)
    BY <1>4 DEF ConfirmExists
  <2>2. k.pc = "exists" /\ UNCHANGED world
    BY <1>4 DEF ConfirmExists
  <2>3. k.kept => AlreadyDone(c)
    BY <1>1, <2>2, KeptConfirms DEF AlreadyDone, CallOK, ConfirmOK
  <2> DEFINE j == [k EXCEPT !.pc = pc]
  <2>4. /\ j \in CallRow /\ j.pc = pc /\ j.via = k.via /\ j.claims = k.claims /\ j.todo = k.todo
        /\ j.got = k.got /\ j.seen = k.seen /\ j.moved = k.moved /\ j.stale = k.stale /\ j.kept = k.kept
    BY <1>1 DEF CallRow
  <2>5. call' = [call EXCEPT ![c] = j]
    BY <2>1
  <2> HIDE DEF j
  <2>6. CallOK(j)
    BY <1>1, <2>1, <2>2, <2>3, <2>4
    DEF CallOK, ClaimsOK, GotOK, Found, Shown, Excused, TodoOK, Safe, ConfirmOK, SubmitOK
  <2> QED BY <2>2, <2>4, <2>5, <2>6, OneCall
<1>5. CASE SubmitTelemetry(c)
  <2>1. k.pc = "select" /\ UNCHANGED world
    BY <1>5 DEF SubmitTelemetry
  <2>2. CASE call' = [call EXCEPT ![c] = NoCall]
    BY <1>2, <2>1, <2>2
  <2>3. CASE /\ k.thing \notin off
             /\ call' = [call EXCEPT ![c].pc = "authorize", ![c].pool = place[k.thing]]
    <3>1. k.thing \in Things /\ place[k.thing] \in Pools
      BY <1>1, <2>1 DEF CallOK, SubmitOK, ReadsInv, ReadsTypeOK
    <3> DEFINE j == [k EXCEPT !.pc = "authorize", !.pool = place[k.thing]]
    <3>2. /\ j \in CallRow /\ j.pc = "authorize" /\ j.via = k.via /\ j.claims = k.claims
          /\ j.todo = k.todo /\ j.got = k.got /\ j.seen = k.seen /\ j.moved = k.moved
          /\ j.stale = k.stale /\ j.thing = k.thing /\ j.pool = place[k.thing]
      BY <1>1, <3>1 DEF CallRow
    <3>3. call' = [call EXCEPT ![c] = j]
      BY <2>3
    <3> HIDE DEF j
    <3>4. CallOK(j)
      BY <1>1, <2>1, <2>3, <3>1, <3>2
      DEF CallOK, ClaimsOK, GotOK, Found, Shown, Excused, TodoOK, Safe, ConfirmOK, SubmitOK
    <3> QED BY <2>1, <3>2, <3>3, <3>4, OneCall
  <2> QED BY <1>5, <2>2, <2>3 DEF SubmitTelemetry
<1>6. CASE authorizeTelemetryWrite(c)
  <2>1. k.pc = "authorize" /\ UNCHANGED world
    BY <1>6 DEF authorizeTelemetryWrite
  <2>2. CASE call' = [call EXCEPT ![c] = NoCall]
    BY <1>2, <2>1, <2>2
  <2>3. CASE post.live /\ SameVersion(c) /\ call' = [call EXCEPT ![c].pc = "insert"]
    <3> DEFINE j == [k EXCEPT !.pc = "insert"]
    <3>1. /\ j \in CallRow /\ j.pc = "insert" /\ j.via = k.via /\ j.claims = k.claims
          /\ j.todo = k.todo /\ j.got = k.got /\ j.seen = k.seen /\ j.moved = k.moved
          /\ j.stale = k.stale /\ j.thing = k.thing /\ j.pool = k.pool
      BY <1>1 DEF CallRow
    <3>2. call' = [call EXCEPT ![c] = j]
      BY <2>3
    <3> HIDE DEF j
    <3>3. CallOK(j)
      BY <1>1, <2>1, <2>3, <3>1
      DEF SameVersion, CallOK, ClaimsOK, GotOK, Found, Shown, Excused, TodoOK, Safe, ConfirmOK, SubmitOK
    <3> QED BY <2>1, <3>1, <3>2, <3>3, OneCall
  <2> QED BY <1>6, <2>2, <2>3 DEF authorizeTelemetryWrite
<1> QED BY <1>3, <1>4, <1>5, <1>6

\* Alarms are added, and closed, and nothing else happens to them.
AlarmsMove ==
    /\ alarms' \in Seq(Alarm) /\ Len(alarms') >= Len(alarms)
    /\ \A n \in 1..Len(alarms) : alarms'[n].pool = alarms[n].pool /\ (alarms'[n].open => alarms[n].open)

\* A request does not mind what happens to readings and alarms.
LEMMA CallsKept ==
    ASSUME Rows, AlarmsMove, UNCHANGED <<post, owned, shared, place, off>>,
           NEW k \in CallRow, CallOK(k)
    PROVE  CallOK(k)'
<1>1. Len(alarms) \in Nat /\ Len(alarms') \in Nat
  BY LenProperties DEF Rows, AlarmsMove
<1>2. ClaimsOK(k)' /\ GotOK(k)' /\ TodoOK(k)' /\ SubmitOK(k)'
  BY DEF CallOK, ClaimsOK, GotOK, Found, Shown, Excused, TodoOK, Safe, SubmitOK
<1>3. ConfirmOK(k)'
  <2>1. ConfirmOK(k)
    BY DEF CallOK
  <2>2. ASSUME NEW a \in 1..Len(alarms)
        PROVE  /\ a \in 1..Len(alarms') /\ (alarms'[a].open => alarms[a].open)
               /\ MayConfirm(k.claims, post, owned, shared, a) =>
                     MayConfirm(k.claims, post, owned, shared, a)'
    BY <1>1, <2>2 DEF AlarmsMove, MayConfirm, Entitled
  <2> QED BY <2>1, <2>2 DEF ConfirmOK
<1> QED BY <1>2, <1>3 DEF CallOK

\* A reading is stored; alarms are raised and closed.
LEMMA StoreMoves ==
    ASSUME ReadsInv, NEW d \in Things, NEW p \in Pools, Store(d, p)
    PROVE  /\ AlarmsMove
           /\ readings' \subseteq [thing : Things, pool : Pools]
           /\ mirror' = [mirror EXCEPT ![d] = p]
<1>1. alarms \in Seq(Alarm) /\ Len(alarms) \in Nat
  BY LenProperties DEF ReadsInv, Rows
<1>2. ASSUME UNCHANGED alarms PROVE AlarmsMove
  BY <1>1, <1>2 DEF AlarmsMove
<1>3. ASSUME NEW l \in {"warning", "critical"},
             alarms' = Append(alarms, [pool |-> p, level |-> l, open |-> TRUE])
      PROVE  AlarmsMove
  <2>1. [pool |-> p, level |-> l, open |-> TRUE] \in Alarm
    BY DEF Alarm
  <2>2. /\ alarms' \in Seq(Alarm) /\ Len(alarms') = Len(alarms) + 1
        /\ \A n \in 1..Len(alarms) : alarms'[n] = alarms[n]
    BY <1>1, <1>3, <2>1, AppendProperties
  <2> QED BY <1>1, <2>2 DEF AlarmsMove
<1> QED BY <1>2, <1>3 DEF Store, ReadsInv, ReadsTypeOK

\* An alarm is closed.
LEMMA CloseMoves ==
    ASSUME ReadsInv, NEW a \in 1..Len(alarms), alarms' = [alarms EXCEPT ![a].open = FALSE]
    PROVE  AlarmsMove /\ ~alarms'[a].open
<1>1. alarms \in Seq(Alarm) /\ alarms \in [1..Len(alarms) -> Alarm] /\ Len(alarms) \in Nat
  BY LenProperties DEF ReadsInv, Rows
<1>2. [alarms[a] EXCEPT !.open = FALSE] \in Alarm
  <2>1. alarms[a] \in Alarm
    BY <1>1
  <2> QED BY <2>1 DEF Alarm
<1>3. alarms' \in Seq(Alarm) /\ Len(alarms') = Len(alarms)
  BY <1>1, <1>2, ExceptSeq
<1>4. \A n \in 1..Len(alarms) : alarms'[n].pool = alarms[n].pool /\ (alarms'[n].open => alarms[n].open)
  BY <1>1, <1>2 DEF Alarm
<1> QED BY <1>1, <1>3, <1>4 DEF AlarmsMove, Alarm

\* A step that stores a reading or closes an alarm, and leaves every request as it
\* is except one, which may end.
LEMMA StoredStep ==
    ASSUME ReadsInv, AlarmsMove, ReadsTypeOK', UNCHANGED <<post, owned, shared, place, off, edits>>,
           call' \in [Calls -> CallRow],
           \A c \in Calls : call'[c] = call[c] \/ CallOK(call[c])'
    PROVE  ReadsInv'
<1>1. Rows'
  BY DEF ReadsInv, Rows, AlarmsMove
<1>2. ASSUME NEW c \in Calls, call'[c] = call[c] PROVE CallOK(call[c])'
  <2>1. PICK k : k = call[c]
    OBVIOUS
  <2>2. k \in CallRow /\ CallOK(k)
    BY <2>1 DEF ReadsInv, Rows, CallsInv
  <2>3. CallOK(k)'
    BY <2>2, CallsKept DEF ReadsInv
  <2> QED BY <1>2, <2>1, <2>3
<1> QED BY <1>1, <1>2 DEF ReadsInv, CallsInv

\* A report and a submission store a reading of a device in the pond it is in.
LEMMA StoreStep ==
    ASSUME ReadsInv,
           \/ \E d \in Things : ReportThing(d)
           \/ \E c \in Calls : InsertTelemetry(c)
    PROVE  ReadsInv'
<1>1. /\ call \in [Calls -> CallRow] /\ place \in [Things -> Pools]
      /\ \A c \in Calls : CallOK(call[c])
  BY DEF ReadsInv, Rows, CallsInv, ReadsTypeOK
<1>2. ASSUME NEW d \in Things, Store(d, place[d]), UNCHANGED <<post, owned, shared, place, off, edits>>
      PROVE  ReadsTypeOK' /\ AlarmsMove
  <2>1. /\ AlarmsMove /\ readings' \subseteq [thing : Things, pool : Pools]
        /\ mirror' = [mirror EXCEPT ![d] = place[d]]
    BY <1>1, <1>2, StoreMoves
  <2>2. \A x \in Things : mirror'[x] = mirror[x] \/ mirror'[x] = place[x]
    BY <2>1
  <2> QED BY <1>2, <2>1, <2>2 DEF ReadsInv, ReadsTypeOK
<1>3. ASSUME NEW d \in Things, ReportThing(d) PROVE ReadsInv'
  <2>1. Store(d, place[d]) /\ UNCHANGED <<post, owned, shared, place, off, edits, call>>
    BY <1>3 DEF ReportThing
  <2> QED BY <1>1, <1>2, <2>1, StoredStep
<1>4. ASSUME NEW c \in Calls, InsertTelemetry(c) PROVE ReadsInv'
  <2>1. /\ call[c].pc = "insert" /\ call' = [call EXCEPT ![c] = NoCall]
        /\ UNCHANGED <<post, owned, shared, place, off, edits>>
        /\ Store(call[c].thing, call[c].pool) \/ UNCHANGED <<readings, mirror, alarms>>
    BY <1>4 DEF InsertTelemetry
  <2>2. call[c].thing \in Things /\ call[c].pool = place[call[c].thing]
    BY <1>1, <2>1 DEF CallOK, SubmitOK
  <2>3. ReadsTypeOK' /\ AlarmsMove
    <3>1. CASE Store(call[c].thing, call[c].pool)
      BY <1>2, <2>1, <2>2, <3>1
    <3>2. CASE UNCHANGED <<readings, mirror, alarms>>
      <4>1. Len(alarms) \in Nat
        BY LenProperties DEF ReadsInv, Rows
      <4> QED BY <2>1, <3>2, <4>1 DEF ReadsInv, Rows, ReadsTypeOK, AlarmsMove
    <3> QED BY <2>1, <3>1, <3>2
  <2>4. call' \in [Calls -> CallRow] /\ \A e \in Calls \ {c} : call'[e] = call[e]
    BY <1>1, <2>1, NoCallOK
  <2>5. CallOK(call[c])'
    BY <1>1, <2>1, NoCallOK
  <2> QED BY <2>1, <2>3, <2>4, <2>5, StoredStep
<1> QED BY <1>3, <1>4

\* Alarms are confirmed.
LEMMA ConfirmStep ==
    ASSUME ReadsInv,
           \/ \E a \in DOMAIN alarms : OtherConfirms(a)
           \/ \E c \in Calls : ConfirmByUser(c)
    PROVE  ReadsInv'
<1>1. /\ call \in [Calls -> CallRow] /\ \A c \in Calls : CallOK(call[c])
      /\ DOMAIN alarms = 1..Len(alarms)
  BY LenProperties DEF ReadsInv, Rows, CallsInv
<1>2. ASSUME NEW a \in DOMAIN alarms, OtherConfirms(a) PROVE ReadsInv'
  <2>1. AlarmsMove /\ UNCHANGED <<post, owned, shared, place, off, mirror, readings, edits, call>>
    BY <1>1, <1>2, CloseMoves DEF OtherConfirms
  <2>2. ReadsTypeOK'
    BY <2>1 DEF ReadsInv, ReadsTypeOK
  <2> QED BY <1>1, <2>1, <2>2, StoredStep
<1>3. ASSUME NEW c \in Calls, ConfirmByUser(c) PROVE ReadsInv'
  <2> DEFINE k == call[c]
             j(pc) == [k EXCEPT !.pc = pc]
  <2>1. k.pc = "update" /\ k \in CallRow /\ CallOK(k)
    BY <1>1, <1>3 DEF ConfirmByUser
  <2>2. k.alarm \in 1..Len(alarms) /\ k.via = "app"
    BY <2>1 DEF CallOK, ConfirmOK
  <2>3. ASSUME NEW pc \in {"ok", "exists"}
        PROVE  /\ j(pc) \in CallRow /\ j(pc).pc = pc /\ j(pc).via = k.via /\ j(pc).claims = k.claims
               /\ j(pc).todo = k.todo /\ j(pc).got = k.got /\ j(pc).seen = k.seen
               /\ j(pc).moved = k.moved /\ j(pc).stale = k.stale /\ j(pc).kept = k.kept
               /\ j(pc).alarm = k.alarm
    BY <2>1 DEF CallRow
  <2>4. CASE Confirmable(c) /\ alarms[k.alarm].open
    <3>1. /\ alarms' = [alarms EXCEPT ![k.alarm].open = FALSE]
          /\ call' = [call EXCEPT ![c] = j("ok")]
          /\ UNCHANGED <<post, owned, shared, place, off, mirror, readings, edits>>
      BY <1>3, <2>4 DEF ConfirmByUser
    <3>2. AlarmsMove
      BY <2>2, <3>1, CloseMoves
    <3>3. ReadsTypeOK'
      BY <3>1 DEF ReadsInv, ReadsTypeOK
    <3>4. PICK i : i = j("ok")
      OBVIOUS
    <3> HIDE DEF j
    <3>5. CallOK(i)
      BY <2>1, <2>3, <3>4
      DEF CallOK, ClaimsOK, GotOK, Found, Shown, Excused, TodoOK, Safe, ConfirmOK, SubmitOK
    <3>6. CallOK(i)'
      BY <2>3, <3>1, <3>2, <3>4, <3>5, CallsKept DEF ReadsInv
    <3>7. call' \in [Calls -> CallRow] /\ call'[c] = i /\ \A e \in Calls \ {c} : call'[e] = call[e]
      BY <1>1, <2>3, <3>1, <3>4
    <3>8. CallOK(call[c])'
      BY <3>6, <3>7
    <3> QED BY <3>1, <3>2, <3>3, <3>7, <3>8, StoredStep
  <2>5. CASE ~(Confirmable(c) /\ alarms[k.alarm].open)
    <3>1. call' = [call EXCEPT ![c] = j("exists")] /\ UNCHANGED world
      BY <1>3, <2>5 DEF ConfirmByUser
    <3>2. k.kept => ~alarms[k.alarm].open
      BY <2>1, <2>5, KeptConfirms
    <3> HIDE DEF j
    <3>3. CallOK(j("exists"))
      BY <2>1, <2>2, <2>3, <3>2
      DEF CallOK, ClaimsOK, GotOK, Found, Shown, Excused, TodoOK, Safe, ConfirmOK, SubmitOK
    <3> QED BY <2>3, <3>1, <3>3, OneCall
  <2> QED BY <2>4, <2>5
<1> QED BY <1>2, <1>3

\* A change others make is noted in a request and keeps what the request relies on.
LEMMA WitnessOK ==
    ASSUME ReadsInv, ReadsTypeOK', UNCHANGED alarms,
           NEW k \in CallRow, CallOK(k), NEW moved \in BOOLEAN, NEW changed \in BOOLEAN,
           changed \/ UNCHANGED post, moved \/ UNCHANGED place,
           k.pc \in {"authorize", "insert"} =>
              k.thing \notin off' /\ place'[k.thing] = place[k.thing],
           k.pc = "insert" => UNCHANGED post,
           NEW j, j = Witnessed(k, moved, changed)
    PROVE  j \in CallRow /\ CallOK(j)'
<1>1. PICK s \in SUBSET Sites : s = Entitled(k.claims, post', owned', shared')
  BY DEF Entitled, ReadsTypeOK
<1>2. PICK m \in BOOLEAN : m = (k.kept /\ MayConfirm(k.claims, post', owned', shared', k.alarm))
  BY DEF CallRow, MayConfirm
<1>3. /\ j \in CallRow /\ j.pc = k.pc /\ j.via = k.via /\ j.claims = k.claims /\ j.todo = k.todo
      /\ j.got = k.got /\ j.alarm = k.alarm /\ j.thing = k.thing /\ j.pool = k.pool
      /\ j.seen = k.seen \cup s
      /\ j.moved <=> (k.moved \/ moved)
      /\ j.stale <=> (k.stale \/ changed)
      /\ j.kept <=> (IF k.pc \in {"update", "exists"} THEN m ELSE k.kept)
  <2>1. PICK w \in SUBSET Sites : w = k.seen \cup s
    BY DEF CallRow
  <2>2. PICK a \in BOOLEAN : a <=> k.moved \/ moved
    BY DEF CallRow
  <2>3. PICK b \in BOOLEAN : b <=> k.stale \/ changed
    BY DEF CallRow
  <2>4. PICK e \in BOOLEAN : e <=> (IF k.pc \in {"update", "exists"} THEN m ELSE k.kept)
    BY DEF CallRow
  <2>5. j = [k EXCEPT !.seen = w, !.moved = a, !.stale = b, !.kept = e]
    <3>1. (k.moved \/ moved) = a /\ (k.stale \/ changed) = b
      BY <2>2, <2>3 DEF CallRow
    <3>2. (IF k.pc \in {"update", "exists"}
             THEN k.kept /\ MayConfirm(k.claims, post', owned', shared', k.alarm) ELSE k.kept) = e
      BY <1>2, <2>4 DEF CallRow
    <3> QED BY <1>1, <2>1, <3>1, <3>2 DEF Witnessed
  <2>6. /\ j \in CallRow /\ j.pc = k.pc /\ j.via = k.via /\ j.claims = k.claims /\ j.todo = k.todo
        /\ j.got = k.got /\ j.alarm = k.alarm /\ j.thing = k.thing /\ j.pool = k.pool
        /\ j.seen = w /\ j.moved = a /\ j.stale = b /\ j.kept = e
    BY <2>5 DEF CallRow
  <2> QED BY <2>1, <2>2, <2>3, <2>4, <2>6
<1>4. \A p \in Pools : Shown(k, p) => Shown(j, p)
  BY <1>3 DEF Shown, Excused
<1>5. ClaimsOK(j)'
  BY <1>1, <1>3 DEF CallOK, ClaimsOK
<1>6. GotOK(j)'
  <2>1. ASSUME NEW i \in k.got PROVE Found(j, i)'
    <3>1. Found(k, i) /\ i.pool \in Pools
      BY <2>1 DEF CallOK, GotOK, CallRow, Items
    <3>2. /\ Shown(j, i.pool) \/ (i.what = "latest" /\ j.moved)
          /\ i.what = "device" => i.thing \in Things /\ (i.pool = place'[i.thing] \/ j.moved)
      BY <1>3, <1>4, <3>1 DEF Found
    <3> QED BY <3>2 DEF Found, Shown, Excused
  <2> QED BY <1>3, <2>1 DEF GotOK
<1>7. TodoOK(j)'
  <2>1. ASSUME NEW q \in Questions, Safe(k, q) PROVE Safe(j, q)'
    <3>1. q.name \in {"devices", "pondLatest"} => Shown(j, q.of)
      BY <1>4, <2>1 DEF Safe, Questions
    <3>2. q.name = "latest" => Shown(j, place'[q.of]) \/ j.moved
      <4>1. q.name = "latest" => q.of \in Things /\ place[q.of] \in Pools
        BY DEF Questions, ReadsInv, ReadsTypeOK
      <4> QED BY <1>3, <1>4, <2>1, <4>1 DEF Safe
    <3> QED BY <3>1, <3>2 DEF Safe, Shown, Excused
  <2>2. \A n \in 1..Len(k.todo) : k.todo[n] \in Questions
    BY ElementOfSeq DEF CallRow
  <2> QED BY <1>3, <2>1, <2>2 DEF CallOK, TodoOK
<1>8. ConfirmOK(j)'
  <2>1. MayConfirm(j.claims, post, owned, shared, j.alarm)' <=>
            MayConfirm(k.claims, post', owned', shared', k.alarm)
    BY <1>3 DEF MayConfirm, Entitled
  <2> QED BY <1>2, <1>3, <2>1 DEF CallOK, ConfirmOK
<1>9. SubmitOK(j)'
  BY <1>3 DEF CallOK, SubmitOK, CallRow
<1> QED BY <1>3, <1>5, <1>6, <1>7, <1>8, <1>9 DEF CallOK

\* So it is in all requests.
LEMMA WitnessStep ==
    ASSUME ReadsInv, ReadsTypeOK', UNCHANGED alarms,
           NEW moved \in BOOLEAN, NEW changed \in BOOLEAN, Witness(moved, changed),
           changed \/ UNCHANGED post, moved \/ UNCHANGED place,
           \A c \in Calls : call[c].pc \in {"authorize", "insert"} =>
              call[c].thing \notin off' /\ place'[call[c].thing] = place[call[c].thing],
           \A c \in Calls : call[c].pc = "insert" => UNCHANGED post,
           edits' \in 0..MaxEdits, post'.version <= edits'
    PROVE  ReadsInv'
<1>1. ASSUME NEW c \in Calls PROVE call'[c] \in CallRow /\ CallOK(call[c])'
  <2>1. PICK k : k = call[c]
    OBVIOUS
  <2>2. k \in CallRow /\ CallOK(k)
    BY <2>1 DEF ReadsInv, Rows, CallsInv
  <2>3. PICK j : j = call'[c]
    OBVIOUS
  <2>4. j = (IF k = NoCall THEN NoCall ELSE Witnessed(k, moved, changed))
    BY <2>1, <2>3 DEF Witness
  <2>5. CASE k = NoCall
    BY <2>3, <2>4, <2>5, NoCallOK
  <2>6. CASE k # NoCall
    <3>1. j \in CallRow /\ CallOK(j)'
      BY <2>1, <2>2, <2>4, <2>6, WitnessOK
    <3> QED BY <2>3, <3>1
  <2> QED BY <2>5, <2>6
<1>2. call' \in [Calls -> CallRow]
  <2>1. call' = [c \in Calls |-> call'[c]]
    BY DEF Witness
  <2> QED BY <1>1, <2>1
<1> QED BY <1>1, <1>2 DEF ReadsInv, Rows, CallsInv

\* Nobody takes a device away from a submission that holds it.
LEMMA HeldThing ==
    ASSUME NEW d \in Things, ThingFree(d), NEW c \in Calls, call[c].pc \in {"authorize", "insert"}
    PROVE  call[c].thing # d
  BY DEF ThingFree, HoldsThing

\* Changes of the membership, of the farms shared and of devices.
LEMMA EditStep ==
    ASSUME ReadsInv,
           \/ ChangePost \/ ChangeShare
           \/ \E d \in Things : MoveThing(d) \/ DisableThing(d)
    PROVE  ReadsInv'
<1>1. /\ post \in [rank : Ranks, live : BOOLEAN, version : 0..MaxEdits]
      /\ owned \subseteq Sites /\ shared \subseteq Sites /\ off \subseteq Things
      /\ place \in [Things -> Pools] /\ mirror \in [Things -> Pools \cup {Void}]
      /\ \A d \in Things : mirror[d] \in {Void, place[d]}
      /\ readings \subseteq [thing : Things, pool : Pools]
      /\ edits \in 0..MaxEdits /\ post.version <= edits
  BY DEF ReadsInv, ReadsTypeOK, Rows
<1>2. ASSUME NEW c \in Calls, call[c].pc \in {"authorize", "insert"} PROVE call[c].thing \in Things \ off
  BY <1>2 DEF ReadsInv, CallsInv, CallOK, SubmitOK
<1>3. ASSUME Edit PROVE edits' \in 0..MaxEdits /\ edits' = edits + 1
  BY <1>1, <1>3, ReadsAssumption DEF Edit
<1>4. CASE ChangePost
  <2>1. /\ Edit /\ \A c \in Calls : call[c].pc # "insert"
        /\ UNCHANGED <<owned, shared, place, off, mirror, readings, alarms>>
        /\ Witness(FALSE, TRUE)
    BY <1>4 DEF ChangePost
  <2>2. PICK r \in Ranks, l \in BOOLEAN : post' = [rank |-> r, live |-> l, version |-> post.version + 1]
    BY <1>4 DEF ChangePost
  <2>3. post'.version <= edits' /\ post' \in [rank : Ranks, live : BOOLEAN, version : 0..MaxEdits]
    BY <1>1, <1>3, <2>1, <2>2, ReadsAssumption
  <2>4. ReadsTypeOK'
    BY <1>1, <2>1, <2>3 DEF ReadsTypeOK
  <2> QED BY <1>2, <1>3, <2>1, <2>3, <2>4, WitnessStep
<1>5. CASE ChangeShare
  <2>1. /\ Edit /\ UNCHANGED <<post, place, off, mirror, readings, alarms>>
        /\ Witness(FALSE, FALSE)
    BY <1>5 DEF ChangeShare
  <2>2. owned' \subseteq Sites /\ shared' \subseteq Sites
    BY <1>1, <1>5 DEF ChangeShare
  <2>3. ReadsTypeOK' /\ post'.version <= edits'
    BY <1>1, <1>3, <2>1, <2>2 DEF ReadsTypeOK
  <2> QED BY <1>2, <1>3, <2>1, <2>3, WitnessStep
<1>6. ASSUME NEW d \in Things, MoveThing(d) PROVE ReadsInv'
  <2>1. /\ Edit /\ ThingFree(d) /\ UNCHANGED <<post, owned, shared, off, readings, alarms>>
        /\ Witness(TRUE, FALSE) /\ mirror' = [mirror EXCEPT ![d] = Void]
    BY <1>6 DEF MoveThing, MirrorAfterMove
  <2>2. PICK p \in Pools : place' = [place EXCEPT ![d] = p]
    BY <1>6 DEF MoveThing
  <2>3. /\ mirror' \in [Things -> Pools \cup {Void}] /\ place' \in [Things -> Pools]
        /\ \A x \in Things : mirror'[x] \in {Void, place'[x]}
    <3>1. ASSUME NEW x \in Things PROVE mirror'[x] \in {Void, place'[x]}
      <4>1. CASE x = d
        BY <1>1, <2>1, <4>1
      <4>2. CASE x # d
        <5>1. mirror'[x] = mirror[x] /\ place'[x] = place[x]
          BY <1>1, <2>1, <2>2, <4>2
        <5> QED BY <1>1, <5>1
      <4> QED BY <4>1, <4>2
    <3> QED BY <1>1, <2>1, <2>2, <3>1
  <2>4. ReadsTypeOK' /\ post'.version <= edits'
    BY <1>1, <1>3, <2>1, <2>2, <2>3 DEF ReadsTypeOK
  <2>5. \A c \in Calls : call[c].pc \in {"authorize", "insert"} =>
            call[c].thing \notin off' /\ place'[call[c].thing] = place[call[c].thing]
    BY <1>1, <1>2, <2>1, <2>2, HeldThing
  <2> QED BY <1>3, <2>1, <2>4, <2>5, WitnessStep
<1>7. ASSUME NEW d \in Things, DisableThing(d) PROVE ReadsInv'
  <2>1. /\ Edit /\ ThingFree(d) /\ off' = off \cup {d}
        /\ UNCHANGED <<post, owned, shared, place, mirror, readings, alarms>>
        /\ Witness(FALSE, FALSE)
    BY <1>7 DEF DisableThing
  <2>2. ReadsTypeOK' /\ post'.version <= edits'
    BY <1>1, <1>3, <2>1 DEF ReadsTypeOK
  <2>3. \A c \in Calls : call[c].pc \in {"authorize", "insert"} =>
            call[c].thing \notin off' /\ place'[call[c].thing] = place[call[c].thing]
    BY <1>2, <2>1, HeldThing
  <2> QED BY <1>3, <2>1, <2>2, <2>3, WitnessStep
<1> QED BY <1>4, <1>5, <1>6, <1>7

\* Every step keeps the inductive invariant.
LEMMA ReadsStep == ReadsInv /\ [ReadsNext]_readsVars => ReadsInv'
<1>1. ASSUME ReadsInv, UNCHANGED readsVars PROVE ReadsInv'
  <2>1. UNCHANGED world /\ UNCHANGED call
    BY <1>1 DEF readsVars
  <2> QED BY <1>1, <2>1
      DEF world, ReadsInv, ReadsTypeOK, Rows, CallsInv, CallOK, ClaimsOK, GotOK, Found, Shown,
          Excused, TodoOK, Safe, ConfirmOK, MayConfirm, SubmitOK
<1> QED BY <1>1, BeginStep, ConfirmBegins, QueryStep, CallStep, StoreStep, ConfirmStep, EditStep
    DEF ReadsNext

\* The inductive invariant holds in every reachable state.
LEMMA ReadsInvariance == ReadsSpec => []ReadsInv
  BY InitReads, ReadsStep, PTL DEF ReadsSpec

-----------------------------------------------------------------------------
\* The two loops over the alarms.

\* The smaller of two numbers comes first, and a set of numbers has one that nothing
\* in it comes before: so the loops are proved by their least counterexample.
Less == {p \in Nat \X Nat : p[1] < p[2]}

\* A set of numbers that has 0 and with each the next has all up to N.
LEMMA Steps ==
    ASSUME NEW N \in Nat, NEW T \in SUBSET (0..N), 0 \in T, \A n \in 1..N : n - 1 \in T => n \in T
    PROVE  N \in T
<1>1. ASSUME (0..N) \ T # {} PROVE FALSE
  <2>1. IsWellFoundedOn(Less, Nat)
    BY NatLessThanWellFounded DEF OpToRel, Less
  <2> DEFINE Left == (0..N) \ T
  <2>2. Left \subseteq Nat /\ Left # {}
    BY <1>1
  <2> HIDE DEF Left
  <2>3. PICK x \in Left : \A y \in Left : ~(<<y, x>> \in Less)
    BY <2>1, <2>2, WFMin
  <2>4. x \in (0..N) \ T /\ \A y \in (0..N) \ T : ~(<<y, x>> \in Less)
    BY <2>3 DEF Left
  <2>5. x \in 1..N
    BY <2>4
  <2>6. <<x - 1, x>> \in Less
    BY <2>5 DEF Less
  <2>7. x - 1 \in T
    BY <2>4, <2>5, <2>6
  <2> QED BY <2>4, <2>5, <2>7
<1> QED BY <1>1

\* The open alarms of a pond among the n newest, and the worst of them.
OpenAmong(p, n) == {m \in 1..n : Newest(m).pool = p /\ Newest(m).open}
WorstAmong(p, n) ==
    IF \E m \in OpenAmong(p, n) : Newest(m).level = "critical" THEN "critical"
    ELSE IF OpenAmong(p, n) = {} THEN Void ELSE "warning"

\* One more alarm.
LEMMA OneMore ==
    ASSUME alarms \in Seq(Alarm), NEW p \in Pools, NEW n \in 1..Len(alarms)
    PROVE  /\ WorstAmong(p, n) = Worse(WorstAmong(p, n - 1), Newest(n), p)
           /\ WorstAmong(p, n) = Later(WorstAmong(p, n - 1), Newest(n), p)
<1>1. Newest(n) \in Alarm
  BY DEF Newest
<1>2. OpenAmong(p, n) = OpenAmong(p, n - 1) \cup (IF Newest(n).pool = p /\ Newest(n).open THEN {n} ELSE {})
  BY DEF OpenAmong
<1>3. Newest(n).level \in {"warning", "critical"}
  BY <1>1 DEF Alarm
<1>4. Void # "critical" /\ Void # "warning"
  BY ReadsAssumption
<1>5. CASE Newest(n).pool = p /\ Newest(n).open
  BY <1>2, <1>3, <1>4, <1>5 DEF WorstAmong, Worse, Later
<1>6. CASE ~(Newest(n).pool = p /\ Newest(n).open)
  BY <1>2, <1>6 DEF WorstAmong, Worse, Later
<1> QED BY <1>5, <1>6

\* Both loops find it.
LEMMA LoopsFindWorst ==
    ASSUME alarms \in Seq(Alarm), NEW p \in Pools
    PROVE  pondWorstLevel(p) = WorstAmong(p, Len(alarms)) /\ openByPond(p) = WorstAmong(p, Len(alarms))
<1> DEFINE N == Len(alarms)
           loop(g) == [n \in 0..N |-> IF n = 0 THEN Void ELSE Worse(g[n - 1], Newest(n), p)]
           last(g) == [n \in 0..N |-> IF n = 0 THEN Void ELSE Later(g[n - 1], Newest(n), p)]
           w == [n \in 0..N |-> WorstAmong(p, n)]
           f == CHOOSE g : g = loop(g)
           h == CHOOSE g : g = last(g)
<1>1. N \in Nat /\ WorstAmong(p, 0) = Void
  BY DEF WorstAmong, OpenAmong
<1>2. w = loop(w) /\ w = last(w)
  <2>1. ASSUME NEW n \in 0..N
        PROVE  /\ w[n] = IF n = 0 THEN Void ELSE Worse(w[n - 1], Newest(n), p)
               /\ w[n] = IF n = 0 THEN Void ELSE Later(w[n - 1], Newest(n), p)
    BY <1>1, OneMore
  <2> QED BY <2>1
<1>3. f = loop(f)
  BY <1>2
<1>4. h = last(h)
  BY <1>2
<1> HIDE DEF f, h
<1>5. f[N] = WorstAmong(p, N)
  <2> DEFINE T == {n \in 0..N : f[n] = WorstAmong(p, n)}
  <2>1. 0 \in T
    BY <1>1, <1>3
  <2>2. \A n \in 1..N : n - 1 \in T => n \in T
    BY <1>1, <1>3, OneMore
  <2>3. N \in T
    BY <1>1, <2>1, <2>2, Steps
  <2> QED BY <2>3
<1>6. h[N] = WorstAmong(p, N)
  <2> DEFINE T == {n \in 0..N : h[n] = WorstAmong(p, n)}
  <2>1. 0 \in T
    BY <1>1, <1>4
  <2>2. \A n \in 1..N : n - 1 \in T => n \in T
    BY <1>1, <1>4, OneMore
  <2>3. N \in T
    BY <1>1, <2>1, <2>2, Steps
  <2> QED BY <2>3
<1>7. pondWorstLevel(p) = f[N]
  BY DEF pondWorstLevel, f
<1>8. openByPond(p) = h[N]
  BY DEF openByPond, h
<1> QED BY <1>5, <1>6, <1>7, <1>8

\* What the loops find is what StatusIsWorst asks for.
LEMMA StatusHolds == alarms \in Seq(Alarm) => StatusIsWorst
<1> SUFFICES ASSUME alarms \in Seq(Alarm), NEW p \in Pools
             PROVE  LET levels == {a.level : a \in {x \in Range(alarms) : x.pool = p /\ x.open}}
                        worst == IF "critical" \in levels THEN "critical" ELSE IF levels = {} THEN Void ELSE "warning"
                    IN pondWorstLevel(p) = worst /\ openByPond(p) = worst
  BY DEF StatusIsWorst
<1> DEFINE N == Len(alarms)
           levels == {a.level : a \in {x \in Range(alarms) : x.pool = p /\ x.open}}
<1>1. \A m \in OpenAmong(p, N) : Newest(m).level \in levels
  <2> TAKE m \in OpenAmong(p, N)
  <2>1. N + 1 - m \in DOMAIN alarms /\ Newest(m) = alarms[N + 1 - m]
    BY DEF OpenAmong, Newest
  <2>2. Newest(m) \in Range(alarms) /\ Newest(m).pool = p /\ Newest(m).open
    BY <2>1 DEF Range, OpenAmong
  <2> QED BY <2>2
<1>2. \A l \in levels : \E m \in OpenAmong(p, N) : Newest(m).level = l
  <2> TAKE l \in levels
  <2>1. PICK k \in DOMAIN alarms : alarms[k].pool = p /\ alarms[k].open /\ alarms[k].level = l
    BY DEF Range
  <2>2. N + 1 - k \in 1..N /\ Newest(N + 1 - k) = alarms[k]
    BY DEF Newest
  <2> QED BY <2>1, <2>2 DEF OpenAmong
<1>3. WorstAmong(p, N) = IF "critical" \in levels THEN "critical" ELSE IF levels = {} THEN Void ELSE "warning"
  <2> HIDE DEF levels
  <2> QED BY <1>1, <1>2 DEF WorstAmong
<1> QED BY <1>3, LoopsFindWorst

-----------------------------------------------------------------------------
\* Whatever changes between the queries of a request: what the queries with a
\* scope of their own find was visible to the member at some moment (Latest of a
\* device that moved, and the console under claims that no longer hold, are
\* not covered), no confirmation that was allowed all along is denied, and a pond
\* has the state of its worst open alarm.
THEOREM AnswersHold == ReadsSpec => []AnswersAgree
<1>1. ReadsInv => AnswersAgree
  <2> SUFFICES ASSUME ReadsInv PROVE AnswersAgree
    OBVIOUS
  <2>1. ReadsTypeOK /\ ScopedAnswersWereVisible /\ ConfirmNeverLost
    BY DEF ReadsInv, CallsInv, CallOK, GotOK, Found, Shown, Excused, ConfirmOK,
           ScopedAnswersWereVisible, ConfirmNeverLost
  <2>2. StatusIsWorst
    BY StatusHolds DEF ReadsInv, Rows
  <2> QED BY <2>1, <2>2 DEF AnswersAgree
<1> QED BY <1>1, ReadsInvariance, PTL

\* What a submission has read is still so when its reading is stored.
THEOREM SubmissionsHold == ReadsSpec => SubmitHoldsItsReads
<1> DEFINE held == \A c \in Calls : call[c].pc = "insert" /\ readings' # readings =>
                /\ call[c].pool = place[call[c].thing] /\ call[c].thing \notin off
                /\ post.live /\ post.version = call[c].claims.version
<1>1. ReadsInv => held
  BY DEF ReadsInv, CallsInv, CallOK, SubmitOK
<1>2. ReadsInv /\ [ReadsNext]_readsVars => [held]_readsVars
  BY <1>1
<1> HIDE DEF held
<1>3. ReadsSpec => [][held]_readsVars
  BY ReadsInvariance, <1>2, PTL DEF ReadsSpec
<1> QED BY <1>3 DEF held, SubmitHoldsItsReads
=============================================================================
