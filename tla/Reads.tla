-------------------------------- MODULE Reads --------------------------------
(***************************************************************************)
(* What the app (internal/appapi/handlers.go) and the console              *)
(* (internal/adminapi/handlers.go) show a member of a tenant, and the two  *)
(* writes of the app: an alarm is confirmed, a reading is submitted.       *)
(*                                                                         *)
(* A request is admitted under its claims and then runs one query after    *)
(* the other, each its own snapshot; what a query returns decides which    *)
(* come next.  Meanwhile the membership changes, farms are shared and      *)
(* taken back, devices move, report and are disabled.  One tenant and one  *)
(* of its members are modelled: no device, pond or farm changes its        *)
(* tenant.                                                                 *)
(***************************************************************************)
EXTENDS Naturals, Sequences, SequencesExt

CONSTANTS
    Calls,       \* requests in flight
    Sites,       \* the tenant's farms
    Pools,       \* ponds
    SiteOf,      \* the farm of each pond
    Things,      \* devices
    Ranks,       \* the roles the member is given
    Void,
    MaxEdits,    \* bound: changes others make
    MaxAlarms    \* bound: alarms

ASSUME ReadsAssumption ==
    /\ SiteOf \in [Pools -> Sites] /\ Pools # {}
    /\ IsFiniteSet(Pools) /\ IsFiniteSet(Things)
    /\ Ranks \subseteq {"owner", "admin", "member", "viewer", "support"}
    /\ Void \notin Pools \cup Things \cup {"warning", "critical"}
    /\ MaxEdits \in Nat /\ MaxAlarms \in Nat

VARIABLES
    post,     \* the member's row of tenant_memberships: rank, live, version
    owned,    \* the farms whose owner_id the member is
    shared,   \* the farms with an active row of farm_memberships
    place,    \* devices.pond_id
    off,      \* the devices with disabled_at
    mirror,   \* device_shadows: the pond of the device's row, or Void
    readings, \* sensor_data and telemetry: rows of a device and a pond
    alarms,   \* the alarms, oldest first: pool, level, open
    call,
    edits

world == <<post, owned, shared, place, off, mirror, readings, alarms, edits>>
readsVars == <<world, call>>

\* A request that does not run, and the variables of its handler: what is left to
\* ask and what was found, or the alarm, or the device and its pond.
NoCall == [pc |-> "free", via |-> "none", claims |-> Void,
           todo |-> <<>>, got |-> {}, alarm |-> Void, thing |-> Void, pool |-> Void,
           seen |-> {}, moved |-> FALSE, stale |-> FALSE, kept |-> FALSE]
Item(what, pool, thing) == [what |-> what, pool |-> pool, thing |-> thing]

(***************************************************************************)
(* Who sees what.                                                          *)
(***************************************************************************)
\* Faulty: the rows of the tenant's members are not joined.
appFarmScopeUnjoined(claims) == owned \cup shared

\* The farms a query of the app is limited to: the membership must count now;
\* a manager, by the claims and by the row, sees all of them.
appFarmScope(claims) ==
    IF ~post.live THEN {}
    ELSE IF claims.rank \in {"owner", "admin"} /\ post.rank = claims.rank THEN Sites
    ELSE owned \cup shared

\* The console trusts the claims, and shows a member only shared farms.
tenantFilter(claims) == IF claims.rank \in {"owner", "admin"} THEN Sites ELSE shared

Scope(c) == IF call[c].via = "app" THEN appFarmScope(call[c].claims) ELSE tenantFilter(call[c].claims)
InScope(c, p) == SiteOf[p] \in Scope(c)

\* Specification: the farms the member is entitled to, under these claims.
Entitled(claims, m, own, sh) ==
    IF ~m.live THEN {}
    ELSE IF claims.rank \in {"owner", "admin"} /\ m.rank = claims.rank THEN Sites
    ELSE own \cup sh

\* appFarmConfirmScope: the row is still the one of the claims.
MayConfirm(claims, m, own, sh, a) ==
    /\ claims.rank # "viewer" /\ m.rank = claims.rank /\ m.version = claims.version
    /\ SiteOf[alarms[a].pool] \in Entitled(claims, m, own, sh)

(***************************************************************************)
(* The worst open alarm of each pond, from the list of alarms.             *)
(***************************************************************************)
\* Lists of alarms have the newest first.
Newest(n) == alarms[Len(alarms) + 1 - n]

\* pondWorstLevel: the first open alarm, until a critical one is met.
Worse(cur, a, p) ==
    IF a.pool = p /\ a.open /\ (cur = Void \/ (a.level = "critical" /\ cur # "critical"))
      THEN a.level ELSE cur
pondWorstLevel(p) ==
    LET worst[n \in 0..Len(alarms)] == IF n = 0 THEN Void ELSE Worse(worst[n - 1], Newest(n), p)
    IN worst[Len(alarms)]

\* statsSummary: the last open alarm, until a critical one is met.
Later(cur, a, p) == IF a.pool = p /\ a.open /\ cur # "critical" THEN a.level ELSE cur
openByPond(p) ==
    LET status[n \in 0..Len(alarms)] == IF n = 0 THEN Void ELSE Later(status[n - 1], Newest(n), p)
    IN status[Len(alarms)]

(***************************************************************************)
(* The queries.                                                            *)
(***************************************************************************)
ListPonds(c) == {Item("pond", p, Void) : p \in {x \in Pools : InScope(c, x)}}
GetPond(c, p) == IF InScope(c, p) THEN {Item("pond", p, Void)} ELSE {}

\* The app's list of a pond's devices has no scope of its own, the console's
\* does.
ListByPond(c, p) ==
    {Item("device", p, d) : d \in {x \in Things \ off : place[x] = p}
                                  \cap (IF call[c].via = "app" \/ InScope(c, p) THEN Things ELSE {})}

\* A page of devices: of one pond or of all; in use, or the disabled ones too.
ListPage(c, p, which) ==
    {Item("device", place[d], d) : d \in {x \in which : InScope(c, place[x]) /\ p \in {Void, place[x]}}}

GetDevice(c, d) ==
    IF InScope(c, place[d]) /\ (call[c].via = "app" => d \notin off)
      THEN {Item("device", place[d], d)} ELSE {}

\* The shadow, limited to the tenant only.
Latest(d) == IF mirror[d] = place[d] /\ d \notin off THEN {Item("latest", place[d], d)} ELSE {}

ModelLatestForUser(c, d) ==
    IF InScope(c, place[d]) /\ d \notin off THEN {Item("model", place[d], d)} ELSE {}

\* The readings, by the ponds the device was in.
HistoryForUser(c, d) ==
    {Item("history", x.pool, d) : x \in {y \in readings : y.thing = d /\ InScope(c, y.pool)}}

\* HistoryV2ForUser asks first whether there is anything to see.
Visible(c, d) == (d \notin off /\ InScope(c, place[d])) \/ HistoryForUser(c, d) # {}

ListAlarms(c) == {Item("alarm", a.pool, Void) : a \in {x \in Range(alarms) : InScope(c, x.pool)}}

(***************************************************************************)
(* The handlers that read: what each asks for, in order.  "each" is the    *)
(* devices of every pond found, with their last readings or without;       *)
(* "readings" is the last readings of the devices found.                   *)
(***************************************************************************)
Q(name, of) == [name |-> name, of |-> of]

listPonds == <<Q("ponds", Void), Q("alarms", Void), Q("each", "readings")>>
statsSummary == <<Q("ponds", Void), Q("each", "none"), Q("alarms", Void)>>
getPond(p) == <<Q("pond", p), Q("devices", p), Q("alarms", Void), Q("readings", Void)>>
getDevice(d) == <<Q("device", d), Q("latest", d)>>
waterHistory(d) == <<Q("history", d)>>
telemetryHistoryV2(d) == <<Q("visible", d), Q("history", d)>>
modelLatestV2(d) == <<Q("model", d)>>
listAlarms == <<Q("alarms", Void)>>
listDevices(p) == IF p = Void THEN <<Q("page", p)>> ELSE <<Q("pond", p), Q("page", p)>>

\* The console's own lists: ponds as above, devices in use or all of them.
consoleListDevices(p, which) == <<Q(which, p)>>

AppReads ==
    {listPonds, statsSummary, listAlarms} \cup {listDevices(p) : p \in Pools \cup {Void}}
    \cup {getPond(p) : p \in Pools}
    \cup UNION {{getDevice(d), waterHistory(d), telemetryHistoryV2(d), modelLatestV2(d)} : d \in Things}
ConsoleReads ==
    {listPonds, listAlarms} \cup {getDevice(d) : d \in Things}
    \cup {consoleListDevices(p, w) : p \in Pools \cup {Void}, w \in {"page", "pageAll"}}

\* A request arrives: authRequired has just compared the claims.
Arrived(via, pc) ==
    LET claims == [rank |-> post.rank, version |-> post.version] IN
    [NoCall EXCEPT !.pc = pc, !.via = via, !.claims = claims,
                   !.seen = Entitled(claims, post, owned, shared)]

BeginCall(c, k) ==
    /\ call[c] = NoCall /\ post.live
    /\ call' = [call EXCEPT ![c] = k]
    /\ UNCHANGED world

BeginRead(c) ==
    \/ \E t \in AppReads : BeginCall(c, [Arrived("app", "query") EXCEPT !.todo = t])
    \/ \E t \in ConsoleReads : BeginCall(c, [Arrived("console", "query") EXCEPT !.todo = t])

\* The rows of a query.
Answer(c, q) ==
    CASE q.name = "ponds" -> ListPonds(c)
      [] q.name = "pond" -> GetPond(c, q.of)
      [] q.name \in {"devices", "pondLatest"} -> ListByPond(c, q.of)
      [] q.name = "page" -> ListPage(c, q.of, Things \ off)
      [] q.name = "pageAll" -> ListPage(c, q.of, Things)
      [] q.name = "device" -> GetDevice(c, q.of)
      [] q.name = "latest" -> Latest(q.of)
      [] q.name = "model" -> ModelLatestForUser(c, q.of)
      [] q.name = "history" -> HistoryForUser(c, q.of)
      [] q.name = "alarms" -> ListAlarms(c)
      [] OTHER -> {}

\* The queries that come in its place.
LatestOf(rows) ==
    LET found == SetToSeq({i \in rows : i.what = "device"})
    IN [n \in DOMAIN found |-> Q("latest", found[n].thing)]
DevicesOf(rows, name) ==
    LET found == SetToSeq({i \in rows : i.what = "pond"})
    IN [n \in DOMAIN found |-> Q(name, found[n].pool)]
Follow(c, q, rows) ==
    CASE q.name = "each" -> DevicesOf(call[c].got, IF q.of = "readings" THEN "pondLatest" ELSE "devices")
      [] q.name = "pondLatest" -> LatestOf(rows)
      [] q.name = "readings" -> LatestOf(call[c].got)
      [] OTHER -> <<>>

\* Without the pond or the device it is about the request ends.
Ends(c, q, rows) ==
    \/ q.name \in {"pond", "device"} /\ rows = {}
    \/ q.name = "visible" /\ ~Visible(c, q.of)

Query(c) ==
    /\ call[c].pc = "query" /\ call[c].todo # <<>>
    /\ LET q == Head(call[c].todo)
           rows == Answer(c, q)
       IN call' = [call EXCEPT ![c].got = @ \cup rows,
                     ![c].todo = IF Ends(c, q, rows) THEN <<>> ELSE Follow(c, q, rows) \o Tail(@)]
    /\ UNCHANGED world

\* The answer is sent, or a query failed.
EndCall(c) ==
    /\ call[c].pc \in {"query", "ok", "notFound"}
    /\ call[c].pc = "query" => call[c].todo = <<>>
    /\ call' = [call EXCEPT ![c] = NoCall]
    /\ UNCHANGED world

(***************************************************************************)
(* ConfirmByUser.                                                          *)
(***************************************************************************)
confirmAlarm(c) ==
    \E a \in DOMAIN alarms :
        LET k == Arrived("app", "update") IN
        /\ post.rank # "viewer"
        /\ BeginCall(c, [k EXCEPT !.alarm = a, !.kept = MayConfirm(k.claims, post, owned, shared, a)])

Confirmable(c) ==
    LET m == call[c].claims IN
    /\ m.rank # "viewer" /\ post.rank = m.rank /\ post.version = m.version
    /\ InScope(c, alarms[call[c].alarm].pool)

ConfirmByUser(c) ==
    /\ call[c].pc = "update"
    /\ LET a == call[c].alarm IN
       IF Confirmable(c) /\ alarms[a].open
         THEN /\ alarms' = [alarms EXCEPT ![a].open = FALSE]
              /\ call' = [call EXCEPT ![c].pc = "ok"]
              /\ UNCHANGED <<post, owned, shared, place, off, mirror, readings, edits>>
         ELSE call' = [call EXCEPT ![c].pc = "exists"] /\ UNCHANGED world

AlreadyDone(c) == Confirmable(c) /\ ~alarms[call[c].alarm].open

ConfirmExists(c) ==
    /\ call[c].pc = "exists"
    /\ call' = [call EXCEPT ![c].pc = IF AlreadyDone(c) THEN "ok" ELSE "notFound"]
    /\ UNCHANGED world

(***************************************************************************)
(* SubmitTelemetry: one transaction.                                       *)
(***************************************************************************)
submitTelemetryV2(c) ==
    \E d \in Things : BeginCall(c, [Arrived("app", "select") EXCEPT !.thing = d])

HoldsThing(c, d) == call[c].pc \in {"authorize", "insert"} /\ call[c].thing = d

\* Nobody has the device FOR UPDATE.
ThingFree(d) == \A c \in Calls : ~HoldsThing(c, d)

SubmitTelemetry(c) ==
    /\ call[c].pc = "select"
    /\ LET d == call[c].thing IN
       IF d \in off \/ ~InScope(c, place[d])
         THEN call' = [call EXCEPT ![c] = NoCall]
         ELSE ThingFree(d) /\ call' = [call EXCEPT ![c].pc = "authorize", ![c].pool = place[d]]
    /\ UNCHANGED world

\* Faulty: the version of the membership is not compared.
SameVersionAny(c) == TRUE

SameVersion(c) == post.version = call[c].claims.version

\* Only owner and admin may write telemetry.
authorizeTelemetryWrite(c) ==
    /\ call[c].pc = "authorize"
    /\ IF /\ post.live /\ post.rank = call[c].claims.rank /\ SameVersion(c)
          /\ post.rank \in {"owner", "admin"}
         THEN call' = [call EXCEPT ![c].pc = "insert"]
         ELSE call' = [call EXCEPT ![c] = NoCall]
    /\ UNCHANGED world

\* A reading of a device in a pond is stored, becomes the shadow and may
\* raise an alarm.
Store(d, p) ==
    /\ readings' = readings \cup {[thing |-> d, pool |-> p]}
    /\ mirror' = [mirror EXCEPT ![d] = p]
    /\ \/ UNCHANGED alarms
       \/ \E l \in {"warning", "critical"} :
            /\ Len(alarms) < MaxAlarms
            /\ alarms' = Append(alarms, [pool |-> p, level |-> l, open |-> TRUE])

\* The rows and the commit; or a property is refused.
InsertTelemetry(c) ==
    /\ call[c].pc = "insert"
    /\ \/ Store(call[c].thing, call[c].pool)
       \/ UNCHANGED <<readings, mirror, alarms>>
    /\ call' = [call EXCEPT ![c] = NoCall]
    /\ UNCHANGED <<post, owned, shared, place, off, edits>>

(***************************************************************************)
(* What others do meanwhile.  A change is recorded in the requests it      *)
(* happens under: the farms they might have shown, whether a device moved, *)
(* whether the membership is the one of the claims.                        *)
(***************************************************************************)
Witnessed(k, moved, changed) ==
    [k EXCEPT !.seen = k.seen \cup Entitled(k.claims, post', owned', shared'),
              !.moved = k.moved \/ moved, !.stale = k.stale \/ changed,
              !.kept = IF k.pc \in {"update", "exists"}
                         THEN k.kept /\ MayConfirm(k.claims, post', owned', shared', k.alarm)
                         ELSE k.kept]
Witness(moved, changed) ==
    call' = [c \in Calls |->
        IF call[c] = NoCall THEN NoCall ELSE Witnessed(call[c], moved, changed)]

Edit == edits < MaxEdits /\ edits' = edits + 1

\* SetTenantMember and SetTenantActive, which wait for who shares the row.
ChangePost ==
    /\ Edit /\ \A c \in Calls : call[c].pc # "insert"
    /\ \E r \in Ranks, l \in BOOLEAN : post' = [rank |-> r, live |-> l, version |-> post.version + 1]
    /\ UNCHANGED <<owned, shared, place, off, mirror, readings, alarms>>
    /\ Witness(FALSE, TRUE)

\* SetFarmMember and SetFarmOwner.
ChangeShare ==
    /\ Edit
    /\ \E s \in Sites :
        \/ shared' = (IF s \in shared THEN shared \ {s} ELSE shared \cup {s}) /\ UNCHANGED owned
        \/ /\ owned' = (IF s \in owned THEN owned \ {s} ELSE owned \cup {s})
           /\ shared' = IF s \in owned THEN shared \ {s} ELSE shared \cup {s}
    /\ UNCHANGED <<post, place, off, mirror, readings, alarms>>
    /\ Witness(FALSE, FALSE)

MirrorAfterMove(d) == Void

MoveThing(d) ==
    /\ Edit /\ d \notin off /\ ThingFree(d)
    /\ \E p \in Pools : p # place[d] /\ place' = [place EXCEPT ![d] = p]
    /\ mirror' = [mirror EXCEPT ![d] = MirrorAfterMove(d)]
    /\ UNCHANGED <<post, owned, shared, off, readings, alarms>>
    /\ Witness(TRUE, FALSE)

\* DeleteDevice.
DisableThing(d) ==
    /\ Edit /\ d \notin off /\ ThingFree(d)
    /\ off' = off \cup {d}
    /\ UNCHANGED <<post, owned, shared, place, mirror, readings, alarms>>
    /\ Witness(FALSE, FALSE)

\* A report over MQTT.
ReportThing(d) ==
    /\ d \notin off /\ ThingFree(d)
    /\ Store(d, place[d])
    /\ UNCHANGED <<post, owned, shared, place, off, edits, call>>

\* Another user, or the console, confirms.
OtherConfirms(a) ==
    /\ alarms[a].open
    /\ alarms' = [alarms EXCEPT ![a].open = FALSE]
    /\ UNCHANGED <<post, owned, shared, place, off, mirror, readings, edits, call>>

(***************************************************************************)
(* The specification.                                                      *)
(***************************************************************************)
ReadsInit ==
    /\ post \in [rank : Ranks, live : {TRUE}, version : {0}]
    /\ owned = {} /\ (shared = {} \/ \E s \in Sites : shared = {s})
    /\ place = [d \in Things |-> CHOOSE p \in Pools : TRUE]
    /\ off = {} /\ mirror = [d \in Things |-> Void] /\ readings = {} /\ alarms = <<>>
    /\ call = [c \in Calls |-> NoCall]
    /\ edits = 0

ReadsNext ==
    \/ \E c \in Calls :
        \/ BeginRead(c) \/ Query(c) \/ EndCall(c)
        \/ confirmAlarm(c) \/ ConfirmByUser(c) \/ ConfirmExists(c)
        \/ submitTelemetryV2(c) \/ SubmitTelemetry(c) \/ authorizeTelemetryWrite(c) \/ InsertTelemetry(c)
    \/ ChangePost \/ ChangeShare
    \/ \E d \in Things : MoveThing(d) \/ DisableThing(d) \/ ReportThing(d)
    \/ \E a \in DOMAIN alarms : OtherConfirms(a)

ReadsSpec == ReadsInit /\ [][ReadsNext]_readsVars

(***************************************************************************)
(* Properties.                                                             *)
(***************************************************************************)
\* The rows of a device's shadow and of its readings are of ponds; a shadow
\* that exists is of the pond the device is in (MoveDevice removes it).
ReadsTypeOK ==
    /\ post \in [rank : Ranks, live : BOOLEAN, version : 0..MaxEdits]
    /\ owned \subseteq Sites /\ shared \subseteq Sites /\ off \subseteq Things
    /\ place \in [Things -> Pools]
    /\ mirror \in [Things -> Pools \cup {Void}] /\ \A d \in Things : mirror[d] \in {Void, place[d]}
    /\ readings \subseteq [thing : Things, pool : Pools]

\* What the app finds by a query with a scope of its own, which is every one
\* but Latest, is of a farm the member could see at some moment since the
\* request arrived, whatever has moved; so is what the console finds while the
\* membership is the one of the claims, and a last reading of a device that
\* has not moved.  Of Latest after a move, and of the console after a change
\* of the membership, this says nothing: OwnPondsOnly does, and fails.
ScopedAnswersWereVisible ==
    \A c \in Calls : call[c].pc = "query" => \A i \in call[c].got :
        \/ SiteOf[i.pool] \in call[c].seen
        \/ i.what = "latest" /\ call[c].moved
        \/ call[c].via = "console" /\ call[c].stale

\* The ownership rule at the head of appapi/handlers.go, for everything a
\* handler of the app shows: it is of a farm the member could see at some
\* moment since the request arrived.
OwnPondsOnly ==
    \A c \in Calls : call[c].pc = "query" /\ call[c].via = "app" =>
        \A i \in call[c].got : SiteOf[i.pool] \in call[c].seen

\* Who may confirm an alarm all through the request is not told that there
\* is none: a second confirmation, or a retry, succeeds.
ConfirmNeverLost ==
    \A c \in Calls : call[c].pc = "notFound" => ~call[c].kept

\* Both ways to find the state of a pond find its worst open alarm, in
\* whatever order the list has them.
StatusIsWorst ==
    \A p \in Pools :
        LET open == {a.level : a \in {x \in Range(alarms) : x.pool = p /\ x.open}}
            worst == IF "critical" \in open THEN "critical" ELSE IF open = {} THEN Void ELSE "warning"
        IN pondWorstLevel(p) = worst /\ openByPond(p) = worst

\* A submitted reading is stored under the pond the device is in at that
\* moment, for a device in use, by a member who may: what the transaction
\* read first is still so when it commits.
SubmitHoldsItsReads ==
    [][\A c \in Calls : call[c].pc = "insert" /\ readings' # readings =>
        /\ call[c].pool = place[call[c].thing] /\ call[c].thing \notin off
        /\ post.live /\ post.version = call[c].claims.version]_readsVars

\* Across the queries of a request: what scoped queries found was visible, no
\* confirmation allowed all along is denied, no alarm is played down.
AnswersAgree == ReadsTypeOK /\ ScopedAnswersWereVisible /\ ConfirmNeverLost /\ StatusIsWorst
=============================================================================
