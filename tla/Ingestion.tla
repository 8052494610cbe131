------------------------------ MODULE Ingestion ------------------------------
(***************************************************************************)
(* Ingestion of device reports: storeReading and storeGenericReading of    *)
(* internal/core, with deduplication by message id, the device shadow and  *)
(* alarms, against the administrative changes that move, reassign, disable *)
(* or restore the device meanwhile.                                        *)
(*                                                                         *)
(* A report is one READ COMMITTED transaction.  It meets others in the     *)
(* device row it locks (FOR UPDATE) and in the key of ingest_messages it   *)
(* inserts, and it is cut into actions there: an action is one statement,  *)
(* or several that nobody can come between.  What it writes is seen when   *)
(* it commits.  Reports of one device overlap when an old connection is    *)
(* still in OnPublish while a new one sends.  Simplifications:             *)
(*  - of the session only what OnPublish asks is kept: the device is       *)
(*    enabled then (DeviceSession has the sessions and their revisions);   *)
(*  - administrative transactions that lock the device row are one action; *)
(*  - a product has one published model; tenants stay active;              *)
(*  - a value is "ok" or "bad", and a rule of the pond is breached by      *)
(*    "bad"; an alarm and its outbox row are written by the same commit;   *)
(*  - a retry of a message by the device is another Publish of it;         *)
(*  - the rows of sensor_data and telemetry are the history `accepted`;    *)
(*    last_seen_at is left out.                                            *)
(***************************************************************************)
EXTENDS Naturals

CONSTANTS Devices, Handlers,     \* devices, and goroutines in HandleEvent
          Messages,              \* message ids
          Ponds, Products,
          Generic,               \* the products whose reports are generic
          Schema,                \* Schema[q]: the metrics of the model of q
          Metrics, Payloads,     \* what a report may carry
          FirstPond, FirstProduct,
          None,                  \* no message, no shadow, no lock, no metric
          MaxClock,              \* bound: clock
          MaxReports,            \* bound: reports published
          MaxChanges             \* bound: administrative changes, rows that age

Values == {"ok", "bad"}
Times == 0..MaxClock

ShadowRow == [pond : Ponds, product : Products, at : [Metrics -> Times \cup {None}],
              val : [Metrics -> Values \cup {None}], ts : Times]

ASSUME IngestAssumption ==
    /\ None \notin Messages \cup Handlers /\ None \notin Times /\ None \notin Values
    /\ None \notin ShadowRow
    /\ FirstPond \in Ponds
    /\ FirstProduct \in Products
    /\ Generic \subseteq Products
    /\ Schema \in [Products -> SUBSET Metrics]
    /\ \A p \in Payloads : DOMAIN p \in (SUBSET Metrics) \ {{}} /\ p \in [DOMAIN p -> Values]
    /\ MaxClock \in Nat
    /\ MaxReports \in Nat
    /\ MaxChanges \in Nat

VARIABLES
    device,     \* device[d]: pond_id, product_id, disabled_at IS NULL
    ingested,   \* ingested[<<d, m>>]: the committed row of ingest_messages
    shadow,     \* shadow[d]: the row of device_shadows
    rules,      \* rules[p]: the metrics with an enabled rule
    raised,     \* raised[k]: alarms (and outbox rows) of key k
    confirmed,  \* confirmed[k]: those with confirmed_at
    rowLock,    \* rowLock[d]: the report that has locked the device row
    keyLock,    \* keyLock[<<d, m>>]: the report that inserted or deleted the row
    tx,         \* tx[h]: the report of handler h and its transaction
    accepted,   \* history: accepted[d], reports committed since the shadow was cleared
    times,      \* history: times[<<d, m>>], commits of the message
    expired,    \* history: expired[<<d, m>>], rows deleted after 24 hours
    clock, reports, changes

tables == <<device, ingested, shadow, rules, raised, confirmed>>
locks == <<rowLock, keyLock>>
history == <<accepted, times, expired>>
bounds == <<clock, reports, changes>>
vars == <<tables, locks, tx, history, bounds>>

Keys == Devices \X Messages
Alarms == Devices \X Ponds \X Products \X Metrics

NoTx == [pc |-> "idle", dev |-> None, msg |-> None, kind |-> "water", ts |-> 0,
         props |-> None, pond |-> None, product |-> None,
         purge |-> {}, copy |-> None, raise |-> {}]

TxState == [pc : {"idle", "query", "lock", "purge", "insert", "read", "commit"},
            dev : Devices \cup {None}, msg : Messages \cup {None},
            kind : {"water", "generic"}, ts : Times, props : Payloads \cup {None},
            pond : Ponds \cup {None}, product : Products \cup {None},
            purge : SUBSET Keys, copy : ShadowRow \cup {None}, raise : SUBSET Metrics]

TypeOK ==
    /\ device \in [Devices -> [pond : Ponds, product : Products, enabled : BOOLEAN]]
    /\ ingested \in [Keys -> {"none", "fresh", "old"}]
    /\ shadow \in [Devices -> ShadowRow \cup {None}]
    /\ rules \in [Ponds -> SUBSET Metrics]
    /\ raised \in [Alarms -> Nat] /\ confirmed \in [Alarms -> Nat]
    /\ rowLock \in [Devices -> Handlers \cup {None}]
    /\ keyLock \in [Keys -> Handlers \cup {None}]
    /\ tx \in [Handlers -> TxState]
    /\ accepted \in [Devices -> SUBSET [ts : Times, props : Payloads]]
    /\ times \in [Keys -> Nat] /\ expired \in [Keys -> Nat]
    /\ clock \in Times /\ reports \in 0..MaxReports /\ changes \in 0..MaxChanges

Init ==
    /\ device = [d \in Devices |-> [pond |-> FirstPond, product |-> FirstProduct,
                                    enabled |-> TRUE]]
    /\ ingested = [k \in Keys |-> "none"]
    /\ shadow = [d \in Devices |-> None]
    /\ rules = [p \in Ponds |-> Metrics]
    /\ raised = [k \in Alarms |-> 0] /\ confirmed = [k \in Alarms |-> 0]
    /\ rowLock = [d \in Devices |-> None]
    /\ keyLock = [k \in Keys |-> None]
    /\ tx = [h \in Handlers |-> NoTx]
    /\ accepted = [d \in Devices |-> {}]
    /\ times = [k \in Keys |-> 0] /\ expired = [k \in Keys |-> 0]
    /\ clock = 0 /\ reports = 0 /\ changes = 0

-----------------------------------------------------------------------------
(* The steps of a report *)

Binding(d) == [pond |-> device[d].pond, product |-> device[d].product]
Bound(h) == [pond |-> tx[h].pond, product |-> tx[h].product]
Key(h) == <<tx[h].dev, tx[h].msg>>
Goto(h, pc) == tx' = [tx EXCEPT ![h].pc = pc]

\* The end of a transaction: the handler is idle and its locks are released.
Release(h) ==
    /\ tx' = [tx EXCEPT ![h] = NoTx]
    /\ rowLock' = [d \in Devices |-> IF rowLock[d] = h THEN None ELSE rowLock[d]]
    /\ keyLock' = [k \in Keys |-> IF keyLock[k] = h THEN None ELSE keyLock[k]]

\* Rows of ingest_messages deleted by a committed purge.
Purged(h) == [k \in Keys |-> IF k \in tx[h].purge THEN "none" ELSE ingested[k]]
CountExpired(h) ==
    expired' = [k \in Keys |-> expired[k] + IF k \in tx[h].purge THEN 1 ELSE 0]

Received == clock

\* OnPublish: the session is current, the product decides the pipeline and
\* the server's clock stamps the report.
Publish(h, d, m, p) ==
    /\ tx[h].pc = "idle"
    /\ device[d].enabled
    /\ reports < MaxReports
    /\ LET kind == IF device[d].product \in Generic THEN "generic" ELSE "water"
       IN  tx' = [tx EXCEPT ![h] =
             [NoTx EXCEPT !.pc = IF kind = "generic" /\ m # None THEN "purge" ELSE "query",
                          !.dev = d, !.msg = m, !.kind = kind, !.ts = Received,
                          !.props = p]]
    /\ reports' = reports + 1
    /\ UNCHANGED <<tables, locks, history, clock, changes>>

\* Any error, the deadlock detector or the timeout of ten seconds.
Rollback(h) ==
    /\ tx[h].pc # "idle"
    /\ Release(h)
    /\ UNCHANGED <<tables, history, bounds>>

\* SELECT ... FOR UPDATE OF d, before it has the lock: the row as of the snapshot.
Query(h) ==
    /\ tx[h].pc = "query"
    /\ device[tx[h].dev].enabled
    /\ tx' = [tx EXCEPT ![h] = [@ EXCEPT !.pc = "lock", !.pond = device[tx[h].dev].pond,
                                            !.product = device[tx[h].dev].product]]
    /\ UNCHANGED <<tables, locks, history, bounds>>

\* Faulty: the row of the snapshot is taken without looking again.
StillMatchesUnchecked(h) == TRUE

\* The row as it is once the lock is free must still satisfy WHERE and JOIN.
StillMatches(h) ==
    device[tx[h].dev].enabled /\ Bound(h) = Binding(tx[h].dev)

Lock(h) ==
    /\ tx[h].pc = "lock"
    /\ rowLock[tx[h].dev] = None
    /\ StillMatches(h)
    /\ rowLock' = [rowLock EXCEPT ![tx[h].dev] = h]
    /\ Goto(h, IF tx[h].kind = "water" /\ tx[h].msg # None THEN "purge" ELSE "read")
    /\ UNCHANGED <<tables, keyLock, history, bounds>>

\* DELETE FROM ingest_messages of rows older than 24 hours.
Purge(h) ==
    LET old == {k \in Keys : ingested[k] = "old"}
    IN  /\ tx[h].pc = "purge"
        /\ \A k \in old : keyLock[k] = None
        /\ keyLock' = [k \in Keys |-> IF k \in old THEN h ELSE keyLock[k]]
        /\ tx' = [tx EXCEPT ![h] = [@ EXCEPT !.pc = "insert", !.purge = old]]
        /\ UNCHANGED <<tables, rowLock, history, bounds>>

\* A row that another report is inserting or deleting is waited for.
KeyFree(h) == keyLock[Key(h)] \in {None, h}

\* Faulty: a row past 24 hours counts as absent, whoever deletes it.
RecordedFresh(h) == ingested[Key(h)] = "fresh"
Recorded(h) == Purged(h)[Key(h)] # "none"

\* INSERT INTO ingest_messages ... ON CONFLICT DO NOTHING: the row is new.
Insert(h) ==
    /\ tx[h].pc = "insert"
    /\ KeyFree(h)
    /\ ~Recorded(h)
    /\ keyLock' = [keyLock EXCEPT ![Key(h)] = h]
    /\ Goto(h, IF tx[h].kind = "water" THEN "read" ELSE "query")
    /\ UNCHANGED <<tables, rowLock, history, bounds>>

\* The row exists: the report is a duplicate; only the purge is committed.
Duplicate(h) ==
    /\ tx[h].pc = "insert"
    /\ KeyFree(h)
    /\ Recorded(h)
    /\ ingested' = Purged(h)
    /\ CountExpired(h)
    /\ Release(h)
    /\ UNCHANGED <<device, shadow, rules, raised, confirmed, accepted, times, bounds>>

\* Faulty: the report that commits last wins.
NewerAlways(t, at) == DOMAIN t.props

\* The metrics of the report that are not older than their stamp.
Newer(t, at) == {x \in DOMAIN t.props : at[x] = None \/ t.ts >= at[x]}

\* shadowUpsert and genericShadowUpsert: the row of another binding is not
\* merged, and a metric keeps its value against an older report.
Merged(t, row) ==
    LET same == row # None /\ row.pond = t.pond /\ row.product = t.product
        at0 == IF same THEN row.at ELSE [x \in Metrics |-> None]
        val0 == IF same THEN row.val ELSE [x \in Metrics |-> None]
        newer == Newer(t, at0)
        base == IF t.kind = "generic" THEN row # None ELSE same
    IN  [pond |-> t.pond, product |-> t.product,
         at |-> [x \in Metrics |-> IF x \in newer THEN t.ts ELSE at0[x]],
         val |-> [x \in Metrics |-> IF x \in newer THEN t.props[x] ELSE val0[x]],
         ts |-> IF base /\ row.ts > t.ts THEN row.ts ELSE t.ts]

\* evaluate: breaches of enabled rules of the pond that have no open alarm.
Breaches(h) ==
    {x \in DOMAIN tx[h].props : tx[h].props[x] = "bad" /\ x \in rules[tx[h].pond]}
Open(k) == raised[k] > confirmed[k]

Raises(h) ==
    {x \in Breaches(h) : ~Open(<<tx[h].dev, tx[h].pond, tx[h].product, x>>)}

\* From the validation against the model to the last statement.
Read(h) ==
    /\ tx[h].pc = "read"
    /\ tx[h].kind = "generic" => DOMAIN tx[h].props \subseteq Schema[tx[h].product]
    /\ tx' = [tx EXCEPT ![h] = [@ EXCEPT !.pc = "commit", !.raise = Raises(h),
                                            !.copy = Merged(tx[h], shadow[tx[h].dev])]]
    /\ UNCHANGED <<tables, locks, history, bounds>>

Commit(h) ==
    LET t == tx[h]
    IN  /\ t.pc = "commit"
        /\ shadow' = [shadow EXCEPT ![t.dev] = t.copy]
        /\ raised' = [k \in Alarms |-> raised[k] +
              IF k \in {<<t.dev, t.pond, t.product, x>> : x \in t.raise} THEN 1 ELSE 0]
        /\ ingested' = [k \in Keys |-> IF k = Key(h) THEN "fresh" ELSE Purged(h)[k]]
        /\ accepted' = [accepted EXCEPT ![t.dev] = @ \cup {[ts |-> t.ts, props |-> t.props]}]
        /\ times' = [k \in Keys |-> times[k] + IF k = Key(h) THEN 1 ELSE 0]
        /\ CountExpired(h)
        /\ Release(h)
        /\ UNCHANGED <<device, rules, confirmed, bounds>>

-----------------------------------------------------------------------------
(* Administration and time *)

\* A change of the device row waits for the report that has locked it.
Changes(d) == changes < MaxChanges /\ rowLock[d] = None /\ changes' = changes + 1

\* The shadow is deleted, and with it what `accepted` remembers.
ClearShadow(d) ==
    /\ shadow' = [shadow EXCEPT ![d] = None]
    /\ accepted' = [accepted EXCEPT ![d] = {}]

MoveDevice(d, p) ==
    /\ device[d].enabled
    /\ Changes(d)
    /\ device' = [device EXCEPT ![d].pond = p]
    /\ ClearShadow(d)
    /\ UNCHANGED <<ingested, rules, raised, confirmed, locks, tx, times, expired, clock, reports>>

\* AssignDeviceProductByActor: the kind of a report already published stays.
AssignProduct(d, q) ==
    /\ q # device[d].product
    /\ Changes(d)
    /\ device' = [device EXCEPT ![d].product = q]
    /\ ClearShadow(d)
    /\ UNCHANGED <<ingested, rules, raised, confirmed, locks, tx, times, expired, clock, reports>>

\* DeleteDevice disables; the shadow stays until the device is restored.
DeleteDevice(d) ==
    /\ Changes(d)
    /\ device' = [device EXCEPT ![d].enabled = FALSE]
    /\ UNCHANGED <<ingested, shadow, rules, raised, confirmed, locks, tx, history, clock, reports>>

RestoreDevice(d) ==
    /\ ~device[d].enabled
    /\ Changes(d)
    /\ device' = [device EXCEPT ![d].enabled = TRUE]
    /\ ClearShadow(d)
    /\ UNCHANGED <<ingested, rules, raised, confirmed, locks, tx, times, expired, clock, reports>>

\* CreateRule, UpdateRule and DeleteRule, as far as evaluate sees them.
SetRule(p, x) ==
    /\ changes < MaxChanges
    /\ rules' = [rules EXCEPT ![p] = IF x \in @ THEN @ \ {x} ELSE @ \cup {x}]
    /\ changes' = changes + 1
    /\ UNCHANGED <<device, ingested, shadow, raised, confirmed, locks, tx, history, clock, reports>>

\* ConfirmAlarm, BatchConfirm and ConfirmByUser.
ConfirmAlarm(k) ==
    /\ Open(k)
    /\ confirmed' = [confirmed EXCEPT ![k] = @ + 1]
    /\ UNCHANGED <<device, ingested, shadow, rules, raised, locks, tx, history, bounds>>

\* A row of ingest_messages becomes older than 24 hours.
Age(k) ==
    /\ changes < MaxChanges
    /\ ingested[k] = "fresh"
    /\ ingested' = [ingested EXCEPT ![k] = "old"]
    /\ changes' = changes + 1
    /\ UNCHANGED <<device, shadow, rules, raised, confirmed, locks, tx, history, clock, reports>>

Tick ==
    /\ clock < MaxClock
    /\ clock' = clock + 1
    /\ UNCHANGED <<tables, locks, tx, history, reports, changes>>

Report(h) ==
    \/ \E d \in Devices, m \in Messages \cup {None}, p \in Payloads : Publish(h, d, m, p)
    \/ Query(h) \/ Lock(h) \/ Purge(h) \/ Insert(h) \/ Duplicate(h)
    \/ Read(h) \/ Commit(h) \/ Rollback(h)

Admin ==
    \/ \E d \in Devices, p \in Ponds : MoveDevice(d, p)
    \/ \E d \in Devices, q \in Products : AssignProduct(d, q)
    \/ \E d \in Devices : DeleteDevice(d) \/ RestoreDevice(d)
    \/ \E p \in Ponds, x \in Metrics : SetRule(p, x)
    \/ \E k \in Alarms : ConfirmAlarm(k)

Next ==
    \/ \E h \in Handlers : Report(h)
    \/ Admin
    \/ \E k \in Keys : Age(k)
    \/ Tick

Spec == Init /\ [][Next]_vars

-----------------------------------------------------------------------------
(* Properties *)

\* A message is stored once for each row of ingest_messages it has had: a
\* message rejected or rolled back can be sent again, one that is stored
\* cannot be stored twice within 24 hours, whichever pipeline each delivery
\* went through.
StoredOncePerRow ==
    \A k \in Keys : times[k] = expired[k] + IF ingested[k] = "none" THEN 0 ELSE 1

\* The stamp a metric should have: that of the latest report stored.
Stamps(d, x) == {r.ts : r \in {a \in accepted[d] : x \in DOMAIN a.props}}

\* The shadow is what the reports stored since it was cleared add up to, in
\* whatever order they committed: every metric has the latest stamp and a
\* value reported at that stamp, and the row has the binding of the device.
ShadowIsLatest ==
    \A d \in Devices :
        LET row == shadow[d]
        IN  IF accepted[d] = {} THEN row = None
            ELSE /\ row # None
                 /\ [pond |-> row.pond, product |-> row.product] = Binding(d)
                 /\ row.ts \in {r.ts : r \in accepted[d]}
                 /\ \A r \in accepted[d] : row.ts >= r.ts
                 /\ \A x \in Metrics :
                        IF Stamps(d, x) = {} THEN row.at[x] = None /\ row.val[x] = None
                        ELSE /\ \A t \in Stamps(d, x) : row.at[x] >= t
                             /\ \E r \in accepted[d] :
                                    /\ x \in DOMAIN r.props
                                    /\ r.ts = row.at[x]
                                    /\ r.props[x] = row.val[x]

\* However reports of a device, confirmations and rule changes interleave, a
\* metric of a device in a pond has at most one unconfirmed alarm.
OneOpenAlarm ==
    \A k \in Alarms : raised[k] \in {confirmed[k], confirmed[k] + 1}

\* A report is stored, and raises alarms, only under the pond and product an
\* enabled device has when it commits: a device moved, reassigned or disabled
\* while the report waited for the row is never written under its old binding.
StoresUnderBinding ==
    \A h \in Handlers : tx[h].pc \in {"read", "commit"} =>
        device[tx[h].dev].enabled /\ Bound(h) = Binding(tx[h].dev)

\* Whatever the order of deliveries, commits and purges, the rows a report leaves
\* behind are stored once: its message, and at most one open alarm per rule.
RowsAreSingle == TypeOK /\ StoredOncePerRow /\ OneOpenAlarm
=============================================================================
