---------------------------- MODULE DeviceSession ----------------------------
(***************************************************************************)
(* MQTT device sessions: the connection registry of internal/access, the   *)
(* device rows it consults (internal/core/deviceauth.go) and writes        *)
(* (storeStatus), and the administrative changes of a device that revoke   *)
(* its session (internal/core/admin_store.go).                             *)
(*                                                                         *)
(* Every connection runs its hooks in one goroutine of the broker:         *)
(* OnConnectAuthenticate, OnSessionEstablished, any number of OnPublish,   *)
(* OnDisconnect.  Goroutines meet in sessions[d], under its mutex, and in  *)
(* the database.  One action is what a goroutine does between two of those *)
(* meetings; a mutex that is held over two database operations is the      *)
(* variable lock.  Simplifications:                                        *)
(*  - a connection object is reused once nothing refers to it;             *)
(*  - the password of a connection is the device's: a wrong one is refused *)
(*    by Resolve and leaves no trace;                                      *)
(*  - the clock counts units of which Grace make ReportInterval *          *)
(*    OfflineGraceFactor; the interval of a device does not change.        *)
(***************************************************************************)
EXTENDS Integers, FiniteSets

CONSTANTS Devices,      \* device numbers
          Clients,      \* MQTT connections
          None,         \* no device, no connection
          Grace,        \* silence after which a device counts as offline
          Slots,        \* concurrent offline checks (16 in the code)
          MaxClock,     \* bound: clock
          MaxRevision,  \* bound: session_version
          MaxFaults,    \* bound: failed status transactions and restarts
          MaxUnknown    \* bound: status transactions that commit and report an error

ASSUME DeviceAssumption ==
    /\ None \notin Devices \cup Clients
    /\ IsFiniteSet(Devices)
    /\ Grace \in Nat \ {0}
    /\ Slots \in Nat \ {0}
    /\ MaxClock \in Nat
    /\ MaxRevision \in Nat
    /\ MaxFaults \in Nat
    /\ MaxUnknown \in Nat

VARIABLES
    rows,      \* rows[d]: disabled_at IS NULL, session_version, status of the device
    tenant,    \* the tenants of the devices are active
    gauge,     \* MetricDevicesOnline
    sessions,  \* sessions[d]: the session struct
    conns,     \* conns[c]: where the goroutine of connection c is; its field since
               \*   is not in the code: when the session became this connection's
    checks,    \* checks[d]: the now of the offline check under way, or None
    lock,      \* lock[d]: the connection that holds sessions[d].mu over a step
    clock,
    faults,
    unknowns

vars == <<rows, tenant, gauge, sessions, conns, checks, lock, clock, faults, unknowns>>

Times == 0..MaxClock

NewSession == [client |-> None, revision |-> 0, lastSeen |-> 0, online |-> FALSE]
Free == [pc |-> "free", dev |-> None, mapped |-> FALSE, closing |-> "no",
         taken |-> FALSE, old |-> None, ts |-> 0, since |-> 0]

DeviceRow == [enabled : BOOLEAN, revision : 0..MaxRevision, online : BOOLEAN]
SessionState == [client : Clients \cup {None}, revision : 0..MaxRevision,
                 lastSeen : Times, online : BOOLEAN]
ConnState == [pc : {"free", "accepted", "resolved", "established", "up", "report"},
              dev : Devices \cup {None}, mapped : BOOLEAN,
              closing : {"no", "retiring", "closed"}, taken : BOOLEAN,
              old : Clients \cup {None}, ts : Times, since : Times]

TypeOK ==
    /\ rows \in [Devices -> DeviceRow]
    /\ tenant \in BOOLEAN
    /\ gauge \in Int
    /\ sessions \in [Devices -> SessionState]
    /\ conns \in [Clients -> ConnState]
    /\ checks \in [Devices -> Times \cup {None}]
    /\ lock \in [Devices -> Clients \cup {None}]
    /\ clock \in Times
    /\ faults \in 0..MaxFaults
    /\ unknowns \in 0..MaxUnknown

\* NewWithPolicy has just run: nothing is connected and every device is offline.
Init ==
    /\ rows = [d \in Devices |-> [enabled |-> TRUE, revision |-> 0, online |-> FALSE]]
    /\ tenant = TRUE
    /\ gauge = 0
    /\ sessions = [d \in Devices |-> NewSession]
    /\ conns = [c \in Clients |-> Free]
    /\ checks = [d \in Devices |-> None]
    /\ lock = [d \in Devices |-> None]
    /\ clock = 0
    /\ faults = 0
    /\ unknowns = 0

-----------------------------------------------------------------------------
(* The database as the access module sees it.                              *)

\* disabled_at IS NULL AND t.active, in every query of deviceauth.go.
Visible(d) == rows[d].enabled /\ tenant

Unlocked(d) == lock[d] = None

\* Faulty: the previous status is read after the new one was written.
GaugeStepLate(d, on) == 0

\* The gauge follows a committed change of status.
GaugeStep(d, on) == IF rows[d].online = on THEN 0 ELSE IF on THEN 1 ELSE -1

\* Faulty: the session follows although the status could not be stored.
PersistOptimistic(d, s, on) ==
    /\ sessions' = [sessions EXCEPT ![d] = [s EXCEPT !.online = on]]
    /\ IF Visible(d) THEN /\ rows' = [rows EXCEPT ![d].online = on]
                          /\ gauge' = gauge + GaugeStep(d, on)
                     ELSE UNCHANGED <<rows, gauge>>
    /\ UNCHANGED <<faults, unknowns>>

\* transition: HandleEvent runs storeStatus, and the session follows only when it
\* reports success.  s is the session as the caller has changed it so far.
Persist(d, s, on) ==
    \/ /\ Visible(d)
       /\ rows' = [rows EXCEPT ![d].online = on]
       /\ gauge' = gauge + GaugeStep(d, on)
       /\ sessions' = [sessions EXCEPT ![d] = [s EXCEPT !.online = on]]
       /\ UNCHANGED <<faults, unknowns>>
    \/ /\ IF Visible(d) THEN faults < MaxFaults /\ faults' = faults + 1 ELSE UNCHANGED faults
       /\ sessions' = [sessions EXCEPT ![d] = s]
       /\ UNCHANGED <<rows, gauge, unknowns>>
    \/ /\ Visible(d)
       /\ unknowns < MaxUnknown
       /\ unknowns' = unknowns + 1
       /\ rows' = [rows EXCEPT ![d].online = on]
       /\ sessions' = [sessions EXCEPT ![d] = s]
       /\ UNCHANGED <<gauge, faults>>

\* Going offline twice is skipped; going online is always written again.
Skips(s, on) == s.online = on /\ ~on

transition(d, s, on) ==
    IF Skips(s, on)
    THEN sessions' = [sessions EXCEPT ![d] = s] /\ UNCHANGED <<rows, gauge, faults, unknowns>>
    ELSE Persist(d, s, on)

-----------------------------------------------------------------------------
(* A connection.                                                           *)

\* Nothing refers to the connection object any more.
Unreferenced(c) == /\ \A d \in Devices : sessions[d].client # c
                   /\ \A v \in Clients : conns[v].old # c

\* OnConnectAuthenticate: Resolve and DeviceRevision accept the credentials of d.
\* If the client id belongs to a live connection v, the broker takes it over.
Accept(c, d, v) ==
    /\ conns[c].pc = "free"
    /\ Unreferenced(c)
    /\ Visible(d)
    /\ v # None => v # c /\ conns[v].pc # "free" /\ ~conns[v].taken
    /\ conns' = [u \in Clients |->
         IF u = c THEN [Free EXCEPT !.pc = "accepted", !.dev = d]
         ELSE IF u = v THEN [conns[u] EXCEPT !.taken = TRUE, !.closing = "closed"]
         ELSE conns[u]]
    /\ UNCHANGED <<rows, tenant, gauge, sessions, checks, lock, clock, faults, unknowns>>

Retired(conn) == IF conn.closing = "no" THEN [conn EXCEPT !.closing = "retiring"] ELSE conn

\* connected, before the mutex: the credentials are resolved again.  Any failure,
\* of the query too, leaves a connection without a device, which is retired.
Resolve(c, ok) ==
    /\ conns[c].pc = "accepted"
    /\ ok => Visible(conns[c].dev)
    /\ conns' = [conns EXCEPT ![c] = IF ok THEN [@ EXCEPT !.pc = "resolved"]
                                           ELSE [Retired(@) EXCEPT !.pc = "up"]]
    /\ UNCHANGED <<rows, tenant, gauge, sessions, checks, lock, clock, faults, unknowns>>

\* Faulty: the revision is stored before the taken-over check.
EstablishedEagerly(c) == LET d == conns[c].dev IN
    [sessions[d] EXCEPT !.client = IF conns[c].taken THEN @ ELSE c,
                        !.revision = rows[d].revision,
                        !.lastSeen = IF conns[c].taken THEN @ ELSE clock]

\* What connected makes of the session, unless the connection was taken over.
Established(c) == LET d == conns[c].dev IN
    IF conns[c].taken THEN sessions[d]
    ELSE [sessions[d] EXCEPT !.client = c, !.revision = rows[d].revision, !.lastSeen = clock]

\* connected, under the mutex: the taken-over check, DeviceRevision, and the new
\* client of the session.
Establish(c) ==
    LET d == conns[c].dev IN
    /\ conns[c].pc = "resolved"
    /\ Unlocked(d)
    /\ Visible(d)
    /\ sessions' = [sessions EXCEPT ![d] = Established(c)]
    /\ IF conns[c].taken
       THEN conns' = [conns EXCEPT ![c].pc = "up"] /\ UNCHANGED lock
       ELSE /\ conns' = [conns EXCEPT ![c].pc = "established", ![c].mapped = TRUE,
                                      ![c].old = sessions[d].client, ![c].since = clock]
            /\ lock' = [lock EXCEPT ![d] = c]
    /\ UNCHANGED <<rows, tenant, gauge, checks, clock, faults, unknowns>>

\* connected returns early: no revision (the device was disabled in the meantime,
\* or the query failed).  The connection stays, without a device.
EstablishNothing(c) ==
    /\ conns[c].pc = "resolved"
    /\ Unlocked(conns[c].dev)
    /\ conns' = [conns EXCEPT ![c].pc = "up"]
    /\ UNCHANGED <<rows, tenant, gauge, sessions, checks, lock, clock, faults, unknowns>>

\* Faulty: the connection that was replaced is left alone.
AfterGoOnlineNoRetire(c) == [conns EXCEPT ![c].pc = "up", ![c].old = None]

\* The connection that was replaced is retired, unless it is the same one, was
\* taken over or is closed.
AfterGoOnline(c) == LET old == conns[c].old IN
    [u \in Clients |->
        IF u = c THEN [conns[c] EXCEPT !.pc = "up", !.old = None]
        ELSE IF u = old /\ ~conns[u].taken THEN Retired(conns[u])
        ELSE conns[u]]

\* connected, the end: the device goes online and the mutex is released.
GoOnline(c) ==
    LET d == conns[c].dev IN
    /\ conns[c].pc = "established"
    /\ transition(d, sessions[d], TRUE)
    /\ conns' = AfterGoOnline(c)
    /\ lock' = [lock EXCEPT ![d] = None]
    /\ UNCHANGED <<tenant, checks, clock>>

\* retireClient: the DISCONNECT is written, or after five seconds the TCP
\* connection is closed.
Retire(c) ==
    /\ conns[c].closing = "retiring"
    /\ conns' = [conns EXCEPT ![c].closing = "closed"]
    /\ UNCHANGED <<rows, tenant, gauge, sessions, checks, lock, clock, faults, unknowns>>

\* The peer leaves, its keepalive runs out, or the broker drops it.
Drop(c) ==
    /\ conns[c].pc # "free"
    /\ conns[c].closing # "closed"
    /\ conns' = [conns EXCEPT ![c].closing = "closed"]
    /\ UNCHANGED <<rows, tenant, gauge, sessions, checks, lock, clock, faults, unknowns>>

\* disconnected: only the session's own client, not taken over, ends the session.
Ends(c) == /\ conns[c].mapped
           /\ sessions[conns[c].dev].client = c
           /\ ~conns[c].taken

Disconnect(c) ==
    LET d == conns[c].dev IN
    /\ conns[c].pc = "up"
    /\ conns[c].closing = "closed"
    /\ conns[c].mapped => Unlocked(d)
    /\ conns' = [conns EXCEPT ![c].pc = "free", ![c].mapped = FALSE]
    /\ IF Ends(c) THEN transition(d, [sessions[d] EXCEPT !.client = None], FALSE)
                  ELSE UNCHANGED <<rows, gauge, sessions, faults, unknowns>>
    /\ UNCHANGED <<tenant, checks, lock, clock>>

-----------------------------------------------------------------------------
(* Reports.                                                                *)

\* isCurrent: the session's client, with the revision it connected under.
Current(c) == LET d == conns[c].dev IN
    /\ conns[c].mapped
    /\ sessions[d].client = c
    /\ Visible(d)
    /\ rows[d].revision = sessions[d].revision

\* OnPublish passes isCurrent and stamps the event.
Publish(c) ==
    /\ conns[c].pc = "up"
    /\ conns[c].closing # "closed"
    /\ conns[c].mapped
    /\ Unlocked(conns[c].dev)
    /\ Current(c)
    /\ conns' = [conns EXCEPT ![c].pc = "report", ![c].ts = clock]
    /\ UNCHANGED <<rows, tenant, gauge, sessions, checks, lock, clock, faults, unknowns>>

\* handleReport, handleGenericReport: the heartbeat.  It looks the session up again
\* and does not ask whose it is now.
Report(c) ==
    LET d == conns[c].dev IN
    /\ conns[c].pc = "report"
    /\ Unlocked(d)
    /\ conns' = [conns EXCEPT ![c].pc = "up"]
    /\ IF sessions[d].client # None
       THEN transition(d, [sessions[d] EXCEPT !.lastSeen = conns[c].ts], TRUE)
       ELSE UNCHANGED <<rows, gauge, sessions, faults, unknowns>>
    /\ UNCHANGED <<tenant, checks, lock, clock>>

\* The packet is rejected after the session check, or is an acknowledgement.
NoReport(c) ==
    /\ conns[c].pc = "report"
    /\ conns' = [conns EXCEPT ![c].pc = "up"]
    /\ UNCHANGED <<rows, tenant, gauge, sessions, checks, lock, clock, faults, unknowns>>

-----------------------------------------------------------------------------
(* The watchdog.                                                           *)

\* No client, or silence for the grace period at time now.
Expired(d, now) == sessions[d].client = None \/ now >= sessions[d].lastSeen + Grace

\* sweep: a session that is expired gets a worker, if a slot is free.
Sweep(d) ==
    /\ Unlocked(d)
    /\ checks[d] = None
    /\ sessions[d].online
    /\ Expired(d, clock)
    /\ Cardinality({e \in Devices : checks[e] # None}) < Slots
    /\ checks' = [checks EXCEPT ![d] = clock]
    /\ UNCHANGED <<rows, tenant, gauge, sessions, conns, lock, clock, faults, unknowns>>

\* The worker looks again, with the time of the sweep.
StillExpired(d) == Expired(d, checks[d])

Check(d) ==
    /\ checks[d] # None
    /\ Unlocked(d)
    /\ checks' = [checks EXCEPT ![d] = None]
    /\ IF StillExpired(d) THEN transition(d, sessions[d], FALSE)
                          ELSE UNCHANGED <<rows, gauge, sessions, faults, unknowns>>
    /\ UNCHANGED <<tenant, conns, lock, clock>>

Tick ==
    /\ clock < MaxClock
    /\ clock' = clock + 1
    /\ UNCHANGED <<rows, tenant, gauge, sessions, conns, checks, lock, faults, unknowns>>

-----------------------------------------------------------------------------
(* Administration, and the process itself.                                 *)

\* Every change of a device that ends its sessions raises session_version.
Revoke(d, enabled) ==
    /\ rows[d].revision < MaxRevision
    /\ rows' = [rows EXCEPT ![d] = [enabled |-> enabled, revision |-> @.revision + 1,
                                    online |-> FALSE]]
    /\ UNCHANGED <<tenant, gauge, sessions, conns, checks, lock, clock, faults, unknowns>>

\* Deleting a device disables it, also twice.
DeleteDevice(d) == Revoke(d, FALSE)

MoveDevice(d) == rows[d].enabled /\ Revoke(d, TRUE)

RestoreDevice(d) == ~rows[d].enabled /\ ~rows[d].online /\ Revoke(d, TRUE)

SetTenantActive ==
    /\ tenant' = ~tenant
    /\ UNCHANGED <<rows, gauge, sessions, conns, checks, lock, clock, faults, unknowns>>

\* NewWithPolicy sets every device offline.
RestartedRows == [d \in Devices |-> [rows[d] EXCEPT !.online = FALSE]]

Restart ==
    /\ faults < MaxFaults
    /\ faults' = faults + 1
    /\ rows' = RestartedRows
    /\ gauge' = 0
    /\ sessions' = [d \in Devices |-> NewSession]
    /\ conns' = [c \in Clients |-> Free]
    /\ checks' = [d \in Devices |-> None]
    /\ lock' = [d \in Devices |-> None]
    /\ UNCHANGED <<tenant, clock, unknowns>>

-----------------------------------------------------------------------------
Connection(c) == \/ Resolve(c, TRUE) \/ Resolve(c, FALSE)
                 \/ Establish(c) \/ EstablishNothing(c) \/ GoOnline(c)
                 \/ Report(c) \/ NoReport(c) \/ Disconnect(c)

Next ==
    \/ \E c \in Clients, d \in Devices, v \in Clients \cup {None} : Accept(c, d, v)
    \/ \E c \in Clients : Connection(c) \/ Publish(c) \/ Retire(c) \/ Drop(c)
    \/ \E d \in Devices : Sweep(d) \/ Check(d)
    \/ \E d \in Devices : DeleteDevice(d) \/ MoveDevice(d) \/ RestoreDevice(d)
    \/ SetTenantActive \/ Tick \/ Restart

Spec == Init /\ [][Next]_vars

-----------------------------------------------------------------------------
(* Safety.                                                                 *)

\* As long as every status transaction that committed has said so (unknowns), a
\* device that is stored as online has a session in memory that is online too, so
\* that the watchdog will end it: no failed transaction, administrative change or
\* restart leaves an online device nobody watches (transition, NewWithPolicy).
OnlineIsWatched ==
    \A d \in Devices : rows[d].online /\ unknowns = 0 => sessions[d].online

\* A device truly has a single active session: a connection that connected put in
\* place of another one leaves the other one on its way out.
SingleSession ==
    \A c \in Clients :
        LET d == conns[c].dev IN
        conns[c].mapped /\ Unlocked(d) /\ sessions[d].client # c
            => conns[c].closing # "no"

\* The exported gauge falls short of the devices stored as online by no more than
\* the status transactions that committed and reported an error: neither the
\* changes that set devices offline past it nor repeated ones (storeStatus).
GaugeNeverLow ==
    Cardinality({d \in Devices : rows[d].online}) <= gauge + unknowns

\* The watchdog leaves a session alone until its connection has been there for the
\* grace period: "3 x interval without a report: offline, once", and a second
\* session replaces the first "and keeps the right status".  It does not: a report
\* of the replaced connection sets lastSeen back to the time it was stamped.
OfflineIsJustified ==
    [][\A d \in Devices : \A c \in Clients :
          sessions[d].online /\ ~sessions'[d].online /\ sessions'[d].client = c
              => clock >= conns[c].since + Grace]_vars

\* The device of the connection has another client, or changed since it connected.
Superseded(c) == LET d == conns[c].dev IN
    /\ conns[c].mapped
    /\ sessions[d].client # c \/ sessions[d].revision # rows[d].revision

\* A connection that was superseded, or whose device was moved, disabled or restored
\* since, never passes isCurrent again, whoever connects or disconnects next.
RevokedStaysRevoked ==
    [][\A c \in Clients : Superseded(c) /\ conns'[c].mapped => ~Current(c)']_vars
=============================================================================
