------------------------------ MODULE License ------------------------------
(***************************************************************************)
(* The licence of a deployment: the durable clock high-water mark, the     *)
(* import of a signed licence, the admission of devices against its quota, *)
(* the configuration of cameras under its video feature and the status     *)
(* the other parts ask for (internal/license, internal/core/license_*.go,  *)
(* RegisterDevice and RestoreDevice of internal/core/admin_store.go,       *)
(* internal/camera/license.go).                                            *)
(*                                                                         *)
(* A request first observes the clock in a transaction of its own, then    *)
(* runs one database transaction: it takes the row lock of license_state,  *)
(* checks the clock row under a share lock, decides, and commits.  Every   *)
(* row lock is held to the end of the transaction, so the locks are        *)
(* functions of where a request is.  Two readings of the wall clock in one *)
(* step of a transaction are taken as one reading.                         *)
(***************************************************************************)
EXTENDS Integers, FiniteSets

CONSTANTS
    Devices,     \* device rows that can exist
    Requests,    \* concurrent requests
    Licenses,    \* licence envelopes an administrator may hold
    None,        \* no licence installed; a licence that does not expire
    Slack,       \* the five minutes the clock may go back
    MaxTime,     \* bound on the wall clock
    MaxVersion   \* bound on the token version of the administrator

\* A licence: its signature and key verify, it names this deployment, its
\* times and its quota.
LicenseType == [signed : BOOLEAN, here : BOOLEAN, from : 0..MaxTime,
                until : 0..MaxTime \cup {None}, max : Nat, feature : BOOLEAN]

ASSUME LicenseAssumption ==
    /\ Slack \in Nat /\ MaxTime \in Nat /\ MaxVersion \in Nat
    /\ \A l \in Licenses : l \in LicenseType
    /\ None \notin Licenses /\ None \notin Devices
    /\ IsFiniteSet(Devices)

VARIABLES
    clock,    \* the wall clock of the server
    maxSeen,  \* license_clock.max_seen_at; 0 when never observed
    latched,  \* license_clock.clock_error
    lic,      \* license_state: the installed licence
    dev,      \* devices: "absent", "enabled" or "disabled"
    cam,      \* a camera row is configured
    version,  \* users.token_version of the administrator
    req       \* where each request is

vars == <<clock, maxSeen, latched, lic, dev, cam, version, req>>

Idle == [at |-> "idle", op |-> None, arg |-> None, ver |-> 0]
Places == {"idle", "observe", "begin", "actor", "locked", "checked", "reobserve"}

Used == Cardinality({d \in Devices : dev[d] = "enabled"})

\* The row locks: license_state FOR UPDATE, license_clock FOR SHARE, the
\* administrator's users row FOR SHARE, the device row FOR UPDATE.
HoldsLicense(r) == req[r].at \in {"locked", "checked"}
SharesClock(r) == req[r].at = "checked"
SharesActor(r) == req[r].op = "import" /\ req[r].at \in {"actor", "locked", "checked"}
HoldsDevice(r, d) == req[r].op = "restore" /\ req[r].at = "checked" /\ req[r].arg = d

\* A camera's transaction takes the licence row FOR SHARE.
LicenseUnlocked == \A r \in Requests : HoldsLicense(r) => req[r].op = "camera"
LicenseFree == \A r \in Requests : ~HoldsLicense(r)

Goto(r, place) == req' = [req EXCEPT ![r].at = place]

\* finishLicenseTransaction: the locks go with the transaction.
End(r) == req' = [req EXCEPT ![r] = Idle]

-----------------------------------------------------------------------------
\* ParsePayload and ValidatePayload: a licence ends after it begins.
ValidatePayload(l) == l.until # None => l.until > l.from

\* Verify and the comparison of the key: what was signed, and well formed.
Verify(l) == l.signed /\ ValidatePayload(l)

\* Evaluate: the state of a licence at a time.
Evaluate(l, now, seen, err) ==
    IF err \/ now < seen - Slack THEN "clock_error"
    ELSE IF ~l.here THEN "instance_mismatch"
    ELSE IF now < l.from THEN "not_before"
    ELSE IF l.until = None THEN "permanent"
    ELSE IF now >= l.until THEN "expired"
    ELSE "valid"

\* LicenseStatus: what the installed licence and the counted devices amount to.
\* Only a verified licence carries a quota; the quota of the others reads zero.
StatusQuota == IF lic # None /\ Verify(lic) THEN lic.max ELSE 0
StatusOf ==
    LET state == IF lic # None /\ Verify(lic) THEN Evaluate(lic, clock, maxSeen, latched)
                 ELSE IF latched THEN "clock_error"
                 ELSE IF lic = None THEN "missing" ELSE "invalid"
    IN  IF Used > StatusQuota /\ state \in {"valid", "permanent"} THEN "overage" ELSE state

AllowsDeviceAdmission ==
    /\ StatusOf \in {"valid", "permanent"}
    /\ Used < StatusQuota

-----------------------------------------------------------------------------
\* The clock row.

ClockRefused == latched \/ clock < maxSeen - Slack

\* observeLicenseClock: latch on a clock more than Slack behind, else raise
\* the mark.  The transaction commits in both cases.
Observed ==
    /\ \A r \in Requests : ~SharesClock(r)
    /\ latched' = ClockRefused
    /\ maxSeen' = IF ~ClockRefused /\ clock > maxSeen THEN clock ELSE maxSeen

\* ReconcileLicenseClock: refused while the clock is behind the mark.
ReconcileLicenseClock ==
    /\ \A r \in Requests : ~SharesClock(r)
    /\ clock >= maxSeen
    /\ latched
    /\ latched' = FALSE
    /\ UNCHANGED <<clock, maxSeen, lic, dev, cam, version, req>>

\* checkLicenseClock: the recheck under the share lock.
checkLicenseClock == ClockRefused

\* LicenseStatus and ObserveLicenseClock on their own: start-up, the status
\* page and RequireLicenseFeature observe before they read.
ObserveLicenseClock ==
    /\ Observed
    /\ UNCHANGED <<clock, lic, dev, cam, version, req>>

-----------------------------------------------------------------------------
\* A request arrives with the token version it was authenticated with.
Start(r, op, arg) ==
    /\ req[r] = Idle
    /\ req' = [req EXCEPT ![r] = [at |-> "observe", op |-> op, arg |-> arg, ver |-> version]]
    /\ UNCHANGED <<clock, maxSeen, latched, lic, dev, cam, version>>

\* The observation a request begins with: refused ends it.
ObserveFirst(r) ==
    /\ req[r].at = "observe"
    /\ Observed
    /\ IF ClockRefused THEN End(r) ELSE Goto(r, "begin")
    /\ UNCHANGED <<clock, lic, dev, cam, version>>

\* finishLicenseTransaction: after a clock error and the rollback.
ObserveAgain(r) ==
    /\ req[r].at = "reobserve"
    /\ Observed
    /\ End(r)
    /\ UNCHANGED <<clock, lic, dev, cam, version>>

\* ImportLicenseRaw: the administrator's row, then the licence row.
CheckActor(r) ==
    /\ req[r].at = "begin" /\ req[r].op = "import"
    /\ IF req[r].ver = version THEN Goto(r, "actor") ELSE End(r)
    /\ UNCHANGED <<clock, maxSeen, latched, lic, dev, cam, version>>

\* Faulty: the licence row is read without its lock.
LockLicenseStateUnlocked(r) ==
    /\ req[r].op # "camera"
    /\ req[r].at = (IF req[r].op = "import" THEN "actor" ELSE "begin")
    /\ Goto(r, "locked")
    /\ UNCHANGED <<clock, maxSeen, latched, lic, dev, cam, version>>

lockLicenseState(r) ==
    /\ req[r].op # "camera"
    /\ req[r].at = (IF req[r].op = "import" THEN "actor" ELSE "begin")
    /\ LicenseFree
    /\ Goto(r, "locked")
    /\ UNCHANGED <<clock, maxSeen, latched, lic, dev, cam, version>>

\* Authorization, an unknown pond or device, or a bad interval refuse.
Refuse(r) ==
    /\ req[r].at = "locked" /\ req[r].op \in {"register", "restore"}
    /\ End(r)
    /\ UNCHANGED <<clock, maxSeen, latched, lic, dev, cam, version>>

\* Faulty: the device that fills the quota is counted after it is let in.
AdmissibleOffByOne ==
    /\ lic # None /\ Verify(lic)
    /\ Evaluate(lic, clock, 0, FALSE) \in {"valid", "permanent"}
    /\ Used <= lic.max

\* checkDeviceAdmission after the clock recheck.
Admissible ==
    /\ lic # None /\ Verify(lic)
    /\ Evaluate(lic, clock, 0, FALSE) \in {"valid", "permanent"}
    /\ Used < lic.max

\* Faulty: the clock row is not read again in the transaction.
CheckDeviceAdmissionNoClock(r) ==
    /\ req[r].at = "locked" /\ req[r].op \in {"register", "restore"}
    /\ req[r].op = "restore" => dev[req[r].arg] = "disabled"
    /\ IF Admissible THEN Goto(r, "checked") ELSE End(r)
    /\ UNCHANGED <<clock, maxSeen, latched, lic, dev, cam, version>>

checkDeviceAdmission(r) ==
    /\ req[r].at = "locked" /\ req[r].op \in {"register", "restore"}
    /\ req[r].op = "restore" => dev[req[r].arg] = "disabled"
    /\ \/ checkLicenseClock /\ Goto(r, "reobserve")
       \/ ~checkLicenseClock /\ ~Admissible /\ End(r)
       \/ ~checkLicenseClock /\ Admissible /\ Goto(r, "checked")
    /\ UNCHANGED <<clock, maxSeen, latched, lic, dev, cam, version>>

\* RestoreDevice of a device that is not disabled does nothing.
RestoreNothing(r) ==
    /\ req[r].at = "locked" /\ req[r].op = "restore"
    /\ dev[req[r].arg] # "disabled"
    /\ End(r)
    /\ UNCHANGED <<clock, maxSeen, latched, lic, dev, cam, version>>

\* RegisterDevice inserts a row with a fresh number.
RegisterDevice(r) ==
    /\ req[r].at = "checked" /\ req[r].op = "register"
    /\ \E d \in Devices :
          /\ dev[d] = "absent"
          /\ dev' = [dev EXCEPT ![d] = "enabled"]
    /\ End(r)
    /\ UNCHANGED <<clock, maxSeen, latched, lic, cam, version>>

\* The transaction fails before its commit.
Rollback(r) ==
    /\ req[r].at = "checked"
    /\ End(r)
    /\ UNCHANGED <<clock, maxSeen, latched, lic, dev, cam, version>>

RestoreDevice(r) ==
    /\ req[r].at = "checked" /\ req[r].op = "restore"
    /\ dev' = [dev EXCEPT ![req[r].arg] = "enabled"]
    /\ End(r)
    /\ UNCHANGED <<clock, maxSeen, latched, lic, cam, version>>

\* DisableDevice takes the device row only.
DisableDevice(d) ==
    /\ dev[d] = "enabled"
    /\ \A r \in Requests : ~HoldsDevice(r, d)
    /\ dev' = [dev EXCEPT ![d] = "disabled"]
    /\ UNCHANGED <<clock, maxSeen, latched, lic, cam, version, req>>

\* ImportLicenseRaw: Verify, the key, Evaluate; a refusal rolls back.
Importable(l) ==
    /\ Verify(l)
    /\ Evaluate(l, clock, 0, FALSE) \in {"valid", "permanent"}

CheckImport(r) ==
    /\ req[r].at = "locked" /\ req[r].op = "import"
    /\ \/ checkLicenseClock /\ Goto(r, "reobserve")
       \/ ~checkLicenseClock /\ (~Importable(req[r].arg) \/ lic = req[r].arg) /\ End(r)
       \/ ~checkLicenseClock /\ Importable(req[r].arg) /\ lic # req[r].arg /\ Goto(r, "checked")
    /\ UNCHANGED <<clock, maxSeen, latched, lic, dev, cam, version>>

ImportLicenseRaw(r) ==
    /\ req[r].at = "checked" /\ req[r].op = "import"
    /\ lic' = req[r].arg
    /\ End(r)
    /\ UNCHANGED <<clock, maxSeen, latched, dev, cam, version>>

\* AllowsFeature of the video feature, as RequireVideo asks it.
AllowsVideo ==
    /\ lic # None /\ Verify(lic)
    /\ Evaluate(lic, clock, maxSeen, latched) \in {"valid", "permanent"}
    /\ lic.feature

\* LicenseSnapshot and RequireVideo within the camera's transaction.
LicenseSnapshot(r) ==
    /\ req[r].at = "begin" /\ req[r].op = "camera"
    /\ LicenseUnlocked
    /\ IF AllowsVideo THEN Goto(r, "checked") ELSE End(r)
    /\ UNCHANGED <<clock, maxSeen, latched, lic, dev, cam, version>>

WriteCamera(r) ==
    /\ req[r].at = "checked" /\ req[r].op = "camera"
    /\ cam' = TRUE
    /\ End(r)
    /\ UNCHANGED <<clock, maxSeen, latched, lic, dev, version>>

DisableCamera ==
    /\ cam
    /\ cam' = FALSE
    /\ UNCHANGED <<clock, maxSeen, latched, lic, dev, version, req>>

-----------------------------------------------------------------------------
\* The environment: the wall clock goes on and may be set back, the
\* administrator's password may change.
Tick ==
    /\ clock < MaxTime
    /\ clock' = clock + 1
    /\ UNCHANGED <<maxSeen, latched, lic, dev, cam, version, req>>

SetBack ==
    /\ \E t \in 0..MaxTime : t < clock /\ clock' = t
    /\ UNCHANGED <<maxSeen, latched, lic, dev, cam, version, req>>

\* ChangeAdminPassword updates the users row an import shares.
ChangePassword ==
    /\ version < MaxVersion
    /\ \A r \in Requests : ~SharesActor(r)
    /\ version' = version + 1
    /\ UNCHANGED <<clock, maxSeen, latched, lic, dev, cam, req>>

Init ==
    /\ clock = 0 /\ maxSeen = 0 /\ latched = FALSE
    /\ lic = None
    /\ dev = [d \in Devices |-> "absent"]
    /\ cam = FALSE /\ version = 0
    /\ req = [r \in Requests |-> Idle]

Request(r) ==
    \/ Start(r, "register", None)
    \/ \E d \in Devices : dev[d] # "absent" /\ Start(r, "restore", d)
    \/ \E l \in Licenses : Start(r, "import", l)
    \/ Start(r, "camera", None)
    \/ ObserveFirst(r) \/ ObserveAgain(r)
    \/ CheckActor(r) \/ lockLicenseState(r) \/ Refuse(r)
    \/ checkDeviceAdmission(r) \/ RestoreNothing(r)
    \/ RegisterDevice(r) \/ RestoreDevice(r) \/ Rollback(r)
    \/ CheckImport(r) \/ ImportLicenseRaw(r)
    \/ LicenseSnapshot(r) \/ WriteCamera(r)

Next ==
    \/ \E r \in Requests : Request(r)
    \/ \E d \in Devices : DisableDevice(d)
    \/ ObserveLicenseClock \/ ReconcileLicenseClock
    \/ DisableCamera \/ Tick \/ SetBack \/ ChangePassword

Spec == Init /\ [][Next]_vars

-----------------------------------------------------------------------------
\* Every variable holds values of its type, and a request that ended has
\* nothing left of what it was asked.
TypeOK ==
    /\ clock \in 0..MaxTime /\ maxSeen \in 0..MaxTime /\ latched \in BOOLEAN
    /\ lic \in Licenses \cup {None}
    /\ dev \in [Devices -> {"absent", "enabled", "disabled"}]
    /\ cam \in BOOLEAN /\ version \in 0..MaxVersion
    /\ \A r \in Requests :
          /\ req[r].at \in Places /\ req[r].ver \in 0..MaxVersion
          /\ req[r].at = "idle" => req[r] = Idle
          /\ \/ req[r] = Idle
             \/ req[r].op \in {"register", "camera"} /\ req[r].arg = None
             \/ req[r].op = "restore" /\ req[r].arg \in Devices
             \/ req[r].op = "import" /\ req[r].arg \in Licenses

Admits == Used' > Used

\* A device is let in (RegisterDevice, RestoreDevice) only within the quota of
\* the licence installed at its commit: two admissions at the last free place,
\* or an admission and the import of a smaller licence, are not both counted
\* against what neither sees.  Only an import can put the installation over.
QuotaHolds == Admits => lic # None /\ Verify(lic) /\ lic.here /\ Used' <= lic.max

\* No device is let in while the clock is latched, and an expired licence is
\* not revived by setting the clock back: at the commit of an admission the
\* highest clock ever recorded is less than Slack past the licence's end.
ClockNotRewound ==
    Admits => ~latched /\ (lic.until # None => maxSeen < lic.until + Slack)

\* The high-water mark never falls, and a latch is lifted only by an operator
\* whose clock has caught up with the mark (observeLicenseClock,
\* ReconcileLicenseClock), whatever the observations in between.
LatchIsDurable ==
    maxSeen' >= maxSeen /\ (latched /\ ~latched' => clock >= maxSeen)

\* A licence is installed only by an administrator whose token is current at
\* the commit, whatever password change came between authentication and it.
ImportByCurrentAdmin ==
    \A r \in Requests : lic' # lic /\ req[r].at = "checked" /\ req'[r] = Idle
       => req[r].op = "import" /\ req[r].ver = version

\* A camera is configured only under an installed licence with the video feature
\* and an unlatched clock at its commit: the share locks LicenseSnapshot takes
\* keep an import and a latch out until then.
VideoUnderLicense ==
    ~cam /\ cam' => lic # None /\ Verify(lic) /\ lic.feature /\ ~latched

\* The two evaluations of the quota agree: the status page offers admission
\* (Status.AllowsDeviceAdmission, with the clock row passed to Evaluate) exactly
\* when checkDeviceAdmission, which tests the clock row by itself, admits.
StatusAgreesWithAdmission == AllowsDeviceAdmission <=> ~checkLicenseClock /\ Admissible

\* What the status page says is what a request meets: every row has its type
\* and Status and checkDeviceAdmission draw the same line at every boundary.
StatusIsHonest == TypeOK /\ StatusAgreesWithAdmission

\* Whatever an operation of this licence commits (a device, a camera, another
\* licence), it commits under the licence, the features and the administrator
\* that are current then, not under those it was checked against.
AdmissionHolds == [][QuotaHolds /\ VideoUnderLicense /\ ImportByCurrentAdmin]_vars

\* Setting the clock back gains nothing: no expired licence is revived, no mark
\* falls and no latch opens by itself (observeLicenseClock, checkLicenseClock).
ClockHolds == [][ClockNotRewound /\ LatchIsDurable]_vars
=============================================================================
