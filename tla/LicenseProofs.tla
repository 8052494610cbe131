--------------------------- MODULE LicenseProofs ---------------------------
(***************************************************************************)
(* Proofs about License for any devices, requests, licences and bounds.    *)
(* What a transaction checked stays true until it commits because of the   *)
(* row locks it holds: the inductive invariant says who can hold them      *)
(* together and what a request that passed its check still knows.          *)
(***************************************************************************)
EXTENDS License, FiniteSetTheorems, TLAPS

Operations == {"register", "restore", "import", "camera"}

\* The record of a request.
RequestType == [at : Places, op : Operations \cup {None},
                arg : Devices \cup Licenses \cup {None}, ver : 0..MaxVersion]

ReqType == req \in [Requests -> RequestType]

\* The lock of license_state: shared by cameras, otherwise held by one request.
LockInv == \A r, s \in Requests :
    r # s /\ HoldsLicense(r) /\ HoldsLicense(s) => req[r].op = "camera" /\ req[s].op = "camera"

\* What an admission was checked against still holds: the licence, a free
\* place, the latch and the high-water mark.
AdmissionInv == \A r \in Requests :
    req[r].at = "checked" /\ req[r].op \in {"register", "restore"} =>
       /\ lic # None /\ Verify(lic) /\ lic.here
       /\ Used < lic.max
       /\ ~latched
       /\ lic.until # None => maxSeen < lic.until + Slack

\* What a camera was checked against still holds.
CameraInv == \A r \in Requests :
    req[r].at = "checked" /\ req[r].op = "camera" =>
       lic # None /\ Verify(lic) /\ lic.feature /\ ~latched

\* The token of an administrator whose row an import shares is current.
ActorInv == \A r \in Requests : SharesActor(r) => req[r].ver = version

IndInv == TypeOK /\ ReqType /\ LockInv /\ AdmissionInv /\ CameraInv /\ ActorInv

-----------------------------------------------------------------------------
\* Counting devices.

\* The number of enabled devices is a natural number.
LEMMA UsedType == Used \in Nat
<1>1. {d \in Devices : dev[d] = "enabled"} \in SUBSET Devices
  OBVIOUS
<1>2. IsFiniteSet({d \in Devices : dev[d] = "enabled"})
  BY <1>1, FS_Subset, LicenseAssumption
<1> QED BY <1>2, FS_CardinalityType DEF Used

\* Enabling a device counts one more at most (RegisterDevice, RestoreDevice).
LEMMA EnableCounts ==
    ASSUME NEW d \in Devices, dev \in [Devices -> {"absent", "enabled", "disabled"}],
           dev' = [dev EXCEPT ![d] = "enabled"]
    PROVE  Used' \in Nat /\ Used' <= Used + 1
<1> DEFINE Now == {e \in Devices : dev[e] = "enabled"}
           Then == {e \in Devices : dev'[e] = "enabled"}
<1>1. Now \in SUBSET Devices /\ IsFiniteSet(Now) /\ Cardinality(Now) \in Nat
  <2>1. Now \in SUBSET Devices
    OBVIOUS
  <2>2. IsFiniteSet(Now)
    BY <2>1, FS_Subset, LicenseAssumption
  <2> QED BY <2>1, <2>2, FS_CardinalityType
<1>2. Then \in SUBSET (Now \cup {d})
  OBVIOUS
<1>3. /\ IsFiniteSet(Now \cup {d})
      /\ Cardinality(Now \cup {d}) = IF d \in Now THEN Cardinality(Now) ELSE Cardinality(Now) + 1
  <2> HIDE DEF Now
  <2> QED BY <1>1, FS_AddElement
<1>4. IsFiniteSet(Then) /\ Cardinality(Then) <= Cardinality(Now \cup {d})
  <2> HIDE DEF Now, Then
  <2> QED BY <1>2, <1>3, FS_Subset
<1>5. Cardinality(Then) \in Nat /\ Cardinality(Then) <= Cardinality(Now) + 1
  <2> HIDE DEF Now, Then
  <2> QED BY <1>1, <1>3, <1>4, FS_CardinalityType
<1> QED BY <1>5 DEF Used

\* Disabling a device counts no more than before.
LEMMA DisableCounts ==
    ASSUME NEW d \in Devices, dev \in [Devices -> {"absent", "enabled", "disabled"}],
           dev' = [dev EXCEPT ![d] = "disabled"]
    PROVE  Used' \in Nat /\ Used' <= Used
<1> DEFINE Now == {e \in Devices : dev[e] = "enabled"}
           Then == {e \in Devices : dev'[e] = "enabled"}
<1>1. Now \in SUBSET Devices
  OBVIOUS
<1>2. IsFiniteSet(Now)
  BY <1>1, FS_Subset, LicenseAssumption
<1>3. Then \in SUBSET Now
  OBVIOUS
<1>4. IsFiniteSet(Then) /\ Cardinality(Then) <= Cardinality(Now)
  <2> HIDE DEF Now, Then
  <2> QED BY <1>2, <1>3, FS_Subset
<1>5. Cardinality(Then) \in Nat
  <2> HIDE DEF Then
  <2> QED BY <1>4, FS_CardinalityType
<1> QED BY <1>4, <1>5 DEF Used

-----------------------------------------------------------------------------
\* Requests.

\* A request only moves, ends or begins: its record keeps its type.
LEMMA ReqTypes ==
    ASSUME TypeOK, ReqType, NEW r \in Requests, Request(r)
    PROVE  ReqType' /\ \A s \in Requests \ {r} : req'[s] = req[s]
<1> USE DEF TypeOK, ReqType, RequestType
<1>1. Idle \in RequestType
  BY LicenseAssumption DEF Idle, Places
<1>2. ASSUME NEW p \in Places, Goto(r, p) 
      PROVE  ReqType' /\ \A s \in Requests \ {r} : req'[s] = req[s]
  BY <1>2 DEF Goto
<1>3. ASSUME End(r)
      PROVE  ReqType' /\ \A s \in Requests \ {r} : req'[s] = req[s]
  BY <1>1, <1>3 DEF End
<1>4. ASSUME NEW op \in Operations, NEW arg \in Devices \cup Licenses \cup {None}, Start(r, op, arg)
      PROVE  ReqType' /\ \A s \in Requests \ {r} : req'[s] = req[s]
  BY <1>4 DEF Start, Places
<1>5. {"begin", "actor", "locked", "checked", "reobserve"} \subseteq Places
  BY DEF Places
<1> HIDE DEF TypeOK, ReqType, RequestType
<1>6. CASE \E op \in Operations, arg \in Devices \cup Licenses \cup {None} : Start(r, op, arg)
  BY <1>4, <1>6
<1>7. CASE End(r)
  BY <1>3, <1>7
<1>8. CASE \E p \in {"begin", "actor", "locked", "checked", "reobserve"} : Goto(r, p)
  BY <1>2, <1>5, <1>8
<1> QED
  BY <1>6, <1>7, <1>8
  DEF Request, Operations, ObserveFirst, ObserveAgain, CheckActor, lockLicenseState, Refuse,
      checkDeviceAdmission, RestoreNothing, RegisterDevice, RestoreDevice, Rollback,
      CheckImport, ImportLicenseRaw, LicenseSnapshot, WriteCamera

\* What checkDeviceAdmission establishes.  The clock it reads is before the end
\* of the licence and at most Slack behind the mark, so the mark is less than
\* Slack past the end.
LEMMA AdmissibleMeans ==
    ASSUME TypeOK, ~checkLicenseClock, Admissible
    PROVE  /\ lic # None /\ Verify(lic) /\ lic.here
           /\ Used < lic.max
           /\ ~latched
           /\ lic.until # None => maxSeen < lic.until + Slack
<1>1. lic \in LicenseType
  BY LicenseAssumption DEF TypeOK, Admissible
<1>2. lic # None /\ Verify(lic) /\ Used < lic.max /\ ~latched /\ clock >= maxSeen - Slack
  BY LicenseAssumption DEF TypeOK, Admissible, checkLicenseClock, ClockRefused
<1>3. lic.here /\ (lic.until # None => clock < lic.until)
  BY <1>1, LicenseAssumption DEF TypeOK, Admissible, Evaluate, LicenseType
<1> QED BY <1>1, <1>2, <1>3, LicenseAssumption DEF TypeOK, LicenseType

\* Every step of a request preserves what requests know.
LEMMA RequestInd ==
    ASSUME IndInv, NEW r \in Requests, Request(r)
    PROVE  IndInv'
<1>0. ReqType' /\ \A s \in Requests \ {r} : req'[s] = req[s]
  BY ReqTypes DEF IndInv
<1>a. Used \in Nat
  BY UsedType
<1>b. dev' = dev => Used' = Used
  BY DEF Used
<1> USE LicenseAssumption DEF IndInv, TypeOK, ReqType, RequestType, LockInv, AdmissionInv, CameraInv, ActorInv,
        HoldsLicense, SharesActor, SharesClock, Goto, End, Idle, Places
<1>1. CASE Start(r, "register", None)
  BY <1>0, <1>a, <1>b, <1>1 DEF Start
<1>2. CASE \E d \in Devices : dev[d] # "absent" /\ Start(r, "restore", d)
  BY <1>0, <1>a, <1>b, <1>2 DEF Start
<1>3. CASE \E l \in Licenses : Start(r, "import", l)
  BY <1>0, <1>a, <1>b, <1>3 DEF Start
<1>4. CASE Start(r, "camera", None)
  BY <1>0, <1>a, <1>b, <1>4 DEF Start
<1>5. CASE ObserveFirst(r)
  BY <1>0, <1>a, <1>b, <1>5 DEF ObserveFirst, Observed, ClockRefused
<1>6. CASE ObserveAgain(r)
  BY <1>0, <1>a, <1>b, <1>6 DEF ObserveAgain, Observed, ClockRefused
<1>7. CASE CheckActor(r)
  BY <1>0, <1>a, <1>b, <1>7 DEF CheckActor
<1>8. CASE lockLicenseState(r)
  BY <1>0, <1>a, <1>b, <1>8 DEF lockLicenseState, LicenseFree
<1>9. CASE Refuse(r)
  BY <1>0, <1>a, <1>b, <1>9 DEF Refuse
<1>10. CASE checkDeviceAdmission(r)
  <2>1. ~checkLicenseClock /\ Admissible =>
           /\ lic # None /\ Verify(lic) /\ lic.here
           /\ Used < lic.max
           /\ ~latched
           /\ lic.until # None => maxSeen < lic.until + Slack
    BY AdmissibleMeans
  <2> QED BY <1>0, <1>a, <1>b, <1>10, <2>1 DEF checkDeviceAdmission
<1>11. CASE RestoreNothing(r)
  BY <1>0, <1>a, <1>b, <1>11 DEF RestoreNothing
<1>12. CASE RegisterDevice(r)
  BY <1>0, <1>a, <1>b, <1>12 DEF RegisterDevice
<1>13. CASE RestoreDevice(r)
  BY <1>0, <1>a, <1>b, <1>13 DEF RestoreDevice
<1>14. CASE Rollback(r)
  BY <1>0, <1>a, <1>b, <1>14 DEF Rollback
<1>15. CASE CheckImport(r)
  BY <1>0, <1>a, <1>b, <1>15 DEF CheckImport
<1>16. CASE ImportLicenseRaw(r)
  BY <1>0, <1>a, <1>b, <1>16 DEF ImportLicenseRaw
<1>17. CASE LicenseSnapshot(r)
  BY <1>0, <1>a, <1>b, <1>17 DEF LicenseSnapshot, LicenseUnlocked, AllowsVideo, Evaluate
<1>18. CASE WriteCamera(r)
  BY <1>0, <1>a, <1>b, <1>18 DEF WriteCamera
<1> QED BY <1>1, <1>2, <1>3, <1>4, <1>5, <1>6, <1>7, <1>8, <1>9, <1>10, <1>11, <1>12, <1>13, <1>14,
           <1>15, <1>16, <1>17, <1>18 DEF Request

\* The initial state satisfies the inductive invariant.
LEMMA InitInd == Init => IndInv
<1> SUFFICES ASSUME Init PROVE IndInv
  OBVIOUS
<1>1. 0 \in 0..MaxTime /\ 0 \in 0..MaxVersion
  BY LicenseAssumption
<1>2. TypeOK
  BY <1>1 DEF Init, TypeOK, Idle, Places
<1>3. ReqType
  BY <1>1 DEF Init, ReqType, RequestType, Idle, Places
<1>4. \A r \in Requests : req[r].at = "idle"
  BY DEF Init, Idle
<1>5. LockInv /\ AdmissionInv /\ CameraInv /\ ActorInv
  BY <1>4 DEF LockInv, AdmissionInv, CameraInv, ActorInv, HoldsLicense, SharesActor
<1> QED BY <1>2, <1>3, <1>5 DEF IndInv

\* Every step preserves the inductive invariant.
LEMMA NextInd == IndInv /\ [Next]_vars => IndInv'
<1> SUFFICES ASSUME IndInv, [Next]_vars PROVE IndInv'
  OBVIOUS
<1>a. Used \in Nat
  BY UsedType
<1>b. dev' = dev => Used' = Used
  BY DEF Used
<1>1. ASSUME NEW r \in Requests, Request(r) PROVE IndInv'
  BY <1>1, RequestInd
<1> USE LicenseAssumption DEF IndInv, TypeOK, ReqType, RequestType, LockInv, AdmissionInv, CameraInv,
        ActorInv, HoldsLicense, SharesActor, SharesClock
<1>2. ASSUME NEW d \in Devices, DisableDevice(d) PROVE IndInv'
  <2>1. Used' \in Nat /\ Used' <= Used
    BY <1>2, DisableCounts DEF DisableDevice
  <2>2. \A r \in Requests : Used < lic.max /\ lic # None => Used' < lic.max
    BY <1>a, <2>1 DEF LicenseType
  <2> QED BY <1>2, <2>2 DEF DisableDevice
<1>3. CASE ObserveLicenseClock
  <2>1. /\ maxSeen' \in 0..MaxTime /\ latched' \in BOOLEAN
        /\ \A r \in Requests : req[r].at # "checked"
    BY <1>3 DEF ObserveLicenseClock, Observed, ClockRefused
  <2> QED BY <1>b, <1>3, <2>1 DEF ObserveLicenseClock
<1>4. CASE ReconcileLicenseClock
  BY <1>b, <1>4 DEF ReconcileLicenseClock
<1>5. CASE DisableCamera
  BY <1>b, <1>5 DEF DisableCamera
<1>6. CASE Tick
  BY <1>b, <1>6 DEF Tick
<1>7. CASE SetBack
  BY <1>b, <1>7 DEF SetBack
<1>8. CASE ChangePassword
  BY <1>b, <1>8 DEF ChangePassword
<1>9. CASE UNCHANGED vars
  BY <1>b, <1>9 DEF vars
<1> QED BY <1>1, <1>2, <1>3, <1>4, <1>5, <1>6, <1>7, <1>8, <1>9 DEF Next

\* The inductive invariant holds in every reachable state.
LEMMA Inductive == Spec => []IndInv
<1> QED BY InitInd, NextInd, PTL DEF Spec

-----------------------------------------------------------------------------
\* The two evaluations of the quota, by the status page and by the admission,
\* draw the same line for every licence, clock, mark and number of devices.
LEMMA StatusAgrees == TypeOK => StatusAgreesWithAdmission
<1> SUFFICES ASSUME TypeOK PROVE AllowsDeviceAdmission <=> ~checkLicenseClock /\ Admissible
  BY DEF StatusAgreesWithAdmission
<1>a. Used \in Nat
  BY UsedType
<1>1. CASE lic # None /\ Verify(lic)
  <2>1. lic \in LicenseType /\ StatusQuota = lic.max
    BY <1>1, LicenseAssumption DEF TypeOK, StatusQuota
  <2>2. Evaluate(lic, clock, 0, FALSE) \in {"valid", "permanent"}
          <=> /\ lic.here /\ clock >= lic.from
              /\ lic.until # None => clock < lic.until
    BY <2>1, LicenseAssumption DEF TypeOK, Evaluate, LicenseType
  <2>3. Evaluate(lic, clock, maxSeen, latched) \in {"valid", "permanent"}
          <=> /\ ~ClockRefused
              /\ lic.here /\ clock >= lic.from
              /\ lic.until # None => clock < lic.until
    BY <2>1, LicenseAssumption DEF TypeOK, Evaluate, LicenseType, ClockRefused
  <2>4. StatusOf \in {"valid", "permanent"}
          <=> /\ Evaluate(lic, clock, maxSeen, latched) \in {"valid", "permanent"}
              /\ ~(Used > lic.max)
    BY <1>1, <2>1 DEF StatusOf
  <2>5. Used < lic.max => ~(Used > lic.max)
    BY <1>a, <2>1 DEF LicenseType
  <2> QED BY <1>1, <2>1, <2>2, <2>3, <2>4, <2>5
          DEF AllowsDeviceAdmission, Admissible, checkLicenseClock
<1>2. CASE ~(lic # None /\ Verify(lic))
  <2>1. StatusOf \notin {"valid", "permanent"}
    BY <1>2 DEF StatusOf
  <2> QED BY <1>2, <2>1 DEF AllowsDeviceAdmission, Admissible
<1> QED BY <1>1, <1>2

\* StatusIsHonest for every deployment: what the status page offers is what
\* checkDeviceAdmission grants.
THEOREM StatusIsHonestHolds == Spec => []StatusIsHonest
<1>1. IndInv => StatusIsHonest
  BY StatusAgrees DEF IndInv, StatusIsHonest
<1> QED BY <1>1, Inductive, PTL

\* Devices only grow in number by RegisterDevice and RestoreDevice, which know
\* the licence, a free place and the clock row at their commit.
LEMMA AdmitsKnows ==
    ASSUME IndInv, [Next]_vars, Admits
    PROVE  /\ lic # None /\ Verify(lic) /\ lic.here /\ Used' <= lic.max
           /\ ~latched
           /\ lic.until # None => maxSeen < lic.until + Slack
<1>a. Used \in Nat
  BY UsedType
<1>b. dev' # dev
  BY <1>a DEF Admits, Used
<1>1. ASSUME NEW d \in Devices PROVE ~DisableDevice(d)
  <2> SUFFICES ASSUME DisableDevice(d) PROVE FALSE
    OBVIOUS
  <2>1. Used' \in Nat /\ Used' <= Used
    BY DisableCounts DEF DisableDevice, IndInv, TypeOK
  <2> QED BY <1>a, <2>1 DEF Admits
<1>2. PICK r \in Requests : RegisterDevice(r) \/ RestoreDevice(r)
  BY <1>b, <1>1
  DEF Next, Request, Start, ObserveFirst, ObserveAgain, CheckActor, lockLicenseState, Refuse,
      checkDeviceAdmission, RestoreNothing, Rollback, CheckImport, ImportLicenseRaw,
      LicenseSnapshot, WriteCamera, ObserveLicenseClock, ReconcileLicenseClock, DisableCamera,
      Tick, SetBack, ChangePassword, vars
<1>3. /\ lic # None /\ Verify(lic) /\ lic.here /\ Used < lic.max
      /\ ~latched
      /\ lic.until # None => maxSeen < lic.until + Slack
  BY <1>2 DEF IndInv, AdmissionInv, RegisterDevice, RestoreDevice
<1>4. Used' \in Nat /\ Used' <= Used + 1
  <2>1. CASE RegisterDevice(r)
    BY <2>1, EnableCounts DEF RegisterDevice, IndInv, TypeOK
  <2>2. CASE RestoreDevice(r)
    <3>1. req[r].arg \in Devices
      BY <2>2 DEF RestoreDevice, IndInv, TypeOK, Idle
    <3> QED BY <2>2, <3>1, EnableCounts DEF RestoreDevice, IndInv, TypeOK
  <2> QED BY <1>2, <2>1, <2>2
<1>5. lic.max \in Nat
  BY <1>3, LicenseAssumption DEF IndInv, TypeOK, LicenseType
<1> QED BY <1>a, <1>3, <1>4, <1>5

\* AdmissionHolds for any number of requests: what is committed (a device, a
\* camera, a licence) is committed under what is current at the commit.
THEOREM AdmissionHoldsAlways == Spec => AdmissionHolds
<1>1. IndInv /\ [Next]_vars => [QuotaHolds /\ VideoUnderLicense /\ ImportByCurrentAdmin]_vars
  <2> SUFFICES ASSUME IndInv, [Next]_vars
               PROVE  QuotaHolds /\ VideoUnderLicense /\ ImportByCurrentAdmin
    OBVIOUS
  <2>1. QuotaHolds
    BY AdmitsKnows DEF QuotaHolds
  <2>2. VideoUnderLicense
    <3> SUFFICES ASSUME ~cam, cam' PROVE lic # None /\ Verify(lic) /\ lic.feature /\ ~latched
      BY DEF VideoUnderLicense
    <3>1. PICK r \in Requests : WriteCamera(r)
      BY DEF Next, Request, Start, ObserveFirst, ObserveAgain, CheckActor, lockLicenseState, Refuse,
             checkDeviceAdmission, RestoreNothing, RegisterDevice, RestoreDevice, Rollback,
             CheckImport, ImportLicenseRaw, LicenseSnapshot, ObserveLicenseClock,
             ReconcileLicenseClock, DisableCamera, DisableDevice, Tick, SetBack, ChangePassword, vars
    <3> QED BY <3>1 DEF WriteCamera, IndInv, CameraInv
  <2>3. ImportByCurrentAdmin
    <3> SUFFICES ASSUME NEW r \in Requests, lic' # lic, req[r].at = "checked", req'[r] = Idle
                 PROVE  req[r].op = "import" /\ req[r].ver = version
      BY DEF ImportByCurrentAdmin
    <3>1. PICK s \in Requests : ImportLicenseRaw(s)
      BY DEF Next, Request, Start, ObserveFirst, ObserveAgain, CheckActor, lockLicenseState, Refuse,
             checkDeviceAdmission, RestoreNothing, RegisterDevice, RestoreDevice, Rollback,
             CheckImport, LicenseSnapshot, WriteCamera, ObserveLicenseClock,
             ReconcileLicenseClock, DisableCamera, DisableDevice, Tick, SetBack, ChangePassword, vars
    <3>2. r = s
      BY <3>1 DEF ImportLicenseRaw, End, Idle, IndInv, ReqType
    <3> QED BY <3>1, <3>2 DEF ImportLicenseRaw, IndInv, ActorInv, SharesActor
  <2> QED BY <2>1, <2>2, <2>3
<1> QED BY <1>1, Inductive, PTL DEF Spec, AdmissionHolds

\* ClockHolds for any clock: setting it back revives no licence, lowers no mark
\* and lifts no latch.
THEOREM ClockHoldsAlways == Spec => ClockHolds
<1>1. IndInv /\ [Next]_vars => [ClockNotRewound /\ LatchIsDurable]_vars
  <2> SUFFICES ASSUME IndInv, [Next]_vars, ~UNCHANGED vars
               PROVE  ClockNotRewound /\ LatchIsDurable
    OBVIOUS
  <2>1. ClockNotRewound
    BY AdmitsKnows DEF ClockNotRewound
  <2>2. LatchIsDurable
    <3> USE LicenseAssumption DEF IndInv, TypeOK, LatchIsDurable
    <3>1. CASE Observed
      BY <3>1 DEF Observed, ClockRefused
    <3>2. CASE ReconcileLicenseClock
      BY <3>2 DEF ReconcileLicenseClock
    <3>3. CASE UNCHANGED <<maxSeen, latched>>
      BY <3>3
    <3> QED
      BY <3>1, <3>2, <3>3
      DEF Next, Request, Start, ObserveFirst, ObserveAgain, CheckActor, lockLicenseState, Refuse,
          checkDeviceAdmission, RestoreNothing, RegisterDevice, RestoreDevice, Rollback, CheckImport,
          ImportLicenseRaw, LicenseSnapshot, WriteCamera, ObserveLicenseClock, DisableCamera,
          DisableDevice, Tick, SetBack, ChangePassword
  <2> QED BY <2>1, <2>2
<1> QED BY <1>1, Inductive, PTL DEF Spec, ClockHolds
=============================================================================
