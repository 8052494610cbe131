------------------------- MODULE DeviceSessionProofs -------------------------
(***************************************************************************)
(* Proofs about DeviceSession for any devices, connections and bounds.     *)
(* The inductive invariant adds to the properties what a connection knows  *)
(* at each point of its life, who holds the mutex of a session, and that a *)
(* session's revision is never ahead of the device's.                      *)
(***************************************************************************)
EXTENDS DeviceSession, FiniteSetTheorems, TLAPS

\* What the fields of a connection say about where it is.
ConnInv == \A c \in Clients :
    /\ conns[c].pc # "free" => conns[c].dev \in Devices
    /\ conns[c].mapped => conns[c].pc \in {"established", "up", "report"}
    /\ conns[c].pc \in {"established", "report"} => conns[c].mapped
    /\ conns[c].taken => conns[c].closing = "closed"

\* The mutex is held by the connection that is going online, which is the client of
\* the session and remembers the only other one that is not on its way out.
LockInv ==
    /\ \A d \in Devices, c \in Clients :
          lock[d] = c <=> conns[c].pc = "established" /\ conns[c].dev = d
    /\ \A c \in Clients : conns[c].pc = "established" =>
          /\ sessions[conns[c].dev].client = c
          /\ \A u \in Clients \ {c} :
                /\ conns[u].mapped
                /\ conns[u].dev = conns[c].dev
                /\ conns[u].closing = "no"
                => u = conns[c].old

RevisionInv == \A d \in Devices : sessions[d].revision <= rows[d].revision

IndInv == TypeOK /\ ConnInv /\ LockInv /\ RevisionInv
          /\ OnlineIsWatched /\ SingleSession /\ GaugeNeverLow

-----------------------------------------------------------------------------
\* The initial state satisfies the inductive invariant.
LEMMA InitInd == Init => IndInv
<1> SUFFICES ASSUME Init PROVE IndInv
  OBVIOUS
<1>1. TypeOK
  BY DeviceAssumption DEF Init, TypeOK, Times, NewSession, Free, DeviceRow, SessionState, ConnState
<1>2. ConnInv /\ LockInv /\ SingleSession
  BY DeviceAssumption DEF Init, ConnInv, LockInv, SingleSession, Free, Unlocked
<1>3. RevisionInv /\ OnlineIsWatched
  BY DEF Init, RevisionInv, OnlineIsWatched, NewSession
<1>4. GaugeNeverLow
  <2>1. {d \in Devices : rows[d].online} = {}
    BY DEF Init
  <2>2. Cardinality({d \in Devices : rows[d].online}) = 0
    BY <2>1, FS_EmptySet
  <2> QED BY <2>2 DEF Init, GaugeNeverLow
<1> QED BY <1>1, <1>2, <1>3, <1>4 DEF IndInv

\* A transition touches the row and the session of one device; of the session it
\* changes nothing but online, of the row nothing but the status.
LEMMA TransitionFrame ==
    ASSUME TypeOK, NEW d \in Devices, NEW s \in SessionState, NEW on \in BOOLEAN,
           transition(d, s, on)
    PROVE  /\ sessions' \in [Devices -> SessionState]
           /\ \A e \in Devices \ {d} : sessions'[e] = sessions[e] /\ rows'[e] = rows[e]
           /\ sessions'[d].client = s.client
           /\ sessions'[d].revision = s.revision
           /\ sessions'[d].lastSeen = s.lastSeen
           /\ rows' \in [Devices -> DeviceRow]
           /\ rows'[d].enabled = rows[d].enabled
           /\ rows'[d].revision = rows[d].revision
           /\ gauge' \in Int
           /\ faults' \in 0..MaxFaults
           /\ unknowns' \in 0..MaxUnknown
           /\ unknowns <= unknowns'
<1>1. s.online \in BOOLEAN /\ s.client \in Clients \cup {None}
  BY DEF SessionState
<1>2. GaugeStep(d, on) \in Int
  BY DEF GaugeStep
<1>3. CASE Skips(s, on)
  BY <1>3 DEF transition, TypeOK
<1>4. CASE ~Skips(s, on)
  <2>1. [s EXCEPT !.online = on] \in SessionState
    BY DEF SessionState
  <2>2. [rows[d] EXCEPT !.online = on] \in DeviceRow
    BY DEF TypeOK, DeviceRow
  <2>3. PICK t \in {s, [s EXCEPT !.online = on]} : sessions' = [sessions EXCEPT ![d] = t]
    BY <1>4 DEF transition, Persist
  <2>4. PICK q \in {rows[d], [rows[d] EXCEPT !.online = on]} : rows' = [rows EXCEPT ![d] = q]
    BY <1>4 DEF transition, Persist, TypeOK
  <2>5. /\ sessions' \in [Devices -> SessionState]
        /\ \A e \in Devices \ {d} : sessions'[e] = sessions[e]
        /\ sessions'[d].client = s.client
        /\ sessions'[d].revision = s.revision
        /\ sessions'[d].lastSeen = s.lastSeen
    BY <2>1, <2>3 DEF TypeOK, SessionState
  <2>6. /\ rows' \in [Devices -> DeviceRow]
        /\ \A e \in Devices \ {d} : rows'[e] = rows[e]
        /\ rows'[d].enabled = rows[d].enabled
        /\ rows'[d].revision = rows[d].revision
    BY <2>2, <2>4 DEF TypeOK, DeviceRow
  <2>7. gauge' \in Int /\ faults' \in 0..MaxFaults /\ unknowns' \in 0..MaxUnknown /\ unknowns <= unknowns'
    BY <1>2, <1>4, DeviceAssumption DEF transition, Persist, TypeOK
  <2> QED BY <2>5, <2>6, <2>7
<1> QED BY <1>3, <1>4

\* If the session was online whenever the row was, it is so after a transition.
LEMMA TransitionWatched ==
    ASSUME TypeOK, OnlineIsWatched, NEW d \in Devices, NEW s \in SessionState,
           NEW on \in BOOLEAN, transition(d, s, on), s.online = sessions[d].online
    PROVE  OnlineIsWatched'
<1>1. CASE Skips(s, on)
  BY <1>1 DEF transition, TypeOK, OnlineIsWatched
<1>2. CASE ~Skips(s, on)
  BY <1>2 DEF transition, Persist, TypeOK, OnlineIsWatched, SessionState, DeviceRow
<1> QED BY <1>1, <1>2

\* The gauge moves with the set of online devices.
LEMMA TransitionGauge ==
    ASSUME TypeOK, GaugeNeverLow, NEW d \in Devices, NEW s, NEW on \in BOOLEAN,
           transition(d, s, on)
    PROVE  GaugeNeverLow'
<1> DEFINE Now == {e \in Devices : rows[e].online}
           Then == {e \in Devices : rows'[e].online}
<1>1. IsFiniteSet(Now) /\ Cardinality(Now) \in Nat
  BY DeviceAssumption, FS_Subset, FS_CardinalityType
<1>2. CASE rows' = rows /\ gauge' = gauge /\ unknowns' = unknowns
  BY <1>2 DEF GaugeNeverLow
<1>3. ASSUME rows' = [rows EXCEPT ![d].online = on]
      PROVE  /\ Cardinality(Then) = Cardinality(Now) + GaugeStep(d, on)
             /\ GaugeStep(d, on) \in {-1, 0, 1}
  <2>1. Then = IF on THEN Now \cup {d} ELSE Now \ {d}
    BY <1>3 DEF TypeOK, DeviceRow
  <2>2. Cardinality(Then) = Cardinality(Now) + GaugeStep(d, on)
    <3>1. (d \in Now <=> rows[d].online) /\ rows[d].online \in BOOLEAN
      BY DEF TypeOK, DeviceRow
    <3>2. CASE on
      <4>1. Cardinality(Then) = IF d \in Now THEN Cardinality(Now) ELSE Cardinality(Now) + 1
        BY <1>1, <2>1, <3>2, FS_AddElement
      <4>2. GaugeStep(d, on) = IF rows[d].online THEN 0 ELSE 1
        BY <3>1, <3>2 DEF GaugeStep
      <4> QED BY <1>1, <3>1, <4>1, <4>2
    <3>3. CASE ~on
      <4>1. Cardinality(Then) = IF d \in Now THEN Cardinality(Now) - 1 ELSE Cardinality(Now)
        BY <1>1, <2>1, <3>3, FS_RemoveElement
      <4>2. GaugeStep(d, on) = IF rows[d].online THEN -1 ELSE 0
        BY <3>1, <3>3 DEF GaugeStep
      <4> QED BY <1>1, <3>1, <4>1, <4>2
    <3> QED BY <3>2, <3>3
  <2> QED BY <2>2 DEF GaugeStep
<1>4. CASE /\ rows' = [rows EXCEPT ![d].online = on]
           /\ \/ gauge' = gauge + GaugeStep(d, on) /\ unknowns' = unknowns
              \/ gauge' = gauge /\ unknowns' = unknowns + 1
  BY <1>1, <1>3, <1>4 DEF GaugeNeverLow, TypeOK
<1> QED BY <1>2, <1>4 DEF transition, Persist, TypeOK

-----------------------------------------------------------------------------
\* The sessions that transition is called with are sessions.
LEMMA SessionArguments ==
    ASSUME TypeOK, NEW d \in Devices
    PROVE  /\ sessions[d] \in SessionState
           /\ [sessions[d] EXCEPT !.client = None] \in SessionState
           /\ \A c \in Clients : [sessions[d] EXCEPT !.lastSeen = conns[c].ts] \in SessionState
  BY DEF TypeOK, SessionState, ConnState

\* Every step keeps the types.
LEMMA TypeStep == IndInv /\ [Next]_vars => TypeOK'
<1> SUFFICES ASSUME IndInv, [Next]_vars PROVE TypeOK'
  OBVIOUS
<1> USE DeviceAssumption DEF IndInv
<1>1. ASSUME NEW c \in Clients, NEW d \in Devices, NEW v \in Clients \cup {None}, Accept(c, d, v)
      PROVE  TypeOK'
  <2>1. [Free EXCEPT !.pc = "accepted", !.dev = d] \in ConnState
    <3>1. Free \in ConnState
      BY DEF Free, ConnState, Times
    <3> QED BY <3>1 DEF ConnState
  <2>2. \A u \in Clients : [conns[u] EXCEPT !.taken = TRUE, !.closing = "closed"] \in ConnState
    BY DEF TypeOK, ConnState
  <2>3. conns' \in [Clients -> ConnState]
    BY <1>1, <2>1, <2>2 DEF Accept, TypeOK
  <2> QED BY <1>1, <2>3 DEF Accept, TypeOK
<1>2. ASSUME NEW c \in Clients, NEW ok \in BOOLEAN, Resolve(c, ok) PROVE TypeOK'
  BY <1>2 DEF Resolve, TypeOK, ConnState, Retired
<1>3. ASSUME NEW c \in Clients, Establish(c) PROVE TypeOK'
  <2>1. conns[c].dev \in Devices
    BY <1>3 DEF Establish, ConnInv
  <2>2. Established(c) \in SessionState
    <3>1. sessions[conns[c].dev] \in SessionState /\ rows[conns[c].dev].revision \in 0..MaxRevision
      BY <2>1 DEF TypeOK, DeviceRow
    <3>2. clock \in Times
      BY DEF TypeOK
    <3> QED BY <3>1, <3>2 DEF Established, SessionState
  <2>3. sessions[conns[c].dev].client \in Clients \cup {None}
    BY <2>1 DEF TypeOK, SessionState
  <2>4. conns' \in [Clients -> ConnState]
    BY <1>3, <2>3 DEF Establish, TypeOK, ConnState
  <2>5. lock' \in [Devices -> Clients \cup {None}] /\ sessions' \in [Devices -> SessionState]
    BY <1>3, <2>1, <2>2 DEF Establish, TypeOK
  <2> QED BY <1>3, <2>4, <2>5 DEF Establish, TypeOK
<1>4. ASSUME NEW c \in Clients, EstablishNothing(c) PROVE TypeOK'
  BY <1>4 DEF EstablishNothing, TypeOK, ConnState
<1>5. ASSUME NEW c \in Clients, GoOnline(c) PROVE TypeOK'
  <2>1. conns[c].dev \in Devices
    BY <1>5 DEF GoOnline, ConnInv
  <2>2. conns' \in [Clients -> ConnState]
    <3>1. \A u \in Clients : Retired(conns[u]) \in ConnState
      BY DEF Retired, TypeOK, ConnState
    <3>2. [conns[c] EXCEPT !.pc = "up", !.old = None] \in ConnState
      BY DEF TypeOK, ConnState
    <3> QED BY <1>5, <3>1, <3>2 DEF GoOnline, AfterGoOnline, TypeOK
  <2>3. transition(conns[c].dev, sessions[conns[c].dev], TRUE)
    BY <1>5 DEF GoOnline
  <2>4. /\ sessions' \in [Devices -> SessionState] /\ rows' \in [Devices -> DeviceRow]
        /\ gauge' \in Int /\ faults' \in 0..MaxFaults /\ unknowns' \in 0..MaxUnknown
    BY <2>1, <2>3, TransitionFrame, SessionArguments
  <2>5. lock' \in [Devices -> Clients \cup {None}]
    BY <1>5 DEF GoOnline, TypeOK
  <2> QED BY <1>5, <2>2, <2>4, <2>5 DEF GoOnline, TypeOK
<1>6. ASSUME NEW c \in Clients, Retire(c) \/ Drop(c) \/ NoReport(c) PROVE TypeOK'
  <2>1. conns' \in [Clients -> ConnState]
    BY <1>6 DEF Retire, Drop, NoReport, TypeOK, ConnState
  <2> QED BY <1>6, <2>1 DEF Retire, Drop, NoReport, TypeOK
<1>7. ASSUME NEW c \in Clients, Disconnect(c) PROVE TypeOK'
  <2>1. conns[c].dev \in Devices
    BY <1>7 DEF Disconnect, ConnInv
  <2>2. conns' \in [Clients -> ConnState]
    <3>1. [conns[c] EXCEPT !.pc = "free", !.mapped = FALSE] \in ConnState
      BY DEF TypeOK, ConnState
    <3> QED BY <1>7, <3>1 DEF Disconnect, TypeOK
  <2>3. CASE Ends(c)
    <3>1. transition(conns[c].dev, [sessions[conns[c].dev] EXCEPT !.client = None], FALSE)
      BY <1>7, <2>3 DEF Disconnect
    <3>2. /\ sessions' \in [Devices -> SessionState] /\ rows' \in [Devices -> DeviceRow]
          /\ gauge' \in Int /\ faults' \in 0..MaxFaults /\ unknowns' \in 0..MaxUnknown
      BY <2>1, <3>1, TransitionFrame, SessionArguments
    <3> QED BY <1>7, <2>2, <3>2 DEF Disconnect, TypeOK
  <2>4. CASE ~Ends(c)
    BY <1>7, <2>2, <2>4 DEF Disconnect, TypeOK
  <2> QED BY <2>3, <2>4
<1>8. ASSUME NEW c \in Clients, Publish(c) PROVE TypeOK'
  <2>1. conns' \in [Clients -> ConnState]
    <3>1. [conns[c] EXCEPT !.pc = "report", !.ts = clock] \in ConnState
      BY DEF TypeOK, ConnState
    <3> QED BY <1>8, <3>1 DEF Publish, TypeOK
  <2> QED BY <1>8, <2>1 DEF Publish, TypeOK
<1>9. ASSUME NEW c \in Clients, Report(c) PROVE TypeOK'
  <2>1. conns[c].dev \in Devices
    BY <1>9 DEF Report, ConnInv
  <2>2. conns' \in [Clients -> ConnState]
    BY <1>9 DEF Report, TypeOK, ConnState
  <2>3. CASE sessions[conns[c].dev].client # None
    <3>1. transition(conns[c].dev, [sessions[conns[c].dev] EXCEPT !.lastSeen = conns[c].ts], TRUE)
      BY <1>9, <2>3 DEF Report
    <3>2. /\ sessions' \in [Devices -> SessionState] /\ rows' \in [Devices -> DeviceRow]
          /\ gauge' \in Int /\ faults' \in 0..MaxFaults /\ unknowns' \in 0..MaxUnknown
      BY <2>1, <3>1, TransitionFrame, SessionArguments
    <3> QED BY <1>9, <2>2, <3>2 DEF Report, TypeOK
  <2>4. CASE sessions[conns[c].dev].client = None
    BY <1>9, <2>2, <2>4 DEF Report, TypeOK
  <2> QED BY <2>3, <2>4
<1>10. ASSUME NEW d \in Devices, Sweep(d) PROVE TypeOK'
  BY <1>10 DEF Sweep, TypeOK
<1>11. ASSUME NEW d \in Devices, Check(d) PROVE TypeOK'
  <2>1. checks' \in [Devices -> Times \cup {None}]
    BY <1>11 DEF Check, TypeOK
  <2>2. CASE StillExpired(d)
    <3>1. transition(d, sessions[d], FALSE)
      BY <1>11, <2>2 DEF Check
    <3>2. /\ sessions' \in [Devices -> SessionState] /\ rows' \in [Devices -> DeviceRow]
          /\ gauge' \in Int /\ faults' \in 0..MaxFaults /\ unknowns' \in 0..MaxUnknown
      BY <3>1, TransitionFrame, SessionArguments
    <3> QED BY <1>11, <2>1, <3>2 DEF Check, TypeOK
  <2>3. CASE ~StillExpired(d)
    BY <1>11, <2>1, <2>3 DEF Check, TypeOK
  <2> QED BY <2>2, <2>3
<1>12. ASSUME NEW d \in Devices, DeleteDevice(d) \/ MoveDevice(d) \/ RestoreDevice(d)
       PROVE  TypeOK'
  <2>1. PICK on \in BOOLEAN : Revoke(d, on)
    BY <1>12 DEF DeleteDevice, MoveDevice, RestoreDevice
  <2>2. rows' \in [Devices -> DeviceRow]
    BY <2>1 DEF Revoke, TypeOK, DeviceRow
  <2> QED BY <2>1, <2>2 DEF Revoke, TypeOK
<1>13. CASE SetTenantActive \/ Tick
  <2>1. tenant' \in BOOLEAN /\ clock' \in Times
    <3>1. CASE SetTenantActive
      BY <3>1, Zenon DEF SetTenantActive, TypeOK
    <3>2. CASE Tick
      BY <3>2 DEF Tick, TypeOK, Times
    <3> QED BY <1>13, <3>1, <3>2
  <2> QED BY <1>13, <2>1 DEF SetTenantActive, Tick, TypeOK
<1>14. CASE Restart
  <2>1. NewSession \in SessionState /\ Free \in ConnState
    BY DEF NewSession, SessionState, Free, ConnState, Times
  <2>2. rows' \in [Devices -> DeviceRow]
    BY <1>14 DEF Restart, RestartedRows, TypeOK, DeviceRow
  <2> QED BY <1>14, <2>1, <2>2 DEF Restart, TypeOK
<1>15. CASE UNCHANGED vars
  BY <1>15 DEF vars, TypeOK
<1> QED BY <1>1, <1>2, <1>3, <1>4, <1>5, <1>6, <1>7, <1>8, <1>9, <1>10, <1>11, <1>12,
           <1>13, <1>14, <1>15 DEF Next, Connection

-----------------------------------------------------------------------------
Struct == ConnInv /\ LockInv /\ SingleSession

\* A step that changes nothing these three look at keeps them: it may end a
\* connection's life further, never begin it again.
LEMMA StructFrame ==
    ASSUME Struct, TypeOK, UNCHANGED lock,
           conns' \in [Clients -> ConnState],
           \A d \in Devices : sessions'[d].client = sessions[d].client,
           \A c \in Clients : /\ conns'[c].dev = conns[c].dev
                              /\ conns'[c].mapped = conns[c].mapped
                              /\ conns'[c].old = conns[c].old
                              /\ conns'[c].taken = conns[c].taken
                              /\ \/ conns'[c].closing = conns[c].closing
                                 \/ conns'[c].closing = "closed"
                              /\ \/ conns'[c].pc = conns[c].pc
                                 \/ /\ conns[c].pc \in {"up", "report"}
                                    /\ conns'[c].pc = "up"
                                 \/ /\ conns[c].pc = "up" /\ conns[c].mapped
                                    /\ conns'[c].pc = "report"
    PROVE  Struct'
<1>1. ConnInv'
  BY DEF Struct, ConnInv
<1>2. LockInv'
  BY DEF Struct, LockInv, ConnInv
<1>3. SingleSession'
  BY DEF Struct, SingleSession, ConnInv, Unlocked
<1> QED BY <1>1, <1>2, <1>3 DEF Struct

\* Every step keeps the structure of connections, mutexes and sessions.
LEMMA StructStep == IndInv /\ [Next]_vars => Struct'
<1> SUFFICES ASSUME IndInv, [Next]_vars PROVE Struct'
  OBVIOUS
<1> USE DeviceAssumption
<1>0. Struct /\ TypeOK /\ TypeOK'
  BY TypeStep DEF IndInv, Struct
<1>1. ASSUME NEW c \in Clients, NEW d \in Devices, NEW v \in Clients \cup {None}, Accept(c, d, v)
      PROVE  Struct'
  <2>1. /\ conns'[c] = [Free EXCEPT !.pc = "accepted", !.dev = d]
        /\ \A u \in Clients \ {c} : \/ conns'[u] = conns[u]
                                     \/ conns'[u] = [conns[u] EXCEPT !.taken = TRUE, !.closing = "closed"]
    BY <1>1 DEF Accept
  <2>2. /\ conns'[c].pc = "accepted" /\ conns'[c].dev = d
        /\ ~conns'[c].mapped /\ ~conns'[c].taken
    BY <2>1 DEF Free
  <2>3. \A u \in Clients \ {c} : /\ conns'[u].pc = conns[u].pc
                                  /\ conns'[u].dev = conns[u].dev
                                  /\ conns'[u].mapped = conns[u].mapped
                                  /\ conns'[u].old = conns[u].old
                                  /\ \/ conns'[u].closing = conns[u].closing
                                        /\ conns'[u].taken = conns[u].taken
                                     \/ conns'[u].closing = "closed"
    <3> SUFFICES ASSUME NEW u \in Clients \ {c}
                 PROVE  /\ conns'[u].pc = conns[u].pc
                        /\ conns'[u].dev = conns[u].dev
                        /\ conns'[u].mapped = conns[u].mapped
                        /\ conns'[u].old = conns[u].old
                        /\ \/ conns'[u].closing = conns[u].closing
                              /\ conns'[u].taken = conns[u].taken
                           \/ conns'[u].closing = "closed"
      OBVIOUS
    <3>1. conns[u] \in ConnState
      BY <1>0 DEF TypeOK
    <3>2. CASE conns'[u] = conns[u]
      BY <3>2
    <3>3. CASE conns'[u] = [conns[u] EXCEPT !.taken = TRUE, !.closing = "closed"]
      BY <3>1, <3>3 DEF ConnState
    <3> QED BY <2>1, <3>2, <3>3
  <2>4. UNCHANGED <<sessions, lock>> /\ conns[c].pc = "free"
    BY <1>1 DEF Accept
  <2>5. ConnInv'
    BY <1>0, <2>2, <2>3 DEF Struct, ConnInv
  <2>6. LockInv'
    BY <1>0, <2>2, <2>3, <2>4 DEF Struct, LockInv
  <2>7. SingleSession'
    BY <1>0, <2>2, <2>3, <2>4 DEF Struct, SingleSession, Unlocked
  <2> QED BY <2>5, <2>6, <2>7 DEF Struct
<1>2. ASSUME NEW c \in Clients, Resolve(c, TRUE) \/ Resolve(c, FALSE) \/ EstablishNothing(c)
      PROVE  Struct'
  <2>1. conns[c].pc \in {"accepted", "resolved"} /\ UNCHANGED <<sessions, lock>>
    BY <1>2 DEF Resolve, EstablishNothing
  <2>2. /\ \A u \in Clients \ {c} : conns'[u] = conns[u]
        /\ conns'[c].pc \in {"resolved", "up"}
        /\ conns'[c].dev = conns[c].dev
        /\ conns'[c].mapped = conns[c].mapped
        /\ conns'[c].taken = conns[c].taken
        /\ conns'[c].closing = conns[c].closing \/ conns[c].closing = "no"
    BY <1>0, <1>2 DEF Resolve, EstablishNothing, Retired, TypeOK, ConnState
  <2>3. ~conns[c].mapped
    BY <1>0, <2>1 DEF Struct, ConnInv
  <2>4. ConnInv'
    BY <1>0, <2>1, <2>2, <2>3 DEF Struct, ConnInv
  <2>5. LockInv'
    BY <1>0, <2>1, <2>2, <2>3 DEF Struct, LockInv
  <2>6. SingleSession'
    BY <1>0, <2>1, <2>2, <2>3 DEF Struct, SingleSession, Unlocked
  <2> QED BY <2>4, <2>5, <2>6 DEF Struct
<1>3. ASSUME NEW c \in Clients, Establish(c) PROVE Struct'
  <2> DEFINE d == conns[c].dev
  <2>1. d \in Devices /\ conns[c].pc = "resolved" /\ ~conns[c].mapped /\ lock[d] = None
    BY <1>0, <1>3 DEF Establish, Struct, ConnInv, Unlocked
  <2>2. CASE conns[c].taken
    <3>1. /\ UNCHANGED lock
          /\ \A e \in Devices : sessions'[e] = sessions[e]
          /\ \A u \in Clients \ {c} : conns'[u] = conns[u]
          /\ conns'[c].pc = "up" /\ conns'[c].dev = d /\ ~conns'[c].mapped
          /\ conns'[c].taken /\ conns'[c].closing = conns[c].closing
      BY <1>0, <1>3, <2>1, <2>2 DEF Establish, Established, TypeOK, ConnState
    <3>2. ConnInv'
      BY <1>0, <2>1, <2>2, <3>1 DEF Struct, ConnInv
    <3>3. LockInv'
      BY <1>0, <2>1, <3>1 DEF Struct, ConnInv, LockInv
    <3>4. SingleSession'
      BY <1>0, <2>1, <3>1 DEF Struct, ConnInv, SingleSession, Unlocked
    <3> QED BY <3>2, <3>3, <3>4 DEF Struct
  <2>3. CASE ~conns[c].taken
    <3>1. /\ lock' = [lock EXCEPT ![d] = c]
          /\ sessions'[d].client = c
          /\ \A e \in Devices \ {d} : sessions'[e] = sessions[e]
          /\ \A u \in Clients \ {c} : conns'[u] = conns[u]
          /\ conns'[c].pc = "established" /\ conns'[c].dev = d /\ conns'[c].mapped
          /\ conns'[c].old = sessions[d].client
          /\ conns'[c].taken = conns[c].taken /\ conns'[c].closing = conns[c].closing
      BY <1>0, <1>3, <2>1, <2>3 DEF Establish, Established, TypeOK, ConnState, SessionState
    <3>2. \A u \in Clients : ~(conns[u].pc = "established" /\ conns[u].dev = d)
      BY <1>0, <2>1 DEF Struct, LockInv
    <3>3. ConnInv'
      BY <1>0, <2>1, <2>3, <3>1 DEF Struct, ConnInv
    <3>4. \A u \in Clients \ {c} : conns[u].mapped /\ conns[u].dev = d /\ conns[u].closing = "no"
                                     => u = sessions[d].client
      BY <1>0, <2>1 DEF Struct, SingleSession, Unlocked
    <3>5. LockInv'
      <4>1. \A e \in Devices, u \in Clients :
               lock'[e] = u <=> conns'[u].pc = "established" /\ conns'[u].dev = e
        BY <1>0, <2>1, <3>1, <3>2 DEF Struct, LockInv, TypeOK
      <4>2. ASSUME NEW x \in Clients, conns'[x].pc = "established"
            PROVE  /\ sessions'[conns'[x].dev].client = x
                   /\ \A u \in Clients \ {x} :
                         conns'[u].mapped /\ conns'[u].dev = conns'[x].dev /\ conns'[u].closing = "no"
                           => u = conns'[x].old
        <5>1. CASE x = c
          BY <3>1, <3>4, <5>1
        <5>2. CASE x # c
          BY <1>0, <2>1, <3>1, <3>2, <4>2, <5>2 DEF Struct, LockInv, ConnInv
        <5> QED BY <5>1, <5>2
      <4> QED BY <4>1, <4>2 DEF LockInv
    <3>6. SingleSession'
      <4> SUFFICES ASSUME NEW u \in Clients, conns'[u].mapped, lock'[conns'[u].dev] = None,
                          sessions'[conns'[u].dev].client # u
                   PROVE  conns'[u].closing # "no"
        BY DEF SingleSession, Unlocked
      <4>1. u # c /\ conns'[u] = conns[u] /\ conns[u].dev \in Devices /\ conns[u].dev # d
        BY <1>0, <2>1, <3>1 DEF Struct, ConnInv, TypeOK
      <4> QED BY <1>0, <3>1, <4>1 DEF Struct, SingleSession, Unlocked, TypeOK
    <3> QED BY <3>3, <3>5, <3>6 DEF Struct
  <2> QED BY <2>2, <2>3
<1>4. ASSUME NEW c \in Clients, GoOnline(c) PROVE Struct'
  <2> DEFINE d == conns[c].dev
  <2>1. d \in Devices /\ conns[c].pc = "established" /\ conns[c].mapped
    BY <1>0, <1>4 DEF GoOnline, Struct, ConnInv
  <2>2. \A e \in Devices : sessions'[e].client = sessions[e].client
    <3>1. transition(d, sessions[d], TRUE)
      BY <1>4 DEF GoOnline
    <3>2. sessions[d] \in SessionState
      BY <1>0, <2>1, SessionArguments
    <3>3. /\ sessions'[d].client = sessions[d].client
          /\ \A e \in Devices \ {d} : sessions'[e] = sessions[e]
      BY <1>0, <2>1, <3>1, <3>2, TransitionFrame
    <3> QED BY <3>3
  <2>3. /\ lock' = [lock EXCEPT ![d] = None]
        /\ conns'[c].pc = "up" /\ conns'[c].dev = d /\ conns'[c].mapped
        /\ conns'[c].taken = conns[c].taken /\ conns'[c].closing = conns[c].closing
    <3>1. conns'[c] = [conns[c] EXCEPT !.pc = "up", !.old = None] /\ lock' = [lock EXCEPT ![d] = None]
      BY <1>4 DEF GoOnline, AfterGoOnline
    <3>2. conns[c] \in ConnState
      BY <1>0 DEF TypeOK
    <3> QED BY <2>1, <3>1, <3>2 DEF ConnState
  <2>4. \A u \in Clients \ {c} :
           /\ conns'[u].pc = conns[u].pc
           /\ conns'[u].dev = conns[u].dev
           /\ conns'[u].mapped = conns[u].mapped
           /\ conns'[u].old = conns[u].old
           /\ conns'[u].taken = conns[u].taken
           /\ conns[u].closing # "no" => conns'[u].closing = conns[u].closing
           /\ u = conns[c].old => conns[u].taken \/ conns'[u].closing # "no"
    BY <1>0, <1>4 DEF GoOnline, AfterGoOnline, Retired, TypeOK, ConnState
  <2>5. lock[d] = c /\ sessions[d].client = c
    BY <1>0, <2>1 DEF Struct, LockInv
  <2>6. \A u \in Clients \ {c} : ~(conns[u].pc = "established" /\ conns[u].dev = d)
    BY <1>0, <2>1, <2>5 DEF Struct, LockInv
  <2>7. \A u \in Clients \ {c} : conns[u].mapped /\ conns[u].dev = d => conns'[u].closing # "no"
    BY <1>0, <2>1, <2>4 DEF Struct, LockInv, ConnInv
  <2>8. \A u \in Clients \ {c} : conns[u].closing # "no" => conns'[u].closing # "no"
    BY <2>4
  <2>9. ConnInv'
    BY <1>0, <2>1, <2>3, <2>4 DEF Struct, ConnInv
  <2>10. LockInv'
    <3>1. \A e \in Devices, u \in Clients :
             lock'[e] = u <=> conns'[u].pc = "established" /\ conns'[u].dev = e
      BY <1>0, <2>1, <2>3, <2>4, <2>5, <2>6 DEF Struct, LockInv, TypeOK
    <3>2. ASSUME NEW x \in Clients, conns'[x].pc = "established"
          PROVE  /\ sessions'[conns'[x].dev].client = x
                 /\ \A u \in Clients \ {x} :
                       conns'[u].mapped /\ conns'[u].dev = conns'[x].dev /\ conns'[u].closing = "no"
                         => u = conns'[x].old
      <4>1. x # c /\ conns[x].pc = "established" /\ conns[x].dev \in Devices /\ conns[x].dev # d
        BY <1>0, <2>3, <2>4, <2>6, <3>2 DEF Struct, ConnInv
      <4> QED BY <1>0, <2>1, <2>2, <2>3, <2>4, <2>8, <4>1 DEF Struct, LockInv
    <3> QED BY <3>1, <3>2 DEF LockInv
  <2>11. SingleSession'
    <3> SUFFICES ASSUME NEW u \in Clients, conns'[u].mapped, lock'[conns'[u].dev] = None,
                        sessions'[conns'[u].dev].client # u
                 PROVE  conns'[u].closing # "no"
      BY DEF SingleSession, Unlocked
    <3>1. u # c /\ conns[u].mapped /\ conns'[u].dev = conns[u].dev /\ conns[u].dev \in Devices
      BY <1>0, <2>1, <2>2, <2>3, <2>4, <2>5 DEF Struct, ConnInv
    <3>2. CASE conns[u].dev = d
      BY <2>7, <3>1, <3>2
    <3>3. CASE conns[u].dev # d
      BY <1>0, <2>1, <2>2, <2>3, <2>8, <3>1, <3>3 DEF Struct, SingleSession, Unlocked, TypeOK
    <3> QED BY <3>2, <3>3
  <2> QED BY <2>9, <2>10, <2>11 DEF Struct
<1>5. ASSUME NEW c \in Clients, Retire(c) \/ Drop(c) \/ NoReport(c) \/ Publish(c) PROVE Struct'
  <2>1. /\ UNCHANGED <<lock, sessions>>
        /\ \A u \in Clients \ {c} : conns'[u] = conns[u]
        /\ conns'[c].dev = conns[c].dev
        /\ conns'[c].mapped = conns[c].mapped
        /\ conns'[c].old = conns[c].old
        /\ conns'[c].taken = conns[c].taken
        /\ conns'[c].closing = conns[c].closing \/ conns'[c].closing = "closed"
        /\ \/ conns'[c].pc = conns[c].pc
           \/ conns[c].pc \in {"up", "report"} /\ conns'[c].pc = "up"
           \/ conns[c].pc = "up" /\ conns[c].mapped /\ conns'[c].pc = "report"
    BY <1>0, <1>5 DEF Retire, Drop, NoReport, Publish, TypeOK, ConnState
  <2>2. conns' \in [Clients -> ConnState]
    BY <1>0 DEF TypeOK
  <2> QED BY <1>0, <2>1, <2>2, StructFrame
<1>6. ASSUME NEW c \in Clients, Report(c) PROVE Struct'
  <2>1. conns[c].dev \in Devices
    BY <1>0, <1>6 DEF Report, Struct, ConnInv
  <2>2. \A e \in Devices : sessions'[e].client = sessions[e].client
    <3>1. CASE sessions[conns[c].dev].client # None
      <4>1. transition(conns[c].dev, [sessions[conns[c].dev] EXCEPT !.lastSeen = conns[c].ts], TRUE)
        BY <1>6, <3>1 DEF Report
      <4>2. [sessions[conns[c].dev] EXCEPT !.lastSeen = conns[c].ts].client = sessions[conns[c].dev].client
        BY <1>0, <2>1 DEF TypeOK, SessionState
      <4>3. [sessions[conns[c].dev] EXCEPT !.lastSeen = conns[c].ts] \in SessionState
        BY <1>0, <2>1, SessionArguments
      <4>4. sessions'[conns[c].dev].client = [sessions[conns[c].dev] EXCEPT !.lastSeen = conns[c].ts].client
        BY <1>0, <2>1, <4>1, <4>3, TransitionFrame
      <4>5. \A e \in Devices \ {conns[c].dev} : sessions'[e] = sessions[e]
        BY <1>0, <2>1, <4>1, <4>3, TransitionFrame
      <4> QED BY <4>2, <4>4, <4>5
    <3>2. CASE sessions[conns[c].dev].client = None
      BY <1>6, <3>2 DEF Report
    <3> QED BY <3>1, <3>2
  <2>3. /\ UNCHANGED lock
        /\ \A u \in Clients \ {c} : conns'[u] = conns[u]
        /\ conns'[c].dev = conns[c].dev
        /\ conns'[c].mapped = conns[c].mapped
        /\ conns'[c].old = conns[c].old
        /\ conns'[c].taken = conns[c].taken
        /\ conns'[c].closing = conns[c].closing
        /\ conns[c].pc = "report" /\ conns'[c].pc = "up"
    BY <1>0, <1>6 DEF Report, TypeOK, ConnState
  <2>4. conns' \in [Clients -> ConnState]
    BY <1>0 DEF TypeOK
  <2> QED BY <1>0, <2>2, <2>3, <2>4, StructFrame
<1>7. ASSUME NEW c \in Clients, Disconnect(c) PROVE Struct'
  <2> DEFINE d == conns[c].dev
  <2>1. d \in Devices /\ conns[c].pc = "up" /\ (conns[c].mapped => lock[d] = None)
    BY <1>0, <1>7 DEF Disconnect, Struct, ConnInv, Unlocked
  <2>2. /\ \A u \in Clients \ {c} : conns'[u] = conns[u]
        /\ conns'[c].pc = "free" /\ ~conns'[c].mapped
        /\ conns'[c].dev = d
        /\ conns'[c].taken = conns[c].taken /\ conns'[c].closing = conns[c].closing
        /\ UNCHANGED lock
    BY <1>0, <1>7 DEF Disconnect, TypeOK, ConnState
  <2>3. /\ \A e \in Devices \ {d} : sessions'[e].client = sessions[e].client
        /\ \/ sessions'[d].client = sessions[d].client
           \/ sessions[d].client = c /\ conns[c].mapped
    <3>1. CASE Ends(c)
      BY <1>0, <1>7, <2>1, <3>1, TransitionFrame, SessionArguments DEF Disconnect, Ends
    <3>2. CASE ~Ends(c)
      BY <1>7, <3>2 DEF Disconnect
    <3> QED BY <3>1, <3>2
  <2>4. ConnInv'
    BY <1>0, <2>1, <2>2 DEF Struct, ConnInv
  <2>5. LockInv'
    <3>1. \A e \in Devices, u \in Clients :
             lock'[e] = u <=> conns'[u].pc = "established" /\ conns'[u].dev = e
      BY <1>0, <2>1, <2>2 DEF Struct, LockInv
    <3>2. ASSUME NEW x \in Clients, conns'[x].pc = "established"
          PROVE  /\ sessions'[conns'[x].dev].client = x
                 /\ \A u \in Clients \ {x} :
                       conns'[u].mapped /\ conns'[u].dev = conns'[x].dev /\ conns'[u].closing = "no"
                         => u = conns'[x].old
      <4>1. x # c /\ conns'[x] = conns[x] /\ conns[x].dev \in Devices
        BY <1>0, <2>2, <3>2 DEF Struct, ConnInv
      <4>2. sessions[conns[x].dev].client = x
        BY <1>0, <3>2, <4>1 DEF Struct, LockInv
      <4>3. sessions'[conns[x].dev].client = x
        BY <2>1, <2>3, <4>1, <4>2
      <4> QED BY <1>0, <2>2, <3>2, <4>1, <4>3 DEF Struct, LockInv
    <3> QED BY <3>1, <3>2 DEF LockInv
  <2>6. SingleSession'
    <3> SUFFICES ASSUME NEW u \in Clients, conns'[u].mapped, lock'[conns'[u].dev] = None,
                        sessions'[conns'[u].dev].client # u
                 PROVE  conns'[u].closing # "no"
      BY DEF SingleSession, Unlocked
    <3>1. u # c /\ conns'[u] = conns[u] /\ conns[u].dev \in Devices
      BY <1>0, <2>2 DEF Struct, ConnInv
    <3>2. sessions[conns[u].dev].client # u
      BY <2>3, <3>1
    <3> QED BY <1>0, <2>2, <3>1, <3>2 DEF Struct, SingleSession, Unlocked
  <2> QED BY <2>4, <2>5, <2>6 DEF Struct
<1>8. ASSUME NEW d \in Devices, Check(d) PROVE Struct'
  <2>1. \A e \in Devices : sessions'[e].client = sessions[e].client
    <3>1. CASE StillExpired(d)
      BY <1>0, <1>8, <3>1, TransitionFrame, SessionArguments DEF Check
    <3>2. CASE ~StillExpired(d)
      BY <1>8, <3>2 DEF Check
    <3> QED BY <3>1, <3>2
  <2>2. UNCHANGED <<conns, lock>>
    BY <1>8 DEF Check
  <2>3. conns' \in [Clients -> ConnState]
    BY <1>0 DEF TypeOK
  <2> QED BY <1>0, <2>1, <2>2, <2>3, StructFrame
<1>9. CASE UNCHANGED <<conns, sessions, lock>>
  BY <1>0, <1>9 DEF Struct, ConnInv, LockInv, SingleSession, Unlocked
<1>10. CASE Restart
  BY <1>10 DEF Restart, Struct, ConnInv, LockInv, SingleSession, Free, NewSession
<1>11. ASSUME \/ \E d \in Devices : \/ Sweep(d) \/ DeleteDevice(d) \/ MoveDevice(d)
                                      \/ RestoreDevice(d)
              \/ SetTenantActive \/ Tick \/ UNCHANGED vars
       PROVE  UNCHANGED <<conns, sessions, lock>>
  BY <1>11 DEF Sweep, DeleteDevice, MoveDevice, RestoreDevice, Revoke, SetTenantActive, Tick, vars
<1> QED BY <1>1, <1>2, <1>3, <1>4, <1>5, <1>6, <1>7, <1>8, <1>9, <1>10, <1>11 DEF Next, Connection

-----------------------------------------------------------------------------
\* How a step may change rows, sessions and the gauge: by one transition of a
\* session whose online flag the caller left alone, by connecting, by revoking, or
\* by starting again.
LEMMA StepKinds ==
    ASSUME IndInv, [Next]_vars
    PROVE  \/ UNCHANGED <<rows, sessions, gauge, unknowns>>
           \/ \E d \in Devices, s \in SessionState, on \in BOOLEAN :
                 /\ transition(d, s, on)
                 /\ s.online = sessions[d].online
                 /\ s.revision = sessions[d].revision
                 /\ s.client = sessions[d].client \/ (s.client = None /\ ~on)
           \/ \E c \in Clients : Establish(c)
           \/ \E d \in Devices, on \in BOOLEAN : Revoke(d, on)
           \/ Restart
<1>0. TypeOK /\ ConnInv
  BY DEF IndInv
<1>1. ASSUME NEW c \in Clients, GoOnline(c)
      PROVE  \E d \in Devices, s \in SessionState, on \in BOOLEAN :
                 /\ transition(d, s, on)
                 /\ s.online = sessions[d].online
                 /\ s.revision = sessions[d].revision
                 /\ s.client = sessions[d].client \/ (s.client = None /\ ~on)
  <2>1. conns[c].dev \in Devices
    BY <1>0, <1>1 DEF GoOnline, ConnInv
  <2>2. sessions[conns[c].dev] \in SessionState
    BY <1>0, <2>1, SessionArguments
  <2> QED BY <1>1, <2>1, <2>2 DEF GoOnline
<1>2. ASSUME NEW c \in Clients, Disconnect(c)
      PROVE  \/ UNCHANGED <<rows, sessions, gauge, unknowns>>
             \/ \E d \in Devices, s \in SessionState, on \in BOOLEAN :
                 /\ transition(d, s, on)
                 /\ s.online = sessions[d].online
                 /\ s.revision = sessions[d].revision
                 /\ s.client = sessions[d].client \/ (s.client = None /\ ~on)
  <2> DEFINE d == conns[c].dev
             s == [sessions[d] EXCEPT !.client = None]
  <2>1. d \in Devices
    BY <1>0, <1>2 DEF Disconnect, ConnInv
  <2>2. s \in SessionState
    BY <1>0, <2>1, SessionArguments
  <2>3. s.online = sessions[d].online /\ s.revision = sessions[d].revision /\ s.client = None
    BY <1>0, <2>1 DEF TypeOK, SessionState
  <2>4. CASE Ends(c)
    <3>1. transition(d, s, FALSE)
      BY <1>2, <2>4 DEF Disconnect
    <3> HIDE DEF s
    <3> QED BY <2>1, <2>2, <2>3, <3>1
  <2>5. CASE ~Ends(c)
    BY <1>2, <2>5 DEF Disconnect
  <2> QED BY <2>4, <2>5
<1>3. ASSUME NEW c \in Clients, Report(c)
      PROVE  \/ UNCHANGED <<rows, sessions, gauge, unknowns>>
             \/ \E d \in Devices, s \in SessionState, on \in BOOLEAN :
                 /\ transition(d, s, on)
                 /\ s.online = sessions[d].online
                 /\ s.revision = sessions[d].revision
                 /\ s.client = sessions[d].client \/ (s.client = None /\ ~on)
  <2> DEFINE d == conns[c].dev
             s == [sessions[d] EXCEPT !.lastSeen = conns[c].ts]
  <2>1. d \in Devices
    BY <1>0, <1>3 DEF Report, ConnInv
  <2>2. s \in SessionState
    BY <1>0, <2>1, SessionArguments
  <2>3. s.online = sessions[d].online /\ s.revision = sessions[d].revision /\ s.client = sessions[d].client
    BY <1>0, <2>1 DEF TypeOK, SessionState
  <2>4. CASE sessions[d].client # None
    <3>1. transition(d, s, TRUE)
      BY <1>3, <2>4 DEF Report
    <3> HIDE DEF s
    <3> QED BY <2>1, <2>2, <2>3, <3>1
  <2>5. CASE sessions[d].client = None
    BY <1>3, <2>5 DEF Report
  <2> QED BY <2>4, <2>5
<1>4. ASSUME NEW d \in Devices, Check(d)
      PROVE  \/ UNCHANGED <<rows, sessions, gauge, unknowns>>
             \/ \E e \in Devices, s \in SessionState, on \in BOOLEAN :
                 /\ transition(e, s, on)
                 /\ s.online = sessions[e].online
                 /\ s.revision = sessions[e].revision
                 /\ s.client = sessions[e].client \/ (s.client = None /\ ~on)
  <2>1. sessions[d] \in SessionState
    BY <1>0, SessionArguments
  <2> QED BY <1>4, <2>1 DEF Check
<1>5. ASSUME \/ \E c \in Clients : \/ Resolve(c, TRUE) \/ Resolve(c, FALSE) \/ EstablishNothing(c)
                                    \/ NoReport(c) \/ Publish(c) \/ Retire(c) \/ Drop(c)
             \/ \E c \in Clients, d \in Devices, v \in Clients \cup {None} : Accept(c, d, v)
             \/ \E d \in Devices : Sweep(d)
             \/ SetTenantActive \/ Tick \/ UNCHANGED vars
      PROVE  UNCHANGED <<rows, sessions, gauge, unknowns>>
  BY <1>5 DEF Resolve, EstablishNothing, NoReport, Publish, Retire, Drop, Accept, Sweep,
              SetTenantActive, Tick, vars
<1>6. ASSUME NEW d \in Devices, DeleteDevice(d) \/ MoveDevice(d) \/ RestoreDevice(d)
      PROVE  \E e \in Devices, on \in BOOLEAN : Revoke(e, on)
  BY <1>6 DEF DeleteDevice, MoveDevice, RestoreDevice
<1> QED BY <1>1, <1>2, <1>3, <1>4, <1>5, <1>6 DEF Next, Connection

\* Every step keeps what is said about rows, sessions and the gauge.
LEMMA StatusStep == IndInv /\ [Next]_vars => RevisionInv' /\ OnlineIsWatched' /\ GaugeNeverLow'
<1> SUFFICES ASSUME IndInv, [Next]_vars
             PROVE  RevisionInv' /\ OnlineIsWatched' /\ GaugeNeverLow'
  OBVIOUS
<1>0. TypeOK /\ ConnInv /\ RevisionInv /\ OnlineIsWatched /\ GaugeNeverLow
  BY DEF IndInv
<1>1. CASE UNCHANGED <<rows, sessions, gauge, unknowns>>
  BY <1>0, <1>1 DEF RevisionInv, OnlineIsWatched, GaugeNeverLow
<1>2. ASSUME NEW d \in Devices, NEW s \in SessionState, NEW on \in BOOLEAN, transition(d, s, on),
             s.online = sessions[d].online, s.revision = sessions[d].revision
      PROVE  RevisionInv' /\ OnlineIsWatched' /\ GaugeNeverLow'
  <2>1. RevisionInv'
    BY <1>0, <1>2, TransitionFrame DEF RevisionInv
  <2>2. OnlineIsWatched'
    BY <1>0, <1>2, TransitionWatched
  <2>3. GaugeNeverLow'
    BY <1>0, <1>2, TransitionGauge
  <2> QED BY <2>1, <2>2, <2>3
<1>3. ASSUME NEW c \in Clients, Establish(c)
      PROVE  RevisionInv' /\ OnlineIsWatched' /\ GaugeNeverLow'
  <2>1. conns[c].dev \in Devices
    BY <1>0, <1>3 DEF Establish, ConnInv
  <2>2. UNCHANGED <<rows, gauge, unknowns>>
    BY <1>3 DEF Establish
  <2>3. \A e \in Devices : /\ sessions'[e].online = sessions[e].online
                            /\ \/ sessions'[e].revision = sessions[e].revision
                               \/ sessions'[e].revision = rows[e].revision
    BY <1>0, <1>3, <2>1 DEF Establish, Established, TypeOK, SessionState
  <2>4. RevisionInv'
    BY <1>0, <2>2, <2>3 DEF RevisionInv, TypeOK, DeviceRow
  <2>5. OnlineIsWatched' /\ GaugeNeverLow'
    BY <1>0, <2>2, <2>3 DEF OnlineIsWatched, GaugeNeverLow
  <2> QED BY <2>4, <2>5
<1>4. ASSUME NEW d \in Devices, NEW on \in BOOLEAN, Revoke(d, on)
      PROVE  RevisionInv' /\ OnlineIsWatched' /\ GaugeNeverLow'
  <2>1. /\ UNCHANGED <<sessions, gauge, unknowns>>
        /\ rows'[d].revision = rows[d].revision + 1
        /\ ~rows'[d].online
        /\ \A e \in Devices \ {d} : rows'[e] = rows[e]
    BY <1>0, <1>4 DEF Revoke, TypeOK, DeviceRow
  <2>2. RevisionInv' /\ OnlineIsWatched'
    BY <1>0, <2>1 DEF RevisionInv, OnlineIsWatched, TypeOK, DeviceRow, SessionState
  <2>3. {e \in Devices : rows'[e].online} \subseteq {e \in Devices : rows[e].online}
    BY <2>1
  <2>4. IsFiniteSet({e \in Devices : rows[e].online})
    BY DeviceAssumption, FS_Subset
  <2>5. /\ Cardinality({e \in Devices : rows'[e].online}) <= Cardinality({e \in Devices : rows[e].online})
        /\ Cardinality({e \in Devices : rows'[e].online}) \in Nat
        /\ Cardinality({e \in Devices : rows[e].online}) \in Nat
    BY <2>3, <2>4, FS_Subset, FS_CardinalityType
  <2>6. GaugeNeverLow'
    BY <1>0, <2>1, <2>5 DEF GaugeNeverLow, TypeOK
  <2> QED BY <2>2, <2>6
<1>5. CASE Restart
  <2>0. \A e \in Devices : ~rows'[e].online /\ rows'[e].revision = rows[e].revision
    BY <1>0, <1>5 DEF Restart, RestartedRows, TypeOK, DeviceRow
  <2>a. \A e \in Devices : sessions'[e].revision = 0
    BY <1>5 DEF Restart, NewSession
  <2>b. \A e \in Devices : rows[e].revision \in Nat
    BY <1>0 DEF TypeOK, DeviceRow
  <2>c. RevisionInv'
    BY <2>0, <2>a, <2>b DEF RevisionInv
  <2>d. OnlineIsWatched'
    BY <2>0 DEF OnlineIsWatched
  <2>1. RevisionInv' /\ OnlineIsWatched'
    BY <2>c, <2>d
  <2>2. {e \in Devices : rows'[e].online} = {}
    BY <1>0, <1>5 DEF Restart, RestartedRows, TypeOK, DeviceRow
  <2>3. Cardinality({e \in Devices : rows'[e].online}) = 0
    BY <2>2, FS_EmptySet
  <2>4. gauge' = 0 /\ unknowns' \in Nat
    BY <1>0, <1>5, DeviceAssumption DEF Restart, TypeOK
  <2>e. \A n \in Nat : 0 <= 0 + n
    OBVIOUS
  <2>5. 0 <= gauge' + unknowns'
    BY <2>e, <2>4, Zenon
  <2>6. GaugeNeverLow'
    BY <2>3, <2>5, Zenon DEF GaugeNeverLow
  <2> QED BY <2>1, <2>6
<1> QED BY <1>1, <1>2, <1>3, <1>4, <1>5, StepKinds

-----------------------------------------------------------------------------
\* The inductive invariant holds in every reachable state: sessions, connections,
\* mutexes and device rows stay consistent for any number of devices and connections.
THEOREM Invariance == Spec => []IndInv
<1>1. IndInv /\ [Next]_vars => IndInv'
  BY TypeStep, StructStep, StatusStep DEF IndInv, Struct
<1> QED BY <1>1, InitInd, PTL DEF Spec

\* Every reachable state of the access module is well typed.
THEOREM TypeCorrect == Spec => []TypeOK
<1>1. IndInv => TypeOK
  BY DEF IndInv
<1> QED BY <1>1, Invariance, PTL

\* While no status transaction has committed and reported an error, a device stored
\* as online has an online session for the watchdog to end.
THEOREM OnlineDevicesAreWatched == Spec => []OnlineIsWatched
<1>1. IndInv => OnlineIsWatched
  BY DEF IndInv
<1> QED BY <1>1, Invariance, PTL

\* Of the connections of one device all but the session's own are on their way out.
THEOREM OneSessionPerDevice == Spec => []SingleSession
<1>1. IndInv => SingleSession
  BY DEF IndInv
<1> QED BY <1>1, Invariance, PTL

\* The exported gauge falls short of the devices stored as online by no more than
\* the status transactions that committed and reported an error.
THEOREM GaugeIsNeverLow == Spec => []GaugeNeverLow
<1>1. IndInv => GaugeNeverLow
  BY DEF IndInv
<1> QED BY <1>1, Invariance, PTL

-----------------------------------------------------------------------------
\* A connection that has a device keeps it until it is disconnected.
LEMMA DeviceKept ==
    ASSUME IndInv, [Next]_vars, NEW u \in Clients, conns[u].mapped, conns'[u].mapped
    PROVE  conns'[u].dev = conns[u].dev
<1>0. /\ conns \in [Clients -> ConnState]
      /\ conns[u].pc # "free"
  BY DEF IndInv, TypeOK, ConnInv
<1>1. ASSUME NEW c \in Clients, NEW d \in Devices, NEW v \in Clients \cup {None}, Accept(c, d, v)
      PROVE  conns'[u].dev = conns[u].dev
  BY <1>0, <1>1 DEF Accept, ConnState
<1>2. ASSUME NEW c \in Clients, Connection(c) \/ Publish(c) \/ Retire(c) \/ Drop(c)
      PROVE  conns'[u].dev = conns[u].dev
  <2>1. CASE GoOnline(c)
    BY <1>0, <2>1 DEF GoOnline, AfterGoOnline, Retired, ConnState
  <2>2. CASE Resolve(c, TRUE) \/ Resolve(c, FALSE)
    BY <1>0, <2>2 DEF Resolve, Retired, ConnState
  <2>3. CASE Establish(c) \/ EstablishNothing(c)
    BY <1>0, <2>3 DEF Establish, EstablishNothing, ConnState
  <2>4. CASE Report(c) \/ NoReport(c) \/ Disconnect(c)
    <3>1. \/ conns' = [conns EXCEPT ![c].pc = "up"]
          \/ conns' = [conns EXCEPT ![c].pc = "free", ![c].mapped = FALSE]
      BY <2>4 DEF Report, NoReport, Disconnect
    <3> QED BY <1>0, <3>1 DEF ConnState
  <2>5. CASE Publish(c) \/ Retire(c) \/ Drop(c)
    BY <1>0, <2>5 DEF Publish, Retire, Drop, ConnState
  <2> QED BY <1>2, <2>1, <2>2, <2>3, <2>4, <2>5 DEF Connection
<1>3. ASSUME NEW d \in Devices, Sweep(d) \/ Check(d)
      PROVE  conns'[u].dev = conns[u].dev
  BY <1>3 DEF Sweep, Check
<1>4. ASSUME NEW d \in Devices, DeleteDevice(d) \/ MoveDevice(d) \/ RestoreDevice(d)
      PROVE  conns'[u].dev = conns[u].dev
  BY <1>4 DEF DeleteDevice, MoveDevice, RestoreDevice, Revoke
<1>5. CASE SetTenantActive \/ Tick \/ UNCHANGED vars
  BY <1>5 DEF SetTenantActive, Tick, vars
<1>6. ~Restart
  BY DEF Restart, Free
<1> QED BY <1>1, <1>2, <1>3, <1>4, <1>5, <1>6 DEF Next

\* What a step does to the client and the revision of a session: they stay, the
\* client leaves, or a connection that had no device takes over; a device's revision
\* never falls.
LEMMA ClientStep ==
    ASSUME IndInv, [Next]_vars, ~Restart, NEW d \in Devices
    PROVE  /\ rows[d].revision <= rows'[d].revision
           /\ \/ /\ sessions'[d].client \in {sessions[d].client, None}
                 /\ sessions'[d].revision = sessions[d].revision
              \/ \E u \in Clients : ~conns[u].mapped /\ sessions'[d].client = u
<1>0. TypeOK /\ ConnInv /\ rows[d].revision \in Nat
  BY DEF IndInv, TypeOK, DeviceRow
<1>1. CASE UNCHANGED <<rows, sessions, gauge, unknowns>>
  BY <1>0, <1>1
<1>2. ASSUME NEW e \in Devices, NEW s \in SessionState, NEW on \in BOOLEAN, transition(e, s, on),
             s.revision = sessions[e].revision, s.client \in {sessions[e].client, None}
      PROVE  /\ rows'[d].revision = rows[d].revision
             /\ sessions'[d].client \in {sessions[d].client, None}
             /\ sessions'[d].revision = sessions[d].revision
  <2>1. CASE d = e
    BY <1>0, <1>2, <2>1, TransitionFrame
  <2>2. CASE d # e
    BY <1>0, <1>2, <2>2, TransitionFrame
  <2> QED BY <2>1, <2>2
<1>3. ASSUME NEW u \in Clients, Establish(u)
      PROVE  /\ rows'[d].revision = rows[d].revision
             /\ \/ sessions'[d] = sessions[d]
                \/ ~conns[u].mapped /\ sessions'[d].client = u
  <2>1. ~conns[u].mapped
    BY <1>0, <1>3 DEF Establish, ConnInv
  <2>2. sessions'[d] = sessions[d] \/ sessions'[d].client = u
    BY <1>0, <1>3 DEF Establish, Established, TypeOK, SessionState
  <2> QED BY <1>3, <2>1, <2>2 DEF Establish
<1>4. ASSUME NEW e \in Devices, NEW on \in BOOLEAN, Revoke(e, on)
      PROVE  /\ rows[d].revision <= rows'[d].revision
             /\ sessions' = sessions
  BY <1>0, <1>4 DEF Revoke, TypeOK, DeviceRow
<1> QED BY <1>0, <1>1, <1>2, <1>3, <1>4, StepKinds

\* A superseded or revoked connection never passes isCurrent again, for any
\* number of devices, connections and administrative changes.
THEOREM RevocationIsFinal == Spec => RevokedStaysRevoked
<1>1. ASSUME IndInv, [Next]_vars, NEW c \in Clients, Superseded(c), conns'[c].mapped
      PROVE  ~Current(c)'
  <2> DEFINE d == conns[c].dev
  <2>1. /\ TypeOK /\ ConnInv /\ RevisionInv
        /\ conns[c].mapped
    BY <1>1 DEF IndInv, Superseded
  <2>2. d \in Devices
    BY <2>1 DEF ConnInv
  <2>3. ~Restart
    BY <1>1 DEF Restart, Free
  <2>4. conns'[c].dev = d
    BY <1>1, <2>1, DeviceKept
  <2>5. sessions[d].client # c \/ sessions[d].revision # rows[d].revision
    BY <1>1 DEF Superseded
  <2>6. /\ sessions[d].revision \in Nat /\ rows[d].revision \in Nat
        /\ sessions[d].revision <= rows[d].revision
        /\ rows'[d].revision \in Nat
    <3>1. TypeOK'
      BY <1>1, TypeStep
    <3> QED BY <2>1, <2>2, <3>1 DEF TypeOK, SessionState, DeviceRow, RevisionInv
  <2>7. /\ rows[d].revision <= rows'[d].revision
        /\ \/ /\ sessions'[d].client \in {sessions[d].client, None}
              /\ sessions'[d].revision = sessions[d].revision
           \/ \E u \in Clients : ~conns[u].mapped /\ sessions'[d].client = u
    BY <1>1, <2>2, <2>3, ClientStep
  <2>8. sessions'[d].client # c \/ rows'[d].revision # sessions'[d].revision
    <3>1. CASE \E u \in Clients : ~conns[u].mapped /\ sessions'[d].client = u
      BY <2>1, <3>1
    <3>2. CASE /\ sessions'[d].client \in {sessions[d].client, None}
               /\ sessions'[d].revision = sessions[d].revision
      BY <2>5, <2>6, <2>7, <3>2, DeviceAssumption
    <3> QED BY <2>7, <3>1, <3>2
  <2> HIDE DEF d
  <2> QED BY <2>4, <2>8 DEF Current
<1>2. IndInv /\ [Next]_vars => [\A c \in Clients : Superseded(c) /\ conns'[c].mapped => ~Current(c)']_vars
  BY <1>1
<1> QED BY <1>2, Invariance, PTL DEF Spec, RevokedStaysRevoked
=============================================================================
