------------------------- MODULE VideoPlaybackProofs -------------------------
(***************************************************************************)
(* Proofs about VideoPlayback for any number of cameras, sessions, workers *)
(* and source versions.  One inductive invariant carries them: the type    *)
(* invariant, what the rows and the busy workers refer to, and three       *)
(* safety invariants, which need each other.                               *)
(***************************************************************************)
EXTENDS VideoPlayback, TLAPS

\* A camera that is enabled has a source version, so a request names a stream.
CameraInv == \A c \in Cameras : cameras[c].enabled => cameras[c].version # 0

\* A request that was prepared, and every session made of it, names a stream.
NamesStream(s) == sessions[s].state # "none" => sessions[s].stream \in Streams
RequestInv == \A s \in Sessions : NamesStream(s)

\* A busy worker has a job key; its result is set by the provider's answer or by
\* the revalidation, and a retry is asked for only while a claim is left.
Knows(w) ==
    workers[w].pc # "idle" =>
        /\ workers[w].key \in JobKeys
        /\ workers[w].pc \in {"claimed", "call"} => workers[w].result = "none"
        /\ workers[w].result = "retryable" => workers[w].attempts < MaxAttempts
ClaimInv == \A w \in Workers : Knows(w)

\* A row that was never written was never claimed.
JobInv == \A k \in JobKeys : jobs[k].status = "absent" => jobs[k].attempts = 0

IndInv == /\ TypeOK /\ CameraInv /\ RequestInv /\ ClaimInv /\ JobInv
          /\ LiveSessionIsCurrent /\ LeaseExclusive /\ StopNeverCutsLiveSession

\* The initial state satisfies the inductive invariant.
LEMMA InitInd == Init => IndInv
<1> SUFFICES ASSUME Init PROVE IndInv
  OBVIOUS
<1> USE VideoAssumption
<1>1. cameras \in [Cameras -> CameraRow] /\ sessions \in [Sessions -> SessionRow]
  BY DEF Init, CameraRow, SessionRow, NoRequest, SessionStates
<1>2. streams \in [Streams -> StreamStates] /\ jobs \in [JobKeys -> JobRow]
  BY DEF Init, StreamStates, JobRow, NoJob, JobStatuses
<1>3. /\ order \in SUBSET (JobKeys \X JobKeys)
      /\ workers \in [Workers -> WorkerState] /\ media \in SUBSET Streams /\ faults \in 0..MaxFaults
  BY DEF Init, WorkerState, Idle, Results
<1>4. CameraInv /\ RequestInv /\ ClaimInv /\ JobInv
  BY DEF Init, CameraInv, RequestInv, NamesStream, ClaimInv, Knows, JobInv, NoRequest, Idle, NoJob
<1>5. LiveSessionIsCurrent /\ LeaseExclusive /\ StopNeverCutsLiveSession
  BY DEF Init, LiveSessionIsCurrent, Open, LeaseExclusive, StopNeverCutsLiveSession,
         FencedStop, NoRequest, Idle
<1> QED BY <1>1, <1>2, <1>3, <1>4, <1>5 DEF IndInv, TypeOK

\* The job keys of a stream, and the stream of a key.
LEMMA Keys ==
    /\ \A st \in Streams : StartKey(st) \in JobKeys /\ StopKey(st) \in JobKeys
    /\ \A st \in Streams, s \in Sessions : RestartKey(st, s) \in JobKeys
    /\ \A k \in JobKeys : k.stream \in Streams
    /\ \A k, j \in JobKeys : k.kind = "stop" /\ j.kind = "stop" /\ k.stream = j.stream => k = j
  BY DEF StartKey, StopKey, RestartKey, JobKeys

\* A stream is a camera and a version of its source.
LEMMA StreamParts ==
    /\ \A st \in Streams : st[1] \in Cameras /\ st[2] \in 1..MaxVersion
    /\ \A c \in Cameras, v \in 1..MaxVersion : <<c, v>> \in Streams
  BY DEF Streams

\* INSERT ... ON CONFLICT DO NOTHING only adds scheduled rows.
LEMMA InsertedType ==
    ASSUME TypeOK, NEW keys, NEW s \in Sessions \cup {None}
    PROVE  /\ Inserted(keys, s) \in [JobKeys -> JobRow]
           /\ \A k \in JobKeys :
                \/ Inserted(keys, s)[k] = jobs[k]
                \/ jobs[k].status = "absent" /\ Inserted(keys, s)[k] = NewJob(s)
<1>1. NewJob(s) \in JobRow
  BY VideoAssumption DEF NewJob, JobRow, JobStatuses
<1> QED BY <1>1 DEF TypeOK, Inserted

\* The order relates job keys, and so it does when some more become due.
LEMMA OrderType ==
    ASSUME TypeOK, NEW keys \in SUBSET JobKeys
    PROVE  /\ Ordered(keys) \in SUBSET (JobKeys \X JobKeys)
           /\ Queued(keys) \in SUBSET (JobKeys \X JobKeys)
  BY DEF TypeOK, Ordered, Queued

\* jobResult and jobStatus stay in their types, and ask for a retry only while
\* a claim is left.
LEMMA ResultType ==
    ASSUME NEW o \in Outcomes, NEW kind \in {"start", "stop"}, NEW a \in 0..MaxAttempts
    PROVE  /\ jobResult(o, kind, a) \in Results
           /\ jobResult(o, kind, a) = "retryable" => a < MaxAttempts
           /\ jobResult(o, kind, a) # "skipped"
  BY VideoAssumption DEF Outcomes, jobResult, Results

\* What FinishJob writes into the job: a final status, or "retryable" on request.
LEMMA StatusType ==
    ASSUME NEW result \in Results
    PROVE  /\ jobStatus(result) \in Terminal \cup {"retryable"}
           /\ jobStatus(result) = "retryable" => result = "retryable"
  BY DEF jobStatus, Terminal, Results

\* What FinishJob makes of a session: it is open afterwards only if it was, and
\* one that had ended keeps its state.
LEMMA SessionAfterType ==
    ASSUME TypeOK, NEW k \in JobKeys, NEW result \in Results, NEW s \in Sessions
    PROVE  /\ SessionAfter(s, k, result) \in SessionStates
           /\ SessionAfter(s, k, result) \in {"pending", "ready"} => Open(s)
           /\ ~Open(s) => SessionAfter(s, k, result) = sessions[s].state
<1>1. sessions[s].state \in SessionStates
  BY DEF TypeOK, SessionRow
<1> QED BY <1>1 DEF SessionAfter, SessionStates, Open, Results

\* Invalidate keeps sessions and jobs in their types.
LEMMA InvalidateType ==
    ASSUME TypeOK, NEW c \in Cameras, Invalidate(c)
    PROVE  /\ sessions' \in [Sessions -> SessionRow]
           /\ jobs' \in [JobKeys -> JobRow] /\ order' \in SUBSET (JobKeys \X JobKeys)
<1>1. \A s \in Sessions : [sessions[s] EXCEPT !.state = "revoked"] \in SessionRow
  BY DEF TypeOK, SessionRow, SessionStates
<1>2. sessions' \in [Sessions -> SessionRow]
  BY <1>1 DEF TypeOK, Invalidate
<1>3. jobs' \in [JobKeys -> JobRow]
  BY InsertedType DEF Invalidate
<1>4. order' \in SUBSET (JobKeys \X JobKeys)
  BY OrderType, Keys DEF Invalidate
<1> QED BY <1>2, <1>3, <1>4

\* Camera and request actions keep the type invariant.
LEMMA RequestTypeStep ==
    ASSUME TypeOK, CameraInv, RequestInv,
           \/ \E c \in Cameras : CreateCamera(c) \/ ReplaceCamera(c) \/ DisableCamera(c)
           \/ \E s \in Sessions, c \in Cameras : PreparePlayback(s, c)
           \/ \E s \in Sessions : \/ CreatePlayback(s) \/ RefusePlayback(s) \/ StopPlayback(s)
                                  \/ ExpireSession(s) \/ RevokeAccess(s)
    PROVE  TypeOK'
<1> USE VideoAssumption
<1>1. ASSUME NEW c \in Cameras, CreateCamera(c) PROVE TypeOK'
  BY <1>1 DEF CreateCamera, TypeOK, CameraRow
<1>2. ASSUME NEW c \in Cameras, ReplaceCamera(c) PROVE TypeOK'
  <2>1. cameras' \in [Cameras -> CameraRow]
    BY <1>2 DEF ReplaceCamera, TypeOK, CameraRow
  <2> QED BY <1>2, <2>1, InvalidateType DEF ReplaceCamera, TypeOK
<1>3. ASSUME NEW c \in Cameras, DisableCamera(c) PROVE TypeOK'
  <2>1. cameras' \in [Cameras -> CameraRow]
    BY <1>3 DEF DisableCamera, TypeOK, CameraRow
  <2> QED BY <1>3, <2>1, InvalidateType DEF DisableCamera, TypeOK
<1>4. ASSUME NEW s \in Sessions, NEW c \in Cameras, PreparePlayback(s, c) PROVE TypeOK'
  <2>1. cameras[c].version \in 1..MaxVersion
    BY <1>4 DEF PreparePlayback, CameraInv, TypeOK, CameraRow
  <2>2. <<c, cameras[c].version>> \in Streams
    BY <2>1, StreamParts
  <2>3. sessions' \in [Sessions -> SessionRow]
    BY <1>4, <2>2 DEF PreparePlayback, TypeOK, SessionRow, SessionStates
  <2> QED BY <1>4, <2>3 DEF PreparePlayback, TypeOK
<1>5. ASSUME NEW s \in Sessions, CreatePlayback(s) PROVE TypeOK'
  <2>1. sessions[s].stream \in Streams
    BY <1>5 DEF CreatePlayback, RequestInv, NamesStream
  <2>2. jobs' \in [JobKeys -> JobRow]
    BY <1>5, InsertedType DEF CreatePlayback
  <2>3. streams' \in [Streams -> StreamStates]
    BY <1>5 DEF CreatePlayback, TypeOK, StreamStates
  <2>4. sessions' \in [Sessions -> SessionRow]
    BY <1>5 DEF CreatePlayback, TypeOK, SessionRow, SessionStates
  <2>5. order' \in SUBSET (JobKeys \X JobKeys)
    BY <1>5, <2>1, OrderType, Keys DEF CreatePlayback
  <2> QED BY <1>5, <2>2, <2>3, <2>4, <2>5 DEF CreatePlayback, TypeOK
<1>6. ASSUME NEW s \in Sessions, RefusePlayback(s) PROVE TypeOK'
  BY <1>6 DEF RefusePlayback, TypeOK, SessionRow, SessionStates, NoRequest
<1>7. ASSUME NEW s \in Sessions, StopPlayback(s) PROVE TypeOK'
  <2>1. jobs' \in [JobKeys -> JobRow]
    BY <1>7, InsertedType DEF StopPlayback, TypeOK
  <2>2. streams' \in [Streams -> StreamStates]
    BY <1>7 DEF StopPlayback, TypeOK, StreamStates
  <2>3. sessions' \in [Sessions -> SessionRow]
    BY <1>7 DEF StopPlayback, TypeOK, SessionRow, SessionStates
  <2>4. order' \in SUBSET (JobKeys \X JobKeys)
    <3>1. sessions[s].stream \in Streams
      BY <1>7 DEF StopPlayback, Open, RequestInv, NamesStream
    <3> QED BY <1>7, <3>1, OrderType, Keys DEF StopPlayback, TypeOK
  <2> QED BY <1>7, <2>1, <2>2, <2>3, <2>4 DEF StopPlayback, TypeOK
<1>8. ASSUME NEW s \in Sessions, ExpireSession(s) PROVE TypeOK'
  BY <1>8 DEF ExpireSession, TypeOK, SessionRow
<1>9. ASSUME NEW s \in Sessions, RevokeAccess(s) PROVE TypeOK'
  <2>1. [sessions[s] EXCEPT !.authorized = FALSE] \in SessionRow
    BY DEF TypeOK, SessionRow
  <2>2. sessions' \in [Sessions -> SessionRow]
    BY <1>9, <2>1 DEF RevokeAccess, TypeOK
  <2> QED BY <1>9, <2>2 DEF RevokeAccess, TypeOK
<1> QED BY <1>1, <1>2, <1>3, <1>4, <1>5, <1>6, <1>7, <1>8, <1>9

\* Goto keeps the workers in their type.
LEMMA GotoType ==
    ASSUME TypeOK, NEW w \in Workers, NEW pc \in {"call", "finish"}, NEW result \in Results,
           Goto(w, pc, result)
    PROVE  workers' \in [Workers -> WorkerState]
<1>1. [workers[w] EXCEPT !.pc = pc, !.result = result] \in WorkerState
  BY DEF TypeOK, WorkerState
<1> QED BY <1>1 DEF Goto, TypeOK

\* Worker steps, crashes and the passing of a lease keep the type invariant.
LEMMA WorkerTypeStep ==
    ASSUME TypeOK, ClaimInv,
           \/ \E w \in Workers : Worker(w) \/ CrashWorker(w)
           \/ \E k \in JobKeys : ExpireLease(k) \/ ComeDue(k)
    PROVE  TypeOK'
<1> USE VideoAssumption
<1>0. Idle \in WorkerState
  BY DEF Idle, WorkerState, Results
<1>1. ASSUME NEW w \in Workers, NEW k \in JobKeys, ClaimJob(w, k) PROVE TypeOK'
  <2>1. jobs[k].attempts + 1 \in 0..MaxAttempts
    BY <1>1 DEF ClaimJob, NextClaim, Claimable, TypeOK, JobRow
  <2>2. jobs' \in [JobKeys -> JobRow]
    BY <1>1, <2>1 DEF ClaimJob, NextClaim, TypeOK, JobRow, JobStatuses
  <2>3. streams' \in [Streams -> StreamStates]
    BY <1>1 DEF ClaimJob, NextClaim, TypeOK, StreamStates
  <2>4. workers' \in [Workers -> WorkerState]
    BY <1>1, <2>1 DEF ClaimJob, NextClaim, TypeOK, WorkerState, Results
  <2> QED BY <1>1, <2>2, <2>3, <2>4 DEF ClaimJob, NextClaim, TypeOK
<1>2. ASSUME NEW w \in Workers, RevalidateStart(w) PROVE TypeOK'
  <2>1. workers' \in [Workers -> WorkerState]
    BY <1>2, GotoType DEF RevalidateStart, Results
  <2> QED BY <1>2, <2>1 DEF RevalidateStart, TypeOK
<1>3. ASSUME NEW w \in Workers, RevalidateStop(w) PROVE TypeOK'
  <2>1. workers' \in [Workers -> WorkerState]
    BY <1>3, GotoType DEF RevalidateStop, Results
  <2>2. streams' \in [Streams -> StreamStates]
    BY <1>3 DEF RevalidateStop, TypeOK, StreamStates
  <2> QED BY <1>3, <2>1, <2>2 DEF RevalidateStop, TypeOK
<1>4. ASSUME NEW w \in Workers, AbandonJob(w) \/ FinishLost(w) PROVE TypeOK'
  BY <1>0, <1>4 DEF AbandonJob, FinishLost, TypeOK
<1>5. ASSUME NEW w \in Workers, NEW o \in Outcomes, ProviderCall(w, o) PROVE TypeOK'
  <2>1. workers[w].key \in JobKeys /\ workers[w].attempts \in 0..MaxAttempts
    BY <1>5 DEF ProviderCall, ClaimInv, Knows, TypeOK, WorkerState
  <2>2. workers[w].key.kind \in {"start", "stop"} /\ workers[w].key.stream \in Streams
    BY <2>1 DEF JobKeys
  <2>3. workers' \in [Workers -> WorkerState]
    BY <1>5, <2>1, <2>2, ResultType, GotoType DEF ProviderCall
  <2>4. media' \in SUBSET Streams
    BY <1>5, <2>2 DEF ProviderCall, TypeOK
  <2> QED BY <1>5, <2>3, <2>4 DEF ProviderCall, TypeOK
<1>6. ASSUME NEW w \in Workers, FinishJob(w) PROVE TypeOK'
  <2>1. workers[w].key \in JobKeys /\ workers[w].result \in Results
    BY <1>6 DEF FinishJob, ClaimInv, Knows, TypeOK, WorkerState
  <2>2. jobs' \in [JobKeys -> JobRow]
    <3>1. [jobs[workers[w].key] EXCEPT !.status = jobStatus(workers[w].result), !.lease = "none"]
            \in JobRow
      <4>1. jobs[workers[w].key] \in JobRow
        BY <2>1 DEF TypeOK
      <4>2. jobStatus(workers[w].result) \in JobStatuses
        BY <2>1, StatusType DEF JobStatuses
      <4> QED BY <4>1, <4>2 DEF JobRow
    <3> QED BY <1>6, <2>1, <3>1 DEF FinishJob, TypeOK
  <2>3. streams' \in [Streams -> StreamStates]
    <3>1. StreamAfter(workers[w].key, workers[w].result) \in StreamStates
      BY <2>1 DEF StreamAfter, StreamStates
    <3> QED BY <1>6, <3>1 DEF FinishJob, TypeOK
  <2>4. sessions' \in [Sessions -> SessionRow]
    <3>1. \A s \in Sessions : [sessions[s] EXCEPT !.state =
              SessionAfter(s, workers[w].key, workers[w].result)] \in SessionRow
      BY <2>1, SessionAfterType DEF TypeOK, SessionRow
    <3> QED BY <1>6, <3>1 DEF FinishJob, TypeOK
  <2>5. order' \in SUBSET (JobKeys \X JobKeys)
    BY <1>6 DEF FinishJob, TypeOK
  <2> QED BY <1>0, <1>6, <2>2, <2>3, <2>4, <2>5 DEF FinishJob, TypeOK
<1>7. ASSUME NEW w \in Workers, CrashWorker(w) PROVE TypeOK'
  BY <1>0, <1>7 DEF CrashWorker, TypeOK
<1>8. ASSUME NEW k \in JobKeys, ExpireLease(k) PROVE TypeOK'
  <2>1. jobs' \in [JobKeys -> JobRow]
    BY <1>8 DEF ExpireLease, TypeOK, JobRow
  <2>2. faults' \in 0..MaxFaults
    BY <1>8 DEF ExpireLease, TypeOK
  <2> QED BY <1>8, <2>1, <2>2 DEF ExpireLease, TypeOK
<1>9. ASSUME NEW k \in JobKeys, ComeDue(k) PROVE TypeOK'
  BY <1>9, OrderType DEF ComeDue, TypeOK
<1> QED BY <1>1, <1>2, <1>3, <1>4, <1>5, <1>6, <1>7, <1>8, <1>9 DEF Worker

\* Every step keeps the type invariant.
LEMMA TypeStep == IndInv /\ [Next]_vars => TypeOK'
<1>1. ASSUME TypeOK, UNCHANGED vars PROVE TypeOK'
  BY <1>1 DEF TypeOK, vars
<1> QED BY <1>1, RequestTypeStep, WorkerTypeStep DEF IndInv, Next

-----------------------------------------------------------------------------
\* All that a step can do to one session: be prepared, refused or created, or
\* keep its stream while an open state may end, become ready or expire.
SessionMove(s) ==
    \/ \E c \in Cameras : PreparePlayback(s, c)
    \/ RefusePlayback(s)
    \/ CreatePlayback(s)
    \/ /\ sessions'[s].stream = sessions[s].stream
       /\ sessions[s].expired => sessions'[s].expired
       /\ \/ sessions'[s].state = sessions[s].state
          \/ Open(s) /\ sessions'[s].state \in {"ready", "failed", "revoked"}

\* Every step makes such a move on every session.
LEMMA SessionStep ==
    ASSUME IndInv, [Next]_vars, NEW s \in Sessions
    PROVE  SessionMove(s)
<1>1. sessions[s] \in SessionRow /\ sessions \in [Sessions -> SessionRow]
  BY DEF IndInv, TypeOK
<1>2. CASE UNCHANGED sessions
  BY <1>2 DEF SessionMove
<1>3. ASSUME NEW c \in Cameras, Invalidate(c) PROVE SessionMove(s)
  BY <1>1, <1>3 DEF Invalidate, SessionMove, SessionRow
<1>4. ASSUME NEW x \in Sessions, x # s,
             \/ \E c \in Cameras : PreparePlayback(x, c)
             \/ RefusePlayback(x) \/ CreatePlayback(x) \/ StopPlayback(x)
             \/ ExpireSession(x) \/ RevokeAccess(x)
      PROVE  SessionMove(s)
  <2>1. sessions'[s] = sessions[s]
    BY <1>1, <1>4 DEF PreparePlayback, RefusePlayback, CreatePlayback, StopPlayback,
                      ExpireSession, RevokeAccess
  <2> QED BY <2>1 DEF SessionMove
<1>5. CASE StopPlayback(s)
  BY <1>1, <1>5 DEF StopPlayback, SessionMove, SessionRow
<1>6. CASE ExpireSession(s) \/ RevokeAccess(s)
  BY <1>1, <1>6 DEF ExpireSession, RevokeAccess, SessionMove, SessionRow
<1>7. ASSUME NEW w \in Workers, FinishJob(w) PROVE SessionMove(s)
  <2>1. workers[w].key \in JobKeys /\ workers[w].result \in Results
    BY <1>7 DEF FinishJob, IndInv, ClaimInv, Knows, TypeOK, WorkerState
  <2>2. CASE s \in OfStream(workers[w].key.stream)
    <3> DEFINE after == SessionAfter(s, workers[w].key, workers[w].result)
    <3>1. sessions'[s] = [sessions[s] EXCEPT !.state = after]
      BY <1>7, <2>2 DEF FinishJob
    <3>2. after = sessions[s].state \/ (Open(s) /\ after \in {"ready", "failed", "revoked"})
      BY <2>1 DEF SessionAfter, Open
    <3> HIDE DEF after
    <3> QED BY <1>1, <3>1, <3>2 DEF SessionMove, SessionRow
  <2>3. CASE s \notin OfStream(workers[w].key.stream)
    BY <1>7, <2>3 DEF FinishJob, SessionMove
  <2> QED BY <2>2, <2>3
<1>8. ASSUME NEW w \in Workers, Worker(w), ~FinishJob(w) PROVE UNCHANGED sessions
  BY <1>8 DEF Worker, ClaimJob, RevalidateStart, RevalidateStop, AbandonJob, ProviderCall, FinishLost
<1>9. CASE \E c \in Cameras : CreateCamera(c) \/ ReplaceCamera(c) \/ DisableCamera(c)
  BY <1>2, <1>3, <1>9 DEF CreateCamera, ReplaceCamera, DisableCamera
<1>10. CASE \/ \E x \in Sessions, c \in Cameras : PreparePlayback(x, c)
            \/ \E x \in Sessions : \/ CreatePlayback(x) \/ RefusePlayback(x) \/ StopPlayback(x)
                                   \/ ExpireSession(x) \/ RevokeAccess(x)
  BY <1>4, <1>5, <1>6, <1>10 DEF SessionMove
<1>11. CASE \E w \in Workers : Worker(w) \/ CrashWorker(w)
  BY <1>2, <1>7, <1>8, <1>11 DEF CrashWorker
<1>12. CASE \E k \in JobKeys : ExpireLease(k) \/ ComeDue(k)
  BY <1>2, <1>12 DEF ExpireLease, ComeDue
<1> QED BY <1>2, <1>9, <1>10, <1>11, <1>12 DEF Next, vars

\* A session that is open after a step was open before it on the same stream,
\* or the step created it.
LEMMA OpenStep ==
    ASSUME IndInv, [Next]_vars, NEW s \in Sessions, Open(s)', ~CreatePlayback(s)
    PROVE  /\ Open(s)
           /\ sessions'[s].stream = sessions[s].stream
           /\ Live(s)' => Live(s)
<1>1. sessions \in [Sessions -> SessionRow]
  BY DEF IndInv, TypeOK
<1>2. ~RefusePlayback(s) /\ \A c \in Cameras : ~PreparePlayback(s, c)
  BY <1>1 DEF RefusePlayback, PreparePlayback, Open, NoRequest, SessionRow
<1> QED BY <1>2, SessionStep DEF SessionMove, Open, Live

\* Every step keeps the facts about cameras and requests.
LEMMA RequestStep == IndInv /\ [Next]_vars => CameraInv' /\ RequestInv'
<1> SUFFICES ASSUME IndInv, [Next]_vars PROVE CameraInv' /\ RequestInv'
  OBVIOUS
<1> USE VideoAssumption
<1>1. CameraInv'
  <2>1. ASSUME NEW c \in Cameras, CreateCamera(c) \/ ReplaceCamera(c) \/ DisableCamera(c)
        PROVE  CameraInv'
    BY <2>1 DEF CreateCamera, ReplaceCamera, DisableCamera, IndInv, TypeOK, CameraInv, CameraRow
  <2>2. CASE UNCHANGED cameras
    BY <2>2 DEF IndInv, CameraInv
  <2> QED BY <2>1, <2>2 DEF Next, vars, PreparePlayback, CreatePlayback, RefusePlayback,
        StopPlayback, ExpireSession, RevokeAccess, Worker, ClaimJob, RevalidateStart,
        RevalidateStop, AbandonJob, ProviderCall, FinishJob, FinishLost, CrashWorker, ExpireLease,
        ComeDue
<1>2. ASSUME NEW s \in Sessions PROVE NamesStream(s)'
  <2>1. NamesStream(s) /\ sessions \in [Sessions -> SessionRow]
    BY DEF IndInv, RequestInv, TypeOK
  <2>2. ASSUME NEW c \in Cameras, PreparePlayback(s, c) PROVE NamesStream(s)'
    <3>1. cameras[c].version \in 1..MaxVersion
      BY <2>2 DEF PreparePlayback, IndInv, CameraInv, TypeOK, CameraRow
    <3> QED BY <2>1, <2>2, <3>1, StreamParts DEF PreparePlayback, NamesStream, SessionRow
  <2>3. CASE RefusePlayback(s)
    BY <2>1, <2>3 DEF RefusePlayback, NamesStream, NoRequest
  <2>4. CASE CreatePlayback(s)
    BY <2>1, <2>4 DEF CreatePlayback, NamesStream, SessionRow
  <2> QED BY <2>1, <2>2, <2>3, <2>4, SessionStep DEF SessionMove, NamesStream, Open
<1> QED BY <1>1, <1>2 DEF RequestInv

\* Every step keeps open sessions on enabled cameras' current sources.
LEMMA CurrentStep == IndInv /\ [Next]_vars => LiveSessionIsCurrent'
<1> SUFFICES ASSUME IndInv, [Next]_vars, NEW s \in Sessions, Open(s)'
             PROVE  /\ cameras'[sessions'[s].stream[1]].enabled
                    /\ cameras'[sessions'[s].stream[1]].version = sessions'[s].stream[2]
  BY DEF LiveSessionIsCurrent, Current
<1>1. CASE CreatePlayback(s)
  <2>1. sessions'[s].stream = sessions[s].stream
    BY <1>1 DEF CreatePlayback, IndInv, TypeOK, SessionRow
  <2> QED BY <1>1, <2>1 DEF CreatePlayback, Playable, Current
<1>2. CASE ~CreatePlayback(s)
  <2> DEFINE st == sessions[s].stream
  <2>1. Open(s) /\ sessions'[s].stream = st
    BY <1>2, OpenStep
  <2>2. st \in Streams /\ st[1] \in Cameras /\ st[2] # 0 /\ Created(s)
    BY <2>1, StreamParts DEF IndInv, RequestInv, NamesStream, Open, Created
  <2>3. cameras[st[1]].enabled /\ cameras[st[1]].version = st[2]
    BY <2>1 DEF IndInv, LiveSessionIsCurrent, Current
  <2>4. CASE UNCHANGED cameras
    BY <2>1, <2>3, <2>4
  <2>5. ASSUME NEW c \in Cameras, CreateCamera(c) PROVE cameras'[st[1]] = cameras[st[1]]
    BY <2>2, <2>3, <2>5 DEF CreateCamera, IndInv, TypeOK
  <2>6. ASSUME NEW c \in Cameras, Invalidate(c) PROVE st[1] # c
    BY <2>1, <2>2, <2>6 DEF Invalidate, Open, IndInv, TypeOK, SessionRow
  <2>7. ASSUME NEW c \in Cameras, ReplaceCamera(c) \/ DisableCamera(c)
        PROVE  cameras'[st[1]] = cameras[st[1]]
    BY <2>2, <2>6, <2>7 DEF ReplaceCamera, DisableCamera, IndInv, TypeOK
  <2> QED BY <2>1, <2>3, <2>4, <2>5, <2>7 DEF Next, vars, PreparePlayback,
        CreatePlayback, RefusePlayback, StopPlayback, ExpireSession, RevokeAccess, Worker,
        ClaimJob, RevalidateStart, RevalidateStop, AbandonJob, ProviderCall, FinishJob,
        FinishLost, CrashWorker, ExpireLease, ComeDue
<1> QED BY <1>1, <1>2

-----------------------------------------------------------------------------
\* All that a step can do to one job row.
JobMove(k) ==
    \/ /\ jobs'[k].status = jobs[k].status
       /\ jobs'[k].attempts = jobs[k].attempts
       /\ jobs[k].status \in Terminal => jobs'[k] = jobs[k]
    \/ /\ jobs[k].status = "absent" /\ jobs'[k].status = "scheduled"
       /\ jobs'[k].attempts = jobs[k].attempts
    \/ /\ jobs[k].status \in {"scheduled", "retryable", "running"}
       /\ jobs[k].attempts < MaxAttempts
       /\ jobs'[k].status = "running"
       /\ jobs'[k].attempts = jobs[k].attempts + 1
    \/ /\ jobs[k].status = "running" /\ jobs'[k].status \in Terminal
       /\ jobs'[k].attempts = jobs[k].attempts
    \/ /\ jobs[k].status = "running" /\ jobs'[k].status = "retryable"
       /\ jobs[k].attempts < MaxAttempts
       /\ jobs'[k].attempts = jobs[k].attempts

\* Every step makes such a move on every job row.
LEMMA JobStep ==
    ASSUME IndInv, [Next]_vars, NEW k \in JobKeys
    PROVE  JobMove(k)
<1>1. jobs[k] \in JobRow /\ jobs \in [JobKeys -> JobRow]
  BY DEF IndInv, TypeOK
<1>2. CASE UNCHANGED jobs
  BY <1>2 DEF JobMove
<1>3. ASSUME NEW keys, NEW s \in Sessions \cup {None}, jobs' = Inserted(keys, s)
      PROVE  JobMove(k)
  <2>1. CASE jobs'[k] = jobs[k]
    BY <2>1 DEF JobMove
  <2>2. CASE jobs[k].status = "absent" /\ jobs'[k] = NewJob(s)
    <3>1. jobs[k].attempts = 0
      BY <2>2 DEF IndInv, JobInv
    <3> QED BY <2>2, <3>1 DEF JobMove, NewJob
  <2> QED BY <1>3, <2>1, <2>2, InsertedType DEF IndInv
<1>4. ASSUME NEW w \in Workers, NEW j \in JobKeys, ClaimJob(w, j) PROVE JobMove(k)
  <2>1. CASE j = k
    <3>1. /\ jobs'[k].status = "running"
          /\ jobs'[k].attempts = jobs[k].attempts + 1
      BY <1>1, <1>4, <2>1 DEF ClaimJob, NextClaim, JobRow
    <3> QED BY <1>4, <2>1, <3>1 DEF ClaimJob, NextClaim, Claimable, JobMove
  <2>2. CASE j # k
    BY <1>1, <1>4, <2>2 DEF ClaimJob, NextClaim, JobMove
  <2> QED BY <2>1, <2>2
<1>5. ASSUME NEW w \in Workers, FinishJob(w) PROVE JobMove(k)
  <2>1. workers[w].key \in JobKeys /\ workers[w].result \in Results
    BY <1>5 DEF FinishJob, IndInv, ClaimInv, Knows, TypeOK, WorkerState
  <2>2. CASE workers[w].key = k
    <3>1. /\ jobs'[k].status = jobStatus(workers[w].result)
          /\ jobs'[k].attempts = jobs[k].attempts
      BY <1>1, <1>5, <2>2 DEF FinishJob, JobRow
    <3>2. jobs[k].status = "running" /\ jobs[k].attempts = workers[w].attempts
      BY <1>5, <2>2 DEF FinishJob, FinishAllowed, HoldsLease
    <3>3. workers[w].result = "retryable" => workers[w].attempts < MaxAttempts
      BY <1>5 DEF FinishJob, IndInv, ClaimInv, Knows
    <3> QED BY <2>1, <3>1, <3>2, <3>3, StatusType DEF JobMove
  <2>3. CASE workers[w].key # k
    BY <1>1, <1>5, <2>3 DEF FinishJob, JobMove
  <2> QED BY <2>2, <2>3
<1>6. ASSUME NEW j \in JobKeys, ExpireLease(j) PROVE JobMove(k)
  BY <1>1, <1>6 DEF ExpireLease, JobMove, JobRow, Terminal
<1>7. CASE \E c \in Cameras : CreateCamera(c) \/ ReplaceCamera(c) \/ DisableCamera(c)
  BY <1>2, <1>3, <1>7 DEF CreateCamera, ReplaceCamera, DisableCamera, Invalidate
<1>8. ASSUME NEW s \in Sessions, CreatePlayback(s) PROVE JobMove(k)
  BY <1>3, <1>8 DEF CreatePlayback
<1>9. ASSUME NEW s \in Sessions, StopPlayback(s) PROVE JobMove(k)
  BY <1>2, <1>3, <1>9 DEF StopPlayback
<1>10. ASSUME NEW w \in Workers, Worker(w) PROVE JobMove(k)
  BY <1>2, <1>4, <1>5, <1>10
  DEF Worker, RevalidateStart, RevalidateStop, AbandonJob, ProviderCall, FinishLost
<1> QED
  BY <1>2, <1>6, <1>7, <1>8, <1>9, <1>10
  DEF Next, vars, PreparePlayback, RefusePlayback, ExpireSession, RevokeAccess, CrashWorker, ComeDue

\* The claims of a job are never taken back, and a row without claims stays so.
LEMMA ClaimsGrow ==
    ASSUME IndInv, [Next]_vars
    PROVE  /\ JobInv'
           /\ \A k \in JobKeys : jobs'[k].attempts \in Nat /\ jobs'[k].attempts >= jobs[k].attempts
<1>1. \A k \in JobKeys : jobs[k].attempts \in Nat
  BY VideoAssumption DEF IndInv, TypeOK, JobRow
<1>2. ASSUME NEW k \in JobKeys
      PROVE  jobs'[k].attempts \in Nat /\ jobs'[k].attempts >= jobs[k].attempts
  BY <1>1, JobStep DEF JobMove
<1>3. ASSUME NEW k \in JobKeys, jobs'[k].status = "absent" PROVE jobs'[k].attempts = 0
  BY <1>3, JobStep DEF JobMove, IndInv, JobInv, Terminal
<1> QED BY <1>2, <1>3 DEF JobInv

\* A step other than a claim leaves each worker idle or with the claim it had.
LEMMA WorkerStep ==
    ASSUME IndInv, [Next]_vars, ~(\E u \in Workers, k \in JobKeys : ClaimJob(u, k)),
           NEW w \in Workers, workers'[w].pc # "idle"
    PROVE  /\ workers[w].pc # "idle"
           /\ workers'[w].key = workers[w].key
           /\ workers'[w].attempts = workers[w].attempts
<1>1. CASE UNCHANGED workers
  BY <1>1
<1>2. ASSUME NEW u \in Workers, NEW pc, NEW result, Goto(u, pc, result), workers[u].pc # "idle"
      PROVE  /\ workers[w].pc # "idle"
             /\ workers'[w].key = workers[w].key
             /\ workers'[w].attempts = workers[w].attempts
  BY <1>2 DEF Goto, IndInv, TypeOK, WorkerState
<1>3. ASSUME NEW u \in Workers, FinishJob(u) \/ FinishLost(u) \/ AbandonJob(u) \/ CrashWorker(u)
      PROVE  workers'[w] = workers[w]
  BY <1>3 DEF FinishJob, FinishLost, AbandonJob, CrashWorker, IndInv, TypeOK, Idle
<1>4. ASSUME NEW u \in Workers, RevalidateStart(u) \/ RevalidateStop(u)
                                \/ \E o \in Outcomes : ProviderCall(u, o)
      PROVE  workers[u].pc # "idle" /\ \E pc, result : Goto(u, pc, result)
  BY <1>4 DEF RevalidateStart, RevalidateStop, ProviderCall
<1>5. CASE \E u \in Workers : Worker(u) \/ CrashWorker(u)
  BY <1>2, <1>3, <1>4, <1>5 DEF Worker
<1> QED
  BY <1>1, <1>5
  DEF Next, vars, CreateCamera, ReplaceCamera, DisableCamera, PreparePlayback, CreatePlayback,
      RefusePlayback, StopPlayback, ExpireSession, RevokeAccess, ExpireLease, ComeDue

\* Every step keeps what a busy worker knows.
LEMMA ClaimStep == IndInv /\ [Next]_vars => ClaimInv'
<1> SUFFICES ASSUME IndInv, [Next]_vars, NEW v \in Workers PROVE Knows(v)'
  BY DEF ClaimInv
<1>1. Knows(v) /\ workers[v] \in WorkerState /\ workers \in [Workers -> WorkerState]
  BY DEF IndInv, ClaimInv, TypeOK
<1>2. ASSUME workers'[v] = workers[v] PROVE Knows(v)'
  BY <1>1, <1>2 DEF Knows
<1>3. ASSUME NEW w \in Workers, NEW k \in JobKeys, ClaimJob(w, k) PROVE Knows(v)'
  <2>1. CASE v = w
    BY <1>1, <1>3, <2>1 DEF ClaimJob, NextClaim, Knows
  <2>2. CASE v # w
    BY <1>1, <1>2, <1>3, <2>2 DEF ClaimJob, NextClaim
  <2> QED BY <2>1, <2>2
<1>4. ASSUME NEW w \in Workers, workers[w].pc # "idle", NEW result,
             Goto(w, "finish", result),
             result = "retryable" => workers[w].attempts < MaxAttempts
      PROVE  Knows(v)'
  BY <1>1, <1>2, <1>4 DEF Goto, Knows, WorkerState
<1>5. ASSUME NEW w \in Workers, workers[w].pc # "idle", Goto(w, "call", "none")
      PROVE  Knows(v)'
  BY <1>1, <1>2, <1>5 DEF Goto, Knows, WorkerState
<1>6. ASSUME NEW w \in Workers, RevalidateStart(w) \/ RevalidateStop(w) PROVE Knows(v)'
  BY <1>4, <1>5, <1>6 DEF RevalidateStart, RevalidateStop
<1>7. ASSUME NEW w \in Workers, NEW o \in Outcomes, ProviderCall(w, o) PROVE Knows(v)'
  <2>1. workers[w].pc = "call" /\ workers[w].key \in JobKeys /\ workers[w].attempts \in 0..MaxAttempts
    BY <1>7 DEF ProviderCall, IndInv, ClaimInv, Knows, TypeOK, WorkerState
  <2>2. workers[w].key.kind \in {"start", "stop"}
    BY <2>1 DEF JobKeys
  <2> QED BY <1>4, <1>7, <2>1, <2>2, ResultType DEF ProviderCall
<1>8. ASSUME NEW w \in Workers, FinishJob(w) \/ FinishLost(w) \/ AbandonJob(w) \/ CrashWorker(w)
      PROVE  Knows(v)'
  <2>1. CASE v = w
    BY <1>1, <1>8, <2>1 DEF FinishJob, FinishLost, AbandonJob, CrashWorker, Knows, Idle
  <2>2. CASE v # w
    BY <1>1, <1>2, <1>8, <2>2 DEF FinishJob, FinishLost, AbandonJob, CrashWorker
  <2> QED BY <2>1, <2>2
<1>9. CASE UNCHANGED workers
  BY <1>2, <1>9
<1>10. CASE \E w \in Workers : Worker(w) \/ CrashWorker(w)
  BY <1>3, <1>6, <1>7, <1>8, <1>10 DEF Worker
<1> QED
  BY <1>9, <1>10
  DEF Next, vars, CreateCamera, ReplaceCamera, DisableCamera, PreparePlayback, CreatePlayback,
      RefusePlayback, StopPlayback, ExpireSession, RevokeAccess, ExpireLease, ComeDue

\* Every step keeps the claims of a job apart: a new claim is above all others.
LEMMA LeaseStep == IndInv /\ [Next]_vars => LeaseExclusive'
<1> SUFFICES ASSUME IndInv, [Next]_vars PROVE LeaseExclusive'
  OBVIOUS
<1> DEFINE busy(x) == workers[x].pc # "idle"
<1>1. ASSUME NEW x \in Workers, busy(x)
      PROVE  /\ workers[x].key \in JobKeys
             /\ workers[x].attempts \in Nat
             /\ jobs[workers[x].key].attempts \in Nat
             /\ workers[x].attempts <= jobs[workers[x].key].attempts
  BY <1>1, VideoAssumption
  DEF IndInv, ClaimInv, Knows, LeaseExclusive, TypeOK, WorkerState, JobRow
<1>2. ASSUME NEW x \in Workers, busy(x), NEW y \in Workers \ {x}, busy(y),
             workers[y].key = workers[x].key
      PROVE  workers[y].attempts # workers[x].attempts
  BY <1>2 DEF IndInv, LeaseExclusive
<1>3. \A k \in JobKeys : jobs'[k].attempts \in Nat /\ jobs'[k].attempts >= jobs[k].attempts
  BY ClaimsGrow
<1>4. CASE ~(\E u \in Workers, k \in JobKeys : ClaimJob(u, k))
  <2>1. ASSUME NEW x \in Workers, busy(x)'
        PROVE  /\ busy(x)
               /\ workers'[x].key = workers[x].key
               /\ workers'[x].attempts = workers[x].attempts
    BY <1>4, <2>1, WorkerStep
  <2>2. ASSUME NEW x \in Workers, busy(x)'
        PROVE  workers'[x].attempts <= jobs'[workers'[x].key].attempts
    BY <1>1, <1>3, <2>1, <2>2
  <2>3. ASSUME NEW x \in Workers, busy(x)', NEW y \in Workers \ {x}, busy(y)',
               workers'[y].key = workers'[x].key
        PROVE  workers'[y].attempts # workers'[x].attempts
    BY <1>2, <2>1, <2>3
  <2> QED BY <2>2, <2>3 DEF LeaseExclusive
<1>5. ASSUME NEW u \in Workers, NEW k \in JobKeys, ClaimJob(u, k) PROVE LeaseExclusive'
  <2>1. /\ jobs[k].attempts \in Nat
        /\ jobs'[k].attempts = jobs[k].attempts + 1
    BY <1>5, VideoAssumption DEF ClaimJob, NextClaim, IndInv, TypeOK, JobRow
  <2>2. workers'[u].key = k /\ workers'[u].attempts = jobs[k].attempts + 1
    BY <1>5 DEF ClaimJob, NextClaim, IndInv, TypeOK
  <2>3. \A x \in Workers \ {u} : workers'[x] = workers[x]
    BY <1>5 DEF ClaimJob, NextClaim, IndInv, TypeOK
  <2>4. ASSUME NEW x \in Workers, busy(x)'
        PROVE  workers'[x].attempts <= jobs'[workers'[x].key].attempts
    <3>1. CASE x = u
      BY <2>1, <2>2, <3>1
    <3>2. CASE x # u
      BY <1>1, <1>3, <2>3, <2>4, <3>2
    <3> QED BY <3>1, <3>2
  <2>5. ASSUME NEW x \in Workers \ {u}, busy(x)', workers'[x].key = k
        PROVE  workers'[x].attempts # jobs[k].attempts + 1
    <3>1. busy(x) /\ workers'[x].attempts = workers[x].attempts /\ workers[x].key = k
      BY <2>3, <2>5
    <3>2. workers[x].attempts \in Nat /\ workers[x].attempts <= jobs[k].attempts
      BY <1>1, <3>1
    <3> QED BY <2>1, <3>1, <3>2
  <2>6. ASSUME NEW x \in Workers, busy(x)', NEW y \in Workers \ {x}, busy(y)',
               workers'[y].key = workers'[x].key
        PROVE  workers'[y].attempts # workers'[x].attempts
    <3>1. CASE x = u
      BY <2>2, <2>5, <2>6, <3>1
    <3>2. CASE y = u
      BY <2>2, <2>5, <2>6, <3>2
    <3>3. CASE x # u /\ y # u
      BY <1>2, <2>3, <2>6, <3>3
    <3> QED BY <3>1, <3>2, <3>3
  <2> QED BY <2>4, <2>6 DEF LeaseExclusive
<1> QED BY <1>4, <1>5

-----------------------------------------------------------------------------
\* A stop that is fenced after a step, and whose worker did not pass the fence in
\* it, was fenced before.
LEMMA FenceStep ==
    ASSUME IndInv, [Next]_vars, NEW w \in Workers, FencedStop(w)', ~RevalidateStop(w)
    PROVE  FencedStop(w) /\ workers'[w].key = workers[w].key
<1> DEFINE k == workers[w].key
<1>1. workers[w] \in WorkerState /\ workers \in [Workers -> WorkerState]
  BY DEF IndInv, TypeOK
<1>2. /\ workers'[w].pc \in {"call", "finish"}
      /\ workers'[w].key.kind = "stop"
      /\ workers'[w].result # "skipped"
      /\ jobs'[workers'[w].key].status = "running"
      /\ jobs'[workers'[w].key].attempts = workers'[w].attempts
  BY DEF FencedStop
<1>3. ASSUME workers[w].pc # "idle", workers'[w].key = k, workers'[w].attempts = workers[w].attempts
      PROVE  jobs[k].status = "running" /\ jobs[k].attempts = workers[w].attempts
  <2>1. k \in JobKeys /\ workers[w].attempts \in Nat /\ jobs[k].attempts \in Nat
    BY <1>1, <1>3, VideoAssumption DEF IndInv, ClaimInv, Knows, TypeOK, WorkerState, JobRow
  <2>2. workers[w].attempts <= jobs[k].attempts
    BY <1>3 DEF IndInv, LeaseExclusive
  <2> QED BY <1>2, <1>3, <2>1, <2>2, JobStep DEF JobMove, Terminal
<1>4. ASSUME workers'[w] = workers[w] PROVE FencedStop(w) /\ workers'[w].key = k
  BY <1>2, <1>3, <1>4 DEF FencedStop
<1>5. CASE \E u \in Workers, j \in JobKeys : ClaimJob(u, j)
  BY <1>1, <1>2, <1>4, <1>5 DEF ClaimJob, NextClaim
<1>6. ASSUME NEW o \in Outcomes, ProviderCall(w, o)
      PROVE  FencedStop(w) /\ workers'[w].key = k
  <2>1. workers[w].pc = "call" /\ workers[w].result = "none"
    BY <1>6 DEF ProviderCall, IndInv, ClaimInv, Knows
  <2>2. workers'[w].key = k /\ workers'[w].attempts = workers[w].attempts
    BY <1>1, <1>6 DEF ProviderCall, Goto, WorkerState
  <2> QED BY <1>2, <1>3, <2>1, <2>2 DEF FencedStop
<1>7. ASSUME RevalidateStart(w) PROVE FALSE
  BY <1>1, <1>2, <1>7 DEF RevalidateStart, Goto, WorkerState
<1>8. ASSUME FinishJob(w) \/ FinishLost(w) \/ AbandonJob(w) \/ CrashWorker(w) PROVE FALSE
  BY <1>1, <1>2, <1>8 DEF FinishJob, FinishLost, AbandonJob, CrashWorker, Idle
<1>9. ASSUME NEW u \in Workers, u # w, Worker(u) \/ CrashWorker(u) PROVE workers'[w] = workers[w]
  BY <1>1, <1>9 DEF Worker, ClaimJob, RevalidateStart, RevalidateStop, AbandonJob, ProviderCall,
                    FinishJob, FinishLost, CrashWorker, Goto
<1>10. CASE \E u \in Workers : Worker(u) \/ CrashWorker(u)
  BY <1>4, <1>5, <1>6, <1>7, <1>8, <1>9, <1>10 DEF Worker
<1>11. CASE UNCHANGED workers
  BY <1>4, <1>11
<1> QED
  BY <1>10, <1>11
  DEF Next, vars, CreateCamera, ReplaceCamera, DisableCamera, PreparePlayback, CreatePlayback,
      RefusePlayback, StopPlayback, ExpireSession, RevokeAccess, ExpireLease, ComeDue

\* A stream that is being stopped and that nobody watches stays so until its stop
\* job is settled: CreatePlayback refuses it, and a start of it is not finished.
LEMMA StoppingStays ==
    ASSUME IndInv, [Next]_vars, NEW st \in Streams,
           streams[st] = "stopping", LiveOn(st) = {},
           jobs'[StopKey(st)].status \notin Terminal
    PROVE  /\ streams'[st] = "stopping"
           /\ \A s \in Sessions : ~(Live(s)' /\ sessions'[s].stream = st)
<1>1. ASSUME NEW s \in Sessions, Live(s)', sessions'[s].stream = st PROVE FALSE
  <2>1. CASE CreatePlayback(s)
    <3>1. sessions'[s].stream = sessions[s].stream
      BY <2>1 DEF CreatePlayback, IndInv, TypeOK, SessionRow
    <3> QED BY <1>1, <2>1, <3>1 DEF CreatePlayback, Joinable
  <2>2. CASE ~CreatePlayback(s)
    <3>1. Open(s) /\ Live(s) /\ sessions[s].stream = st
      BY <1>1, <2>2, OpenStep DEF Live, Open
    <3> QED BY <3>1 DEF LiveOn, OfStream, Created, Open
  <2> QED BY <2>1, <2>2
<1>2. streams \in [Streams -> StreamStates]
  BY DEF IndInv, TypeOK
<1>3. ASSUME NEW s \in Sessions, CreatePlayback(s) \/ StopPlayback(s)
      PROVE  streams'[st] = "stopping"
  BY <1>2, <1>3 DEF CreatePlayback, Joinable, StopPlayback
<1>4. ASSUME NEW v \in Workers, NEW j \in JobKeys, ClaimJob(v, j)
      PROVE  streams'[st] = "stopping"
  BY <1>2, <1>4 DEF ClaimJob, NextClaim
<1>5. ASSUME NEW v \in Workers, RevalidateStop(v) PROVE streams'[st] = "stopping"
  BY <1>2, <1>5 DEF RevalidateStop
<1>6. ASSUME NEW v \in Workers, FinishJob(v) PROVE streams'[st] = "stopping"
  <2> DEFINE j == workers[v].key
  <2>1. j \in JobKeys /\ workers[v].result \in Results
    BY <1>6 DEF FinishJob, IndInv, ClaimInv, Knows, TypeOK, WorkerState
  <2>2. CASE j.stream = st /\ j.kind = "start"
    BY <1>6, <2>2 DEF FinishJob, FinishAllowed
  <2>3. CASE j.stream = st /\ j.kind = "stop"
    <3>1. StopKey(st) \in JobKeys /\ StopKey(st).kind = "stop" /\ StopKey(st).stream = st
      BY Keys DEF StopKey
    <3>2. j = StopKey(st)
      BY <2>1, <2>3, <3>1, Keys
    <3>3. jobs'[j].status = jobStatus(workers[v].result)
      BY <1>6, <2>1 DEF FinishJob, IndInv, TypeOK, JobRow
    <3>4. workers[v].result = "retryable"
      BY <2>1, <3>2, <3>3, StatusType
    <3>5. StreamAfter(j, "retryable") = "stopping"
      BY <2>3 DEF StreamAfter
    <3> QED BY <1>2, <1>6, <2>3, <3>4, <3>5 DEF FinishJob
  <2>4. CASE j.stream # st
    BY <1>2, <1>6, <2>4 DEF FinishJob
  <2>5. j.kind \in {"start", "stop"}
    BY <2>1 DEF JobKeys
  <2> QED BY <2>2, <2>3, <2>4, <2>5
<1>7. ASSUME NEW v \in Workers, Worker(v) PROVE streams'[st] = "stopping"
  BY <1>4, <1>5, <1>6, <1>7
  DEF Worker, RevalidateStart, AbandonJob, ProviderCall, FinishLost
<1>8. streams'[st] = "stopping"
  BY <1>3, <1>7
  DEF Next, vars, CreateCamera, ReplaceCamera, DisableCamera, PreparePlayback, RefusePlayback,
      ExpireSession, RevokeAccess, CrashWorker, ExpireLease, ComeDue
<1> QED BY <1>1, <1>8

\* Every step keeps the fence of a stop: the stream stays closed and unwatched.
LEMMA StopStep == IndInv /\ [Next]_vars => StopNeverCutsLiveSession'
<1> SUFFICES ASSUME IndInv, [Next]_vars, NEW w \in Workers, FencedStop(w)'
             PROVE  /\ streams'[workers'[w].key.stream] = "stopping"
                    /\ \A s \in Sessions : ~(Live(s)' /\ sessions'[s].stream = workers'[w].key.stream)
  BY DEF StopNeverCutsLiveSession, LiveOn, OfStream
<1> DEFINE k == workers[w].key
           st == k.stream
<1>1. CASE RevalidateStop(w)
  <2>1. k \in JobKeys /\ st \in Streams
    BY <1>1, Keys DEF RevalidateStop, IndInv, ClaimInv, Knows
  <2>2. workers'[w].key = k /\ LiveOn(st) = {} /\ streams' = [streams EXCEPT ![st] = "stopping"]
    BY <1>1 DEF RevalidateStop, Goto, FencedStop, IndInv, TypeOK, WorkerState
  <2>3. streams'[st] = "stopping"
    BY <2>1, <2>2 DEF IndInv, TypeOK
  <2>4. ASSUME NEW s \in Sessions, Live(s)', sessions'[s].stream = st PROVE FALSE
    <3>1. Live(s) /\ sessions[s].stream = st
      BY <1>1, <2>4 DEF RevalidateStop, Live, Open
    <3> QED BY <2>2, <3>1 DEF LiveOn, OfStream, Created, Live, Open
  <2> QED BY <2>2, <2>3, <2>4
<1>2. CASE ~RevalidateStop(w)
  <2>1. FencedStop(w) /\ workers'[w].key = k
    BY <1>2, FenceStep
  <2>2. streams[st] = "stopping" /\ LiveOn(st) = {}
    BY <2>1 DEF IndInv, StopNeverCutsLiveSession
  <2>3. k \in JobKeys /\ k.kind = "stop" /\ st \in Streams
    BY <2>1, Keys DEF FencedStop, IndInv, ClaimInv, Knows
  <2>4. k = StopKey(st)
    BY <2>3, Keys DEF StopKey
  <2>5. jobs'[StopKey(st)].status = "running"
    BY <2>1, <2>4 DEF FencedStop
  <2> QED BY <2>1, <2>2, <2>3, <2>5, StoppingStays DEF Terminal
<1> QED BY <1>1, <1>2

\* The inductive invariant holds in every reachable state.
THEOREM Invariance == Spec => []IndInv
<1>1. IndInv /\ [Next]_vars => IndInv'
  BY TypeStep, RequestStep, ClaimStep, ClaimsGrow, CurrentStep, LeaseStep, StopStep DEF IndInv
<1> QED BY InitInd, <1>1, PTL DEF Spec

-----------------------------------------------------------------------------
\* Every reachable state is well typed; no job is claimed more than MaxAttempts
\* times.
THEOREM TypeCorrect == Spec => []TypeOK
BY Invariance, PTL DEF IndInv

\* Open sessions always watch the current source of an enabled camera.
THEOREM SessionsAreCurrent == Spec => []LiveSessionIsCurrent
BY Invariance, PTL DEF IndInv

\* No two workers ever hold the same claim of a job.
THEOREM ClaimsAreExclusive == Spec => []LeaseExclusive
BY Invariance, PTL DEF IndInv

\* A stop that passed its fence never meets a live session of its stream.
THEOREM StopIsFenced == Spec => []StopNeverCutsLiveSession
BY Invariance, PTL DEF IndInv

\* Settled jobs and ended sessions never change again.
THEOREM SettledIsFinal == Spec => SettledStaysSettled
<1> DEFINE final == /\ \A k \in JobKeys : jobs[k].status \in Terminal => jobs'[k] = jobs[k]
                    /\ \A s \in Sessions : sessions[s].state \in {"failed", "revoked"}
                                           => sessions'[s].state = sessions[s].state
<1>1. IndInv /\ [Next]_vars => [final]_vars
  <2> SUFFICES ASSUME IndInv, [Next]_vars PROVE final
    OBVIOUS
  <2>1. \A k \in JobKeys : jobs[k].status \in Terminal => jobs'[k] = jobs[k]
    BY JobStep DEF JobMove, Terminal
  <2>2. ASSUME NEW s \in Sessions, sessions[s].state \in {"failed", "revoked"}
        PROVE  sessions'[s].state = sessions[s].state
    BY <2>2, SessionStep
    DEF SessionMove, PreparePlayback, RefusePlayback, CreatePlayback, Open
  <2> QED BY <2>1, <2>2
<1> QED BY Invariance, <1>1, PTL DEF Spec, SettledStaysSettled

\* A job's move is a move of the abstract queue.
LEMMA MoveRefines ==
    ASSUME NEW k \in JobKeys, JobMove(k)
    PROVE  Queue!Move(k)
<1>1. /\ QueuePhase("absent") = "absent"
      /\ QueuePhase("scheduled") = "waiting"
      /\ QueuePhase("retryable") = "waiting"
      /\ QueuePhase("running") = "leased"
      /\ \A x \in Terminal : QueuePhase(x) = "settled"
  BY DEF QueuePhase, Terminal
<1>2. CASE jobs'[k].status = jobs[k].status /\ jobs'[k].attempts = jobs[k].attempts
  BY <1>2 DEF Queue!Move, Queue!Keep
<1>3. CASE jobs[k].status = "absent" /\ jobs'[k].status = "scheduled"
           /\ jobs'[k].attempts = jobs[k].attempts
  BY <1>1, <1>3 DEF Queue!Move, Queue!Enqueue
<1>4. CASE /\ jobs[k].status \in {"scheduled", "retryable", "running"}
           /\ jobs[k].attempts < MaxAttempts
           /\ jobs'[k].status = "running"
           /\ jobs'[k].attempts = jobs[k].attempts + 1
  BY <1>1, <1>4 DEF Queue!Move, Queue!Claim
<1>5. CASE /\ jobs[k].status = "running" /\ jobs'[k].status \in Terminal
           /\ jobs'[k].attempts = jobs[k].attempts
  BY <1>1, <1>5 DEF Queue!Move, Queue!Settle
<1>6. CASE /\ jobs[k].status = "running" /\ jobs'[k].status = "retryable"
           /\ jobs[k].attempts < MaxAttempts
           /\ jobs'[k].attempts = jobs[k].attempts
  BY <1>1, <1>6 DEF Queue!Move, Queue!Retry
<1> QED BY <1>2, <1>3, <1>4, <1>5, <1>6 DEF JobMove

\* The jobs table implements the abstract leased queue.
THEOREM JobsRefineQueue == Spec => JobsAreLeasedQueue
<1>1. Init => Queue!Init
  <2> SUFFICES ASSUME Init PROVE Queue!Init
    OBVIOUS
  <2>1. QueuePhase("absent") = "absent"
    BY DEF QueuePhase, Terminal
  <2>2. \A k \in JobKeys : jobs[k].status = "absent" /\ jobs[k].attempts = 0
    BY DEF Init, NoJob
  <2>3. [k \in JobKeys |-> QueuePhase(jobs[k].status)] = [k \in JobKeys |-> "absent"]
    BY <2>1, <2>2
  <2>4. [k \in JobKeys |-> jobs[k].attempts] = [k \in JobKeys |-> 0]
    BY <2>2
  <2> QED BY <2>3, <2>4 DEF Queue!Init
<1>2. IndInv /\ IndInv' /\ [Next]_vars => [Queue!Next]_Queue!vars
  <2> SUFFICES ASSUME IndInv, IndInv', [Next]_vars PROVE Queue!Next
    OBVIOUS
  <2>1. \A k \in JobKeys : Queue!Move(k)
    BY JobStep, MoveRefines
  <2>2. \A x \in JobStatuses : QueuePhase(x) \in {"absent", "waiting", "leased", "settled"}
    BY DEF QueuePhase, JobStatuses, Terminal
  <2>3. \A k \in JobKeys : jobs'[k].status \in JobStatuses /\ jobs'[k].attempts \in 0..MaxAttempts
    BY DEF IndInv, TypeOK, JobRow
  <2> QED BY <2>1, <2>2, <2>3 DEF Queue!Next, Queue!Phases
<1> QED BY Invariance, <1>1, <1>2, PTL DEF Spec, JobsAreLeasedQueue, Queue!Spec
=============================================================================
