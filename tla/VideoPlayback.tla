---------------------------- MODULE VideoPlayback ----------------------------
(***************************************************************************)
(* Video playback: cameras, sessions, shared streams and the job queue of  *)
(* internal/mediapg, the request and worker control of internal/playback,  *)
(* and the camera mutations of internal/camerapg that invalidate them.     *)
(*                                                                         *)
(* One action is one committed database transaction or one call of the     *)
(* media provider; the code keeps no lock between them.  Transactions that *)
(* abort (ErrUnavailable, a serialization failure) change nothing and are  *)
(* not modelled.  Simplifications:                                         *)
(*  - a stream id is the pair <<camera, source_version>> it is unique for; *)
(*  - time is a choice: a lease or a session may expire at any moment, and *)
(*    a retry may be picked up at any later moment;                        *)
(*  - available_at and id are kept as the order of the due rows they give: *)
(*    a row that becomes due does so behind all that are due already.      *)
(*  - the number of a claim stands for the random lease token it draws:    *)
(*    each claim of a job raises attempts, so the pair is as unique.       *)
(***************************************************************************)
EXTENDS Naturals, FiniteSets

CONSTANTS Cameras,      \* camera rows
          Sessions,     \* playback sessions (fresh UUIDs)
          Workers,      \* goroutines running ProcessMediaJob
          None,         \* no session, no stream, no job
          MaxVersion,   \* bound: source versions of a camera
          MaxAttempts,  \* claims of a job (6 in the code)
          MaxFaults     \* bound: crashes, and leases that outlive their worker

ASSUME VideoAssumption ==
    /\ None \notin Sessions
    /\ MaxVersion \in Nat \ {0}
    /\ MaxAttempts \in Nat \ {0}
    /\ MaxFaults \in Nat

VARIABLES
    cameras,   \* cameras[c]: source_version (0: no row) and enabled
    sessions,  \* sessions[s]: the request and then the video_sessions row
    streams,   \* streams[st]: state of the video_streams row ("none": no row)
    jobs,      \* jobs[k]: the jobs row with idempotency key k
    workers,   \* workers[w]: where ProcessMediaJob is, and its lease
    order,     \* <<j, k>>: the rows j and k are due, and k is not before j
    media,     \* streams the media server is pulling
    faults     \* faults so far

vars == <<cameras, sessions, streams, jobs, order, workers, media, faults>>

Streams == Cameras \X (1..MaxVersion)

SessionStates == {"none", "prepared", "pending", "ready", "failed", "revoked"}
StreamStates == {"none", "pending", "starting", "ready", "stopping", "stopped", "failed"}
Terminal == {"succeeded", "failed", "cancelled"}
JobStatuses == {"absent", "scheduled", "running", "retryable"} \cup Terminal
Results == {"none", "ready", "stopped", "retryable", "skipped", "disabled", "failed", "unknown"}

\* StartJobKey "start:camera:version", the same key with ":session", and the
\* stop key, which is the stream id alone.
StartKey(st) == [kind |-> "start", stream |-> st, salt |-> None]
RestartKey(st, s) == [kind |-> "start", stream |-> st, salt |-> s]
StopKey(st) == [kind |-> "stop", stream |-> st, salt |-> None]
JobKeys == [kind : {"start"}, stream : Streams, salt : Sessions \cup {None}]
           \cup [kind : {"stop"}, stream : Streams, salt : {None}]

NoJob == [status |-> "absent", attempts |-> 0, lease |-> "none", sess |-> None]
NewJob(s) == [status |-> "scheduled", attempts |-> 0, lease |-> "none", sess |-> s]
NoRequest == [state |-> "none", stream |-> None, expired |-> FALSE, authorized |-> TRUE]
Idle == [pc |-> "idle", key |-> None, attempts |-> 0, result |-> "none"]

CameraRow == [version : 0..MaxVersion, enabled : BOOLEAN]
SessionRow == [state : SessionStates, stream : Streams \cup {None},
               expired : BOOLEAN, authorized : BOOLEAN]
JobRow == [status : JobStatuses, attempts : 0..MaxAttempts,
           lease : {"none", "live", "expired"}, sess : Sessions \cup {None}]
WorkerState == [pc : {"idle", "claimed", "call", "finish"}, key : JobKeys \cup {None},
                attempts : 0..MaxAttempts, result : Results]

TypeOK ==
    /\ cameras \in [Cameras -> CameraRow]
    /\ sessions \in [Sessions -> SessionRow]
    /\ streams \in [Streams -> StreamStates]
    /\ jobs \in [JobKeys -> JobRow]
    /\ order \in SUBSET (JobKeys \X JobKeys)
    /\ workers \in [Workers -> WorkerState]
    /\ media \in SUBSET Streams
    /\ faults \in 0..MaxFaults

Init ==
    /\ cameras = [c \in Cameras |-> [version |-> 0, enabled |-> FALSE]]
    /\ sessions = [s \in Sessions |-> NoRequest]
    /\ streams = [st \in Streams |-> "none"]
    /\ jobs = [k \in JobKeys |-> NoJob]
    /\ order = {}
    /\ workers = [w \in Workers |-> Idle]
    /\ media = {}
    /\ faults = 0

-----------------------------------------------------------------------------
(* Rows as the queries see them.                                           *)

\* A video_sessions row exists for the request.
Created(s) == sessions[s].state \notin {"none", "prepared"}

\* state IN ('pending','ready') AND expires_at > clock_timestamp()
Open(s) == sessions[s].state \in {"pending", "ready"}
Live(s) == Open(s) /\ ~sessions[s].expired

OfStream(st) == {s \in Sessions : Created(s) /\ sessions[s].stream = st}
LiveOn(st) == {s \in OfStream(st) : Live(s)}

\* The camera row the request named still has its source version.
Current(st) == cameras[st[1]].version = st[2]

\* Faulty: the source version the request was prepared for is not compared again.
PlayableAnyVersion(s, st) == sessions[s].authorized /\ cameras[st[1]].enabled

\* loadTarget: the target row the actor may use.
Playable(s, st) == /\ sessions[s].authorized
                   /\ cameras[st[1]].enabled
                   /\ Current(st)

\* Faulty: a stream is joined while it is being stopped.
JoinableAlways(st) == streams[st] \in StreamStates

\* ensureStream: a stream that is being stopped takes no new session.
Joinable(st) == streams[st] # "stopping"

\* INSERT INTO jobs ... ON CONFLICT DO NOTHING, for a set of keys.
Inserted(keys, s) == [k \in JobKeys |-> IF k \in keys /\ jobs[k].status = "absent"
                                        THEN NewJob(s) ELSE jobs[k]]

\* available_at <= clock_timestamp(): at once for a new row and a running one,
\* after a delay for one that is to be retried.
Due(k) == <<k, k>> \in order

\* ORDER BY available_at, id once the keys have become due.  Rows of one
\* statement have one available_at and their ids in any order.
Ordered(keys) == order \cup {p \in JobKeys \X keys : Due(p[1]) \/ p[1] = p[2]}
Queued(keys) == Ordered({k \in keys : jobs[k].status = "absent"})
-----------------------------------------------------------------------------
(* Cameras (internal/camera, internal/camerapg).                           *)

\* invalidate: every open session of the camera is revoked and every stream
\* of it that is not stopped gets a stop job whose payload names no session.
Invalidate(c) ==
    /\ sessions' = [s \in Sessions |->
         IF Created(s) /\ sessions[s].stream[1] = c /\ Open(s)
         THEN [sessions[s] EXCEPT !.state = "revoked"] ELSE sessions[s]]
    /\ LET stops == {StopKey(st) : st \in {x \in Streams :
                       x[1] = c /\ streams[x] \notin {"none", "stopped"}}}
       IN jobs' = Inserted(stops, None) /\ order' = Queued(stops)

CreateCamera(c) ==
    /\ cameras[c].version = 0
    /\ cameras' = [cameras EXCEPT ![c] = [version |-> 1, enabled |-> TRUE]]
    /\ UNCHANGED <<sessions, streams, jobs, order, workers, media, faults>>

ReplaceCamera(c) ==
    /\ cameras[c].enabled
    /\ cameras[c].version < MaxVersion
    /\ cameras' = [cameras EXCEPT ![c].version = @ + 1]
    /\ Invalidate(c)
    /\ UNCHANGED <<streams, workers, media, faults>>

\* Disabling twice is allowed and invalidates again.
DisableCamera(c) ==
    /\ cameras[c].version > 0
    /\ cameras' = [cameras EXCEPT ![c].enabled = FALSE]
    /\ Invalidate(c)
    /\ UNCHANGED <<streams, workers, media, faults>>

-----------------------------------------------------------------------------
(* Playback requests (playback.Service over mediapg.Store).                *)

\* PreparePlayback: the target is read in a transaction of its own.
PreparePlayback(s, c) ==
    /\ sessions[s].state = "none"
    /\ cameras[c].enabled
    /\ sessions' = [sessions EXCEPT ![s].state = "prepared",
                                    ![s].stream = <<c, cameras[c].version>>]
    /\ UNCHANGED <<cameras, streams, jobs, order, workers, media, faults>>

\* CreatePlayback: the target is read again, the stream row is made or joined,
\* the session is stored and the start job is written or shared.
CreatePlayback(s) ==
    LET st == sessions[s].stream
        base == jobs[StartKey(st)].status
        joinsReady == base = "succeeded" /\ streams[st] = "ready"
        restarts == base \in Terminal /\ ~joinsReady
        key == IF restarts THEN RestartKey(st, s) ELSE StartKey(st)
    IN
    /\ sessions[s].state = "prepared"
    /\ Playable(s, st)
    /\ Joinable(st)
    /\ sessions' = [sessions EXCEPT ![s].state = IF joinsReady THEN "ready" ELSE "pending"]
    /\ streams' = [streams EXCEPT ![st] = IF @ = "none" \/ restarts THEN "pending" ELSE @]
    /\ jobs' = Inserted({key}, s)
    /\ order' = Queued({key})
    /\ UNCHANGED <<cameras, workers, media, faults>>

\* CreatePlayback refuses (ErrConflict, ErrNotFound); the caller may ask again.
RefusePlayback(s) ==
    LET st == sessions[s].stream IN
    /\ sessions[s].state = "prepared"
    /\ ~Playable(s, st) \/ ~Joinable(st)
    /\ sessions' = [sessions EXCEPT ![s] = NoRequest]
    /\ UNCHANGED <<cameras, streams, jobs, order, workers, media, faults>>

\* StopOwnedPlayback: revoke the session; the last one writes the stop job.
StopPlayback(s) ==
    LET st == sessions[s].stream
        last == LiveOn(st) \ {s} = {}
    IN
    /\ Open(s)
    /\ sessions[s].authorized
    /\ Current(st)
    /\ sessions' = [sessions EXCEPT ![s].state = "revoked"]
    /\ streams' = IF last THEN [streams EXCEPT ![st] = "stopping"] ELSE streams
    /\ IF last THEN jobs' = Inserted({StopKey(st)}, s) /\ order' = Queued({StopKey(st)})
               ELSE UNCHANGED <<jobs, order>>
    /\ UNCHANGED <<cameras, workers, media, faults>>

\* now reaches expires_at: nothing is written, the row merely stops being live.
ExpireSession(s) ==
    /\ Open(s)
    /\ ~sessions[s].expired
    /\ sessions' = [sessions EXCEPT ![s].expired = TRUE]
    /\ UNCHANGED <<cameras, streams, jobs, order, workers, media, faults>>

\* A token, tenant or member version moves on: the session's copy stays old.
RevokeAccess(s) ==
    /\ sessions[s].state \in {"prepared", "pending", "ready"}
    /\ sessions[s].authorized
    /\ sessions' = [sessions EXCEPT ![s].authorized = FALSE]
    /\ UNCHANGED <<cameras, streams, jobs, order, workers, media, faults>>

-----------------------------------------------------------------------------
(* The worker: ProcessMediaJob over ClaimJob, RevalidateJob and FinishJob. *)

\* attempts < 6 AND (scheduled or retryable and due, or running with a dead lease)
Claimable(k) ==
    /\ Due(k)
    /\ jobs[k].attempts < MaxAttempts
    /\ \/ jobs[k].status \in {"scheduled", "retryable"}
       \/ jobs[k].status = "running" /\ jobs[k].lease = "expired"

\* ORDER BY available_at,id FOR UPDATE SKIP LOCKED LIMIT 1: the first claimable
\* row, but for those another worker holds locked in a ClaimJob of its own.
First(w, k) ==
    Cardinality({j \in JobKeys \ {k} : Claimable(j) /\ <<j, k>> \in order})
        <= Cardinality({v \in Workers \ {w} : workers[v].pc = "idle"})

\* decodeJob rejects a payload without a session_id.  ClaimJob then rolls back:
\* the row stays as it is, and where it is in the order.
Decodes(k) == jobs[k].sess # None

\* Faulty: a new claim keeps the token of the one before.
NextClaimSameToken(k) == IF jobs[k].attempts = 0 THEN 1 ELSE jobs[k].attempts

\* attempts = attempts + 1, and a token of its own for the claim.
NextClaim(k) == jobs[k].attempts + 1

ClaimJob(w, k) ==
    /\ workers[w].pc = "idle"
    /\ Claimable(k)
    /\ First(w, k)
    /\ Decodes(k)
    /\ jobs' = [jobs EXCEPT ![k].status = "running", ![k].attempts = NextClaim(k),
                            ![k].lease = "live"]
    /\ streams' = IF k.kind = "start" /\ streams[k.stream] \in {"pending", "failed"}
                  THEN [streams EXCEPT ![k.stream] = "starting"] ELSE streams
    /\ workers' = [workers EXCEPT ![w] = [pc |-> "claimed", key |-> k,
                                          attempts |-> NextClaim(k), result |-> "none"]]
    /\ UNCHANGED <<cameras, sessions, order, media, faults>>

\* status='running' AND lease_owner=$2 AND leased_until > clock_timestamp()
HoldsLease(w) == LET k == workers[w].key IN
    /\ jobs[k].status = "running"
    /\ jobs[k].attempts = workers[w].attempts
    /\ jobs[k].lease = "live"

Goto(w, pc, result) == workers' = [workers EXCEPT ![w].pc = pc, ![w].result = result]

\* An authorized live session wants the stream, the camera is enabled and its
\* source is the stream's.
Wanted(st) == /\ \E s \in LiveOn(st) : sessions[s].authorized
              /\ cameras[st[1]].enabled
              /\ Current(st)

\* RevalidateJob of a start: skipped unless the stream is still wanted.
RevalidateStart(w) ==
    /\ workers[w].pc = "claimed"
    /\ workers[w].key.kind = "start"
    /\ HoldsLease(w)
    /\ IF Wanted(workers[w].key.stream)
       THEN Goto(w, "call", "none") ELSE Goto(w, "finish", "skipped")
    /\ UNCHANGED <<cameras, sessions, streams, jobs, order, media, faults>>

\* RevalidateJob of a stop: fenceStopStream, under the stream's row lock, either
\* finds a live session or closes the stream to new ones.
RevalidateStop(w) ==
    LET st == workers[w].key.stream IN
    /\ workers[w].pc = "claimed"
    /\ workers[w].key.kind = "stop"
    /\ HoldsLease(w)
    /\ IF LiveOn(st) # {}
       THEN Goto(w, "finish", "skipped") /\ UNCHANGED streams
       ELSE Goto(w, "call", "none") /\ streams' = [streams EXCEPT ![st] = "stopping"]
    /\ UNCHANGED <<cameras, sessions, jobs, order, media, faults>>

\* RevalidateJob fails: the lease is lost, or a start that would go on finds no
\* usable license row.  ProcessMediaJob returns and the job keeps its lease.
AbandonJob(w) ==
    /\ workers[w].pc = "claimed"
    /\ ~HoldsLease(w) \/ (workers[w].key.kind = "start" /\ Wanted(workers[w].key.stream))
    /\ workers' = [workers EXCEPT ![w] = Idle]
    /\ UNCHANGED <<cameras, sessions, streams, jobs, order, media, faults>>

Outcomes == {"done", "disabled", "rejected", "unknown", "unreachable"}

\* Faulty: the last attempt asks for one more.
jobResultEndless(outcome, kind, attempts) ==
    CASE outcome = "done" -> IF kind = "start" THEN "ready" ELSE "stopped"
      [] outcome = "unreachable" -> "retryable"
      [] OTHER -> "failed"

\* What an error of the provider (or of the license check that precedes a start)
\* makes of the attempt.
jobResult(outcome, kind, attempts) ==
    CASE outcome = "done" -> IF kind = "start" THEN "ready" ELSE "stopped"
      [] outcome = "disabled" -> "disabled"
      [] outcome = "rejected" -> "failed"
      [] outcome = "unknown" -> "unknown"
      [] outcome = "unreachable" -> IF attempts < MaxAttempts THEN "retryable" ELSE "failed"

\* Provider.Start and Provider.Stop on the media server.  An unknown outcome
\* may or may not have had its effect; any other error had none.
ProviderCall(w, outcome) ==
    LET k == workers[w].key
        effect == IF k.kind = "start" THEN media \cup {k.stream} ELSE media \ {k.stream}
    IN
    /\ workers[w].pc = "call"
    /\ media' \in (IF outcome = "done" THEN {effect}
                   ELSE IF outcome = "unknown" THEN {effect, media} ELSE {media})
    /\ Goto(w, "finish", jobResult(outcome, k.kind, workers[w].attempts))
    /\ UNCHANGED <<cameras, sessions, streams, jobs, order, faults>>

\* Faulty: a result is accepted from a worker that lost its lease.
FinishUnfenced(w) == LET k == workers[w].key IN
    /\ Current(k.stream)
    /\ jobs[k].sess \in OfStream(k.stream)

\* The fences of FinishJob: the lease, the camera's source version, the session
\* of the payload, and for a start a live session that still waits.
FinishAllowed(w) == LET k == workers[w].key IN
    /\ HoldsLease(w)
    /\ Current(k.stream)
    /\ jobs[k].sess \in OfStream(k.stream)
    /\ k.kind = "start" => \E s \in LiveOn(k.stream) : sessions[s].state = "pending"

jobStatus(result) ==
    CASE result \in {"ready", "stopped"} -> "succeeded"
      [] result = "retryable" -> "retryable"
      [] result \in {"skipped", "disabled"} -> "cancelled"
      [] OTHER -> "failed"

\* finishStreamAndSessions: the state the stream is left in ...
StreamAfter(k, result) == LET active == LiveOn(k.stream) # {} IN
    CASE result = "ready" -> "ready"
      [] result = "stopped" \/ (result = "skipped" /\ k.kind = "stop") ->
            IF active THEN "ready" ELSE "stopped"
      [] result = "retryable" -> IF k.kind = "stop" THEN "stopping" ELSE "starting"
      [] OTHER -> "failed"

\* ... and the state each of its sessions is left in.
SessionAfter(s, k, result) ==
    CASE result = "ready" /\ sessions[s].state = "pending" -> "ready"
      [] result \in {"disabled", "failed", "unknown"} /\ sessions[s].state = "pending" -> "failed"
      [] result = "skipped" /\ k.kind = "start" /\ sessions[s].state = "pending" -> "failed"
      [] result = "stopped" /\ LiveOn(k.stream) = {} /\ Open(s) -> "revoked"
      [] OTHER -> sessions[s].state

FinishJob(w) ==
    LET k == workers[w].key
        result == workers[w].result
    IN
    /\ workers[w].pc = "finish"
    /\ FinishAllowed(w)
    /\ jobs' = [jobs EXCEPT ![k].status = jobStatus(result), ![k].lease = "none"]
    /\ order' = {p \in order : k \notin {p[1], p[2]}}
    /\ streams' = [streams EXCEPT ![k.stream] = StreamAfter(k, result)]
    /\ sessions' = [s \in Sessions |->
         IF s \in OfStream(k.stream)
         THEN [sessions[s] EXCEPT !.state = SessionAfter(s, k, result)] ELSE sessions[s]]
    /\ workers' = [workers EXCEPT ![w] = Idle]
    /\ UNCHANGED <<cameras, media, faults>>

\* FinishJob answers ErrLeaseLost and changes nothing.
FinishLost(w) ==
    /\ workers[w].pc = "finish"
    /\ ~FinishAllowed(w)
    /\ workers' = [workers EXCEPT ![w] = Idle]
    /\ UNCHANGED <<cameras, sessions, streams, jobs, order, media, faults>>

\* available_at of a row to be retried comes.
ComeDue(k) ==
    /\ jobs[k].status = "retryable"
    /\ ~Due(k)
    /\ order' = Ordered({k})
    /\ UNCHANGED <<cameras, sessions, streams, jobs, workers, media, faults>>

\* A worker still has the claim the job row records.
Held(k) == \E w \in Workers : /\ workers[w].pc # "idle"
                              /\ workers[w].key = k
                              /\ workers[w].attempts = jobs[k].attempts

\* leased_until passes.  That is certain once nobody works on the job; a worker
\* that is slower than its lease is a fault.
ExpireLease(k) ==
    /\ jobs[k].status = "running"
    /\ jobs[k].lease = "live"
    /\ jobs' = [jobs EXCEPT ![k].lease = "expired"]
    /\ IF Held(k) THEN faults < MaxFaults /\ faults' = faults + 1 ELSE UNCHANGED faults
    /\ UNCHANGED <<cameras, sessions, streams, order, workers, media>>

\* The process dies between two steps (or a commit fails: ErrPersistenceUnknown).
CrashWorker(w) ==
    /\ workers[w].pc # "idle"
    /\ faults < MaxFaults
    /\ faults' = faults + 1
    /\ workers' = [workers EXCEPT ![w] = Idle]
    /\ UNCHANGED <<cameras, sessions, streams, jobs, order, media>>

-----------------------------------------------------------------------------
Worker(w) == \/ \E k \in JobKeys : ClaimJob(w, k)
             \/ RevalidateStart(w)
             \/ RevalidateStop(w)
             \/ AbandonJob(w)
             \/ \E outcome \in Outcomes : ProviderCall(w, outcome)
             \/ FinishJob(w)
             \/ FinishLost(w)

Next ==
    \/ \E c \in Cameras : CreateCamera(c) \/ ReplaceCamera(c) \/ DisableCamera(c)
    \/ \E s \in Sessions, c \in Cameras : PreparePlayback(s, c)
    \/ \E s \in Sessions : \/ CreatePlayback(s) \/ RefusePlayback(s) \/ StopPlayback(s)
                           \/ ExpireSession(s) \/ RevokeAccess(s)
    \/ \E w \in Workers : Worker(w) \/ CrashWorker(w)
    \/ \E k \in JobKeys : ExpireLease(k) \/ ComeDue(k)

Spec == Init /\ [][Next]_vars

\* The worker loops keep polling, and time passes: for a row that waits for its
\* retry, and on a lease nobody works under.  Requests are never obliged.
Fairness ==
    /\ \A w \in Workers : WF_vars(Worker(w))
    /\ \A k \in JobKeys : WF_vars(ComeDue(k))
    /\ \A k \in JobKeys : WF_vars(ExpireLease(k) /\ UNCHANGED faults)

FairSpec == Spec /\ Fairness

-----------------------------------------------------------------------------
(* Safety.                                                                 *)

\* A session that is pending or ready is one of an enabled camera's current
\* source: replacing or disabling a camera revokes the others in the same
\* transaction, and a request prepared before it cannot slip in after it.
LiveSessionIsCurrent ==
    \A s \in Sessions : Open(s) => /\ cameras[sessions[s].stream[1]].enabled
                                   /\ Current(sessions[s].stream)

\* Two workers never hold the same claim of a job, and no worker is ahead of the
\* job row: of all the workers that ever claimed a job, at most the last one can
\* pass the lease check of RevalidateJob and FinishJob.
LeaseExclusive ==
    \A w \in Workers : workers[w].pc # "idle" =>
        /\ workers[w].attempts <= jobs[workers[w].key].attempts
        /\ \A v \in Workers \ {w} :
              workers[v].pc # "idle" /\ workers[v].key = workers[w].key
                => workers[v].attempts # workers[w].attempts

\* The worker is past the fence of a stop and its claim is still the job's.
FencedStop(w) ==
    /\ workers[w].pc \in {"call", "finish"}
    /\ workers[w].key.kind = "stop"
    /\ workers[w].result # "skipped"
    /\ jobs[workers[w].key].status = "running"
    /\ jobs[workers[w].key].attempts = workers[w].attempts

\* Between the fence of a stop and its result nobody can be watching: the stream
\* stays "stopping", so every CreatePlayback on it is refused.
StopNeverCutsLiveSession ==
    \A w \in Workers : FencedStop(w) =>
        /\ streams[workers[w].key.stream] = "stopping"
        /\ LiveOn(workers[w].key.stream) = {}

\* A live ready session is backed by a stream the media server was told to pull
\* and was not told to drop since: "start and stop are serialised on the stream's
\* row, ... so that a stop does not clear a new request".  It does not hold: the
\* row is locked by FinishJob and by the fence of a stop, but not while the
\* provider is called, and a stop may run between the answer to a start and its
\* FinishJob.
ReadySessionHasMedia ==
    \A s \in Sessions : Live(s) /\ sessions[s].state = "ready"
                        => sessions[s].stream \in media

\* A settled job is never touched again and a revoked or failed session never
\* comes back, whatever late worker or repeated request arrives.
SettledStaysSettled ==
    [][/\ \A k \in JobKeys : jobs[k].status \in Terminal => jobs'[k] = jobs[k]
       /\ \A s \in Sessions : sessions[s].state \in {"failed", "revoked"}
                              => sessions'[s].state = sessions[s].state]_vars

\* The jobs table keeps the promises of a leased queue: at most MaxAttempts
\* claims of a job, a retry only while one is left, one final status.
QueuePhase(status) == CASE status = "absent" -> "absent"
                        [] status \in {"scheduled", "retryable"} -> "waiting"
                        [] status = "running" -> "leased"
                        [] status \in Terminal -> "settled"

Queue == INSTANCE LeaseQueue WITH
    Rows <- JobKeys,
    phase <- [k \in JobKeys |-> QueuePhase(jobs[k].status)],
    tries <- [k \in JobKeys |-> jobs[k].attempts],
    Brought <- {}

JobsAreLeasedQueue == Queue!Spec

-----------------------------------------------------------------------------
(* Liveness.                                                               *)

\* The stop a user asked for is taken up by a worker: "DELETE ... writes an
\* idempotent stop intent" and "only the last active session stops the source".
\* It is not: a stop job written by a camera change names no session, decodeJob
\* rejects it, and the row stays first in the order for ever.
StopIntentIsTaken ==
    \A st \in Streams :
        (jobs[StopKey(st)].status = "scheduled" /\ Decodes(StopKey(st)))
            ~> (jobs[StopKey(st)].status # "scheduled")
=============================================================================
