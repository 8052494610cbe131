---------------------------- MODULE MediaProofs ----------------------------
(***************************************************************************)
(* Proofs about the video plane besides its database jobs, for any jobs,   *)
(* workers, sessions, devices, requests and bounds: the in-memory job      *)
(* store, what a viewer is served, and the registrations and catalogs of   *)
(* GB/T 28181 devices.                                                     *)
(***************************************************************************)
EXTENDS MediaJobs, MediaAccess, GbAccess, GbCatalog, FiniteSetTheorems, Functions, TLAPS

-----------------------------------------------------------------------------
\* The in-memory job store.  The inductive invariant adds what a worker knows
\* of its lease at each point, and that leases of earlier claims have run out.

Results == {"succeeded", "failed", "unknown", "retryable", "cancelled"}
Holding == {"held", "revalidate", "call", "answered", "finish"}

HandType == [pc : Holding \cup {"idle", "claim"}, lease : LeaseType, read : Nat,
             result : Results \cup {"none"}]

JobsTypes ==
    /\ task \in [Tasks -> EntryType \cup {Absent}]
    /\ hand \in [Hands -> HandType]
    /\ clock \in 0..MaxClock

\* A worker knows a job exactly while it holds a lease, and has read no clock
\* that has not been.
HandInv == \A w \in Hands :
    /\ hand[w].read <= clock
    /\ hand[w].pc \notin Holding => hand[w].lease = NoLease
    /\ hand[w].pc \in Holding => /\ hand[w].lease.of \in Tasks
                                 /\ task[hand[w].lease.of] # Absent
                                 /\ hand[w].lease.n \in 1..task[hand[w].lease.of].attempts

\* The lease of the last claim is the one in the entry until its worker lets go;
\* every earlier one that a worker still has in hand has run out.
LastClaimInv == \A w \in Hands : hand[w].pc \in Holding =>
    LET t == hand[w].lease.of IN
    /\ hand[w].lease.n = task[t].attempts => task[t].owned /\ task[t].token = hand[w].lease
    /\ hand[w].lease.n # task[t].attempts => hand[w].lease.until <= clock

\* No two workers have the lease of one claim.
TokenInv == \A v, w \in Hands :
    v # w /\ hand[v].pc \in Holding /\ hand[w].pc \in Holding /\ hand[v].lease.of = hand[w].lease.of
       => hand[v].lease.n # hand[w].lease.n

\* What a worker brings to FinishJob.
ResultInv == \A w \in Hands :
    /\ hand[w].pc = "call" => hand[w].result \in {"none", "cancelled"}
    /\ hand[w].pc \in {"answered", "finish"} => hand[w].result \in Results

JobsInd == JobsTypes /\ JobsTypeOK /\ HandInv /\ LastClaimInv /\ TokenInv /\ ResultInv

-----------------------------------------------------------------------------
\* The initial state satisfies the inductive invariant.
LEMMA JobsInitInd == JobsInit => JobsInd
<1> SUFFICES ASSUME JobsInit PROVE JobsInd
  OBVIOUS
<1>1. NoLease \in LeaseType /\ 0 \in 0..MaxClock
  BY JobsAssumption DEF NoLease, LeaseType
<1>2. Resting \in HandType
  BY <1>1 DEF Resting, HandType, Results, Holding
<1>3. JobsTypes /\ JobsTypeOK
  BY <1>1, <1>2 DEF JobsInit, JobsTypes, JobsTypeOK
<1>4. \A w \in Hands : hand[w].pc = "idle" /\ hand[w].lease = NoLease /\ hand[w].read = 0
  BY DEF JobsInit, Resting
<1>5. clock = 0
  BY DEF JobsInit
<1> QED BY <1>3, <1>4, <1>5 DEF JobsInd, HandInv, LastClaimInv, TokenInv, ResultInv, Holding

\* A worker that moves on with the lease it has, or lets go of it, and leaves the
\* entries alone.
LEMMA HandStep ==
    ASSUME JobsInd, NEW w \in Hands, NEW h \in HandType,
           hand' = [hand EXCEPT ![w] = h], task' = task, clock' = clock,
           h.read <= clock,
           \/ h = Resting
           \/ h.lease = hand[w].lease /\ (h.pc \in Holding <=> hand[w].pc \in Holding),
           h.pc = "call" => h.result \in {"none", "cancelled"},
           h.pc \in {"answered", "finish"} => h.result \in Results
    PROVE  JobsInd'
<1>1. hand'[w] = h /\ \A v \in Hands \ {w} : hand'[v] = hand[v]
  BY DEF JobsInd, JobsTypes
<1>2. Resting.pc = "idle" /\ Resting.lease = NoLease /\ Resting.read = 0 /\ Resting.result = "none"
  BY DEF Resting
<1>3. JobsTypes' /\ JobsTypeOK'
  BY DEF JobsInd, JobsTypes, JobsTypeOK
<1>4. HandInv'
  BY <1>1, <1>2 DEF JobsInd, HandInv, Holding
<1>5. LastClaimInv'
  BY <1>1, <1>2 DEF JobsInd, LastClaimInv, Holding
<1>6. TokenInv'
  BY <1>1, <1>2 DEF JobsInd, TokenInv, Holding
<1>7. ResultInv'
  BY <1>1, <1>2 DEF JobsInd, ResultInv
<1> QED BY <1>3, <1>4, <1>5, <1>6, <1>7 DEF JobsInd

\* Resting is a step of that kind.
LEMMA RestStep ==
    ASSUME JobsInd, NEW w \in Hands, Rest(w), task' = task, clock' = clock
    PROVE  JobsInd'
<1>1. Resting \in HandType /\ Resting.read = 0 /\ Resting.pc = "idle"
  BY JobsAssumption DEF NoLease, LeaseType, Resting, HandType, Results, Holding
<1>2. 0 <= clock
  BY JobsAssumption DEF JobsInd, JobsTypes
<1> QED BY <1>1, <1>2, HandStep DEF Rest

\* An entry that is claimed or finished is an entry.
LEMMA ClaimedType ==
    ASSUME NEW x \in EntryType, NEW l \in LeaseType, l.n \in 0..MaxAttempts
    PROVE  [x EXCEPT !.attempts = l.n, !.status = "running", !.leasedUntil = l.until,
                     !.token = l, !.owned = TRUE] \in EntryType
  BY DEF EntryType, Statuses, LeaseType

\* The same of FinishJob.
LEMMA FinishedType ==
    ASSUME NEW x \in EntryType, NEW r \in Results, NEW at \in Nat
    PROVE  [x EXCEPT !.status = r, !.availableAt = at, !.leasedUntil = 0,
                     !.token = NoLease, !.owned = FALSE] \in EntryType
  BY DEF EntryType, Statuses, Results, LeaseType, NoLease

\* The step that claims a job.  Every lease a worker still has of it has run out.
LEMMA ClaimStep ==
    ASSUME JobsInd, NEW w \in Hands, hand[w].pc = "claim", NEW t \in Tasks, Eligible(t, hand[w].read),
           NEW l, l = [of |-> t, n |-> task[t].attempts + 1, until |-> hand[w].read + LeaseTime],
           NEW e, e = [task[t] EXCEPT !.attempts = l.n, !.status = "running", !.leasedUntil = l.until,
                                      !.token = l, !.owned = TRUE],
           NEW h, h = [hand[w] EXCEPT !.pc = "held", !.lease = l, !.read = 0],
           task' = [task EXCEPT ![t] = e], hand' = [hand EXCEPT ![w] = h],
           clock' = clock
    PROVE  JobsInd'
<1>1. task[t] \in EntryType /\ task[t] # Absent /\ task[t].attempts \in Nat
      /\ task[t].attempts < MaxAttempts /\ task[t].leasedUntil \in Nat
  BY JobsAssumption DEF JobsInd, JobsTypes, Eligible, AttemptsLeft, EntryType
<1>2. hand[w] \in HandType /\ hand[w].read \in Nat /\ clock \in Nat
  BY JobsAssumption DEF JobsInd, JobsTypes, HandType
<1>3. l \in LeaseType /\ l.of = t /\ l.n = task[t].attempts + 1 /\ l.until \in Nat
      /\ l.n \in 1..MaxAttempts
  BY <1>1, <1>2, JobsAssumption DEF LeaseType
<1>4. /\ task'[t] \in EntryType /\ task'[t] # Absent
      /\ task'[t].attempts = l.n /\ task'[t].status = "running" /\ task'[t].owned = TRUE
      /\ task'[t].leasedUntil = l.until /\ task'[t].token = l
      /\ \A u \in Tasks \ {t} : task'[u] = task[u]
  <2>0. l.n \in 0..MaxAttempts
    BY <1>3
  <2>1. e \in EntryType
    BY <1>1, <1>3, <2>0 DEF EntryType, Statuses
  <2>2. /\ e.attempts = l.n /\ e.status = "running" /\ e.owned = TRUE
        /\ e.leasedUntil = l.until /\ e.token = l
    BY <1>1 DEF EntryType
  <2>3. task'[t] = e /\ \A u \in Tasks \ {t} : task'[u] = task[u]
    BY DEF JobsInd, JobsTypes
  <2> QED BY <2>1, <2>2, <2>3, JobsAssumption
<1>5. /\ hand'[w] \in HandType
      /\ hand'[w].pc = "held" /\ hand'[w].lease = l /\ hand'[w].read = 0
      /\ \A v \in Hands \ {w} : hand'[v] = hand[v]
  BY <1>2, <1>3 DEF JobsInd, JobsTypes, HandType, Holding
<1>6. JobsTypes'
  <2>1. task' \in [Tasks -> EntryType \cup {Absent}]
    BY <1>4 DEF JobsInd, JobsTypes
  <2>2. hand' \in [Hands -> HandType]
    BY <1>5 DEF JobsInd, JobsTypes
  <2> QED BY <2>1, <2>2 DEF JobsInd, JobsTypes
<1>7. JobsTypeOK'
  <2>1. l = [of |-> t, n |-> l.n, until |-> l.until]
    BY <1>3
  <2> QED BY <1>3, <1>4, <2>1 DEF JobsInd, JobsTypeOK, Statuses
<1>8. HandInv'
  BY <1>1, <1>2, <1>3, <1>4, <1>5 DEF JobsInd, HandInv, Holding, JobsTypes, EntryType
<1>9. ASSUME NEW v \in Hands \ {w}, hand[v].pc \in Holding, hand[v].lease.of = t
      PROVE  hand[v].lease.n \in Nat /\ hand[v].lease.n <= task[t].attempts /\ hand[v].lease.until <= clock
  <2>1. hand[v].lease.n \in 1..task[t].attempts
    BY <1>9 DEF JobsInd, HandInv
  <2>2. CASE hand[v].lease.n = task[t].attempts
    <3>1. task[t].owned /\ task[t].token = hand[v].lease
      BY <1>9, <2>2 DEF JobsInd, LastClaimInv
    <3>2. task[t].status = "running" /\ hand[v].lease.until = task[t].leasedUntil
      <4>1. /\ task[t].status = "running"
            /\ task[t].token = [of |-> t, n |-> task[t].attempts, until |-> task[t].leasedUntil]
        BY <1>1, <3>1 DEF JobsInd, JobsTypeOK
      <4> QED BY <3>1, <4>1
    <3>3. task[t].leasedUntil <= hand[w].read /\ hand[w].read <= clock
      BY <3>2 DEF Eligible, Lapsed, JobsInd, HandInv
    <3> QED BY <1>1, <1>2, <2>1, <3>2, <3>3
  <2>3. CASE hand[v].lease.n # task[t].attempts
    BY <1>1, <1>9, <2>1, <2>3 DEF JobsInd, LastClaimInv
  <2> QED BY <2>2, <2>3
<1>10. LastClaimInv'
  <2> SUFFICES ASSUME NEW v \in Hands, hand'[v].pc \in Holding
               PROVE  /\ hand'[v].lease.n = task'[hand'[v].lease.of].attempts
                           => /\ task'[hand'[v].lease.of].owned
                              /\ task'[hand'[v].lease.of].token = hand'[v].lease
                      /\ hand'[v].lease.n # task'[hand'[v].lease.of].attempts => hand'[v].lease.until <= clock'
    BY DEF LastClaimInv
  <2>1. CASE v = w
    BY <1>3, <1>4, <1>5, <2>1
  <2>2. CASE v # w /\ hand[v].lease.of = t
    <3>1. hand'[v] = hand[v]
      BY <1>5, <2>2
    <3> QED BY <1>1, <1>3, <1>4, <1>9, <2>2, <3>1
  <2>3. CASE v # w /\ hand[v].lease.of # t
    <3>1. hand'[v] = hand[v] /\ hand[v].lease.of \in Tasks
      BY <1>5, <2>3 DEF JobsInd, HandInv
    <3> QED BY <1>4, <2>3, <3>1 DEF JobsInd, LastClaimInv
  <2> QED BY <2>1, <2>2, <2>3
<1>11. TokenInv'
  BY <1>1, <1>3, <1>5, <1>9 DEF JobsInd, TokenInv
<1>12. ResultInv'
  BY <1>5 DEF JobsInd, ResultInv
<1> QED BY <1>6, <1>7, <1>8, <1>10, <1>11, <1>12 DEF JobsInd

\* The step that records a result.  No other worker has the lease of that claim.
LEMMA FinishStep ==
    ASSUME JobsInd, NEW w \in Hands, hand[w].pc = "finish", LeaseGood(w),
           NEW t, t = hand[w].lease.of, NEW at \in Nat,
           NEW e, e = [task[t] EXCEPT !.status = hand[w].result, !.availableAt = at, !.leasedUntil = 0,
                                      !.token = NoLease, !.owned = FALSE],
           task' = [task EXCEPT ![t] = e],
           Rest(w), clock' = clock
    PROVE  JobsInd'
<1>1. /\ hand[w] \in HandType /\ hand[w].result \in Results
      /\ t \in Tasks /\ task[t] \in EntryType /\ task[t] # Absent
      /\ hand[w].pc \in Holding
  BY DEF JobsInd, JobsTypes, HandInv, ResultInv, Holding
<1>2. NoLease \in LeaseType /\ Resting \in HandType /\ Resting.pc = "idle" /\ Resting.lease = NoLease
      /\ Resting.read = 0
  BY JobsAssumption DEF NoLease, LeaseType, Resting, HandType, Results, Holding
<1>3. /\ hand'[w] = Resting
      /\ \A v \in Hands \ {w} : hand'[v] = hand[v]
  BY DEF Rest, JobsInd, JobsTypes
<1>4. /\ task'[t] \in EntryType /\ task'[t] # Absent
      /\ task'[t].attempts = task[t].attempts
      /\ task'[t].status \in Results /\ task'[t].owned = FALSE /\ task'[t].token = NoLease
      /\ \A u \in Tasks \ {t} : task'[u] = task[u]
  <2>1. e \in EntryType
    BY <1>1, <1>2 DEF EntryType, Statuses, Results
  <2>2. /\ e.attempts = task[t].attempts /\ e.status = hand[w].result /\ e.owned = FALSE
        /\ e.token = NoLease
    BY <1>1 DEF EntryType
  <2>3. task'[t] = e /\ \A u \in Tasks \ {t} : task'[u] = task[u]
    BY <1>1 DEF JobsInd, JobsTypes
  <2> QED BY <1>1, <2>1, <2>2, <2>3, JobsAssumption
<1>5. JobsTypes'
  <2>1. task' \in [Tasks -> EntryType \cup {Absent}]
    BY <1>4 DEF JobsInd, JobsTypes
  <2>2. hand' \in [Hands -> HandType]
    BY <1>2, <1>3 DEF JobsInd, JobsTypes, Rest
  <2> QED BY <2>1, <2>2 DEF JobsInd, JobsTypes
<1>6. JobsTypeOK'
  BY <1>1, <1>4 DEF JobsInd, JobsTypeOK, Statuses, Results
<1>7. hand[w].lease.n = task[t].attempts
  <2>1. task[t].owned /\ task[t].token = hand[w].lease
    BY DEF LeaseGood, leaseMatches
  <2>2. task[t].token = [of |-> t, n |-> task[t].attempts, until |-> task[t].leasedUntil]
    BY <1>1, <2>1 DEF JobsInd, JobsTypeOK
  <2> QED BY <2>1, <2>2
<1>8. \A v \in Hands : v # w /\ hand[v].pc \in Holding /\ hand[v].lease.of = t
                         => hand[v].lease.n # task[t].attempts
  BY <1>1, <1>7 DEF JobsInd, TokenInv
<1>9. HandInv'
  <2> SUFFICES ASSUME NEW v \in Hands
               PROVE  /\ hand'[v].read <= clock'
                      /\ hand'[v].pc \notin Holding => hand'[v].lease = NoLease
                      /\ hand'[v].pc \in Holding =>
                            /\ hand'[v].lease.of \in Tasks
                            /\ task'[hand'[v].lease.of] # Absent
                            /\ hand'[v].lease.n \in 1..task'[hand'[v].lease.of].attempts
    BY DEF HandInv
  <2>1. CASE v = w
    BY <1>2, <1>3, <2>1, JobsAssumption DEF JobsInd, JobsTypes, Holding
  <2>2. CASE v # w /\ hand[v].lease.of = t
    BY <1>1, <1>3, <1>4, <2>2 DEF JobsInd, HandInv
  <2>3. CASE v # w /\ hand[v].lease.of # t
    BY <1>3, <1>4, <2>3 DEF JobsInd, HandInv
  <2> QED BY <2>1, <2>2, <2>3
<1>10. LastClaimInv'
  BY <1>1, <1>2, <1>3, <1>4, <1>8 DEF JobsInd, HandInv, LastClaimInv, Holding
<1>11. TokenInv'
  BY <1>2, <1>3 DEF JobsInd, TokenInv, Holding
<1>12. ResultInv'
  BY <1>2, <1>3 DEF JobsInd, ResultInv
<1> QED BY <1>5, <1>6, <1>9, <1>10, <1>11, <1>12 DEF JobsInd

\* Every step preserves the inductive invariant.
LEMMA JobsNextInd == JobsInd /\ [JobsNext]_jobsVars => JobsInd'
<1> SUFFICES ASSUME JobsInd, [JobsNext]_jobsVars PROVE JobsInd'
  OBVIOUS
<1>0. clock \in Nat /\ NoLease \in LeaseType
  BY JobsAssumption DEF JobsInd, JobsTypes, NoLease, LeaseType
<1>1. ASSUME NEW t \in Tasks, Enqueue(t) PROVE JobsInd'
  <2>1. PICK kind \in {"start", "stop"}, n \in Starts, at \in {clock, clock + 1}, auth \in Auths :
          task' = [task EXCEPT ![t] = Entry(t, kind, n, at, auth)]
    BY <1>1 DEF Enqueue
  <2>2. /\ Entry(t, kind, n, at, auth) \in EntryType /\ Entry(t, kind, n, at, auth) # Absent
        /\ Entry(t, kind, n, at, auth).status = "scheduled" /\ Entry(t, kind, n, at, auth).attempts = n
        /\ Entry(t, kind, n, at, auth).owned = FALSE /\ Entry(t, kind, n, at, auth).token = NoLease
    <3>1. at \in Nat /\ n \in 0..MaxAttempts
      BY <1>0, JobsAssumption DEF Starts
    <3>2. Entry(t, kind, n, at, auth) \in EntryType
      BY <1>0, <3>1 DEF Entry, EntryType, Statuses
    <3>3. /\ Entry(t, kind, n, at, auth).status = "scheduled" /\ Entry(t, kind, n, at, auth).attempts = n
          /\ Entry(t, kind, n, at, auth).owned = FALSE /\ Entry(t, kind, n, at, auth).token = NoLease
      BY DEF Entry
    <3> QED BY <3>2, <3>3, JobsAssumption
  <2>3. hand' = hand /\ clock' = clock /\ task[t] = Absent
    BY <1>1 DEF Enqueue
  <2>4. /\ task'[t] = Entry(t, kind, n, at, auth)
        /\ \A u \in Tasks : u # t => task'[u] = task[u]
    BY <2>1 DEF JobsInd, JobsTypes
  <2>5. JobsTypes'
    BY <2>1, <2>2, <2>3 DEF JobsInd, JobsTypes
  <2>6. JobsTypeOK'
    <3>1. n \in 0..MaxAttempts
      BY JobsAssumption DEF Starts
    <3> QED BY <2>2, <2>3, <2>4, <3>1, JobsAssumption DEF JobsInd, JobsTypeOK, Statuses
  <2>7. \A w \in Hands : hand[w].pc \in Holding => hand[w].lease.of \in Tasks /\ hand[w].lease.of # t
    BY <2>3 DEF JobsInd, HandInv
  <2>8. HandInv' /\ LastClaimInv'
    BY <2>3, <2>4, <2>7 DEF JobsInd, HandInv, LastClaimInv
  <2>9. TokenInv' /\ ResultInv'
    BY <2>3 DEF JobsInd, TokenInv, ResultInv
  <2> QED BY <2>5, <2>6, <2>8, <2>9 DEF JobsInd
<1>2. ASSUME NEW t \in Tasks, SetAuthorization(t) PROVE JobsInd'
  <2>1. PICK auth \in Auths : task' = [task EXCEPT ![t].auth = auth]
    BY <1>2 DEF SetAuthorization
  <2>2. task[t] # Absent /\ task[t] \in EntryType /\ hand' = hand /\ clock' = clock
    BY <1>2 DEF SetAuthorization, JobsInd, JobsTypes
  <2>3. [task[t] EXCEPT !.auth = auth] \in EntryType
    BY <2>2 DEF EntryType
  <2>4. JobsTypes'
    BY <2>1, <2>2, <2>3 DEF JobsInd, JobsTypes
  <2>5. \A u \in Tasks :
          /\ task'[u] = Absent <=> task[u] = Absent
          /\ task[u] # Absent => /\ task'[u].status = task[u].status /\ task'[u].attempts = task[u].attempts
                                 /\ task'[u].owned = task[u].owned /\ task'[u].token = task[u].token
                                 /\ task'[u].leasedUntil = task[u].leasedUntil
    <3>1. \A u \in Tasks : u # t => task'[u] = task[u]
      BY <2>1 DEF JobsInd, JobsTypes
    <3>2. task'[t] = [task[t] EXCEPT !.auth = auth]
      BY <2>1 DEF JobsInd, JobsTypes
    <3>3. task'[t] # Absent
      BY <2>3, <3>2, JobsAssumption
    <3>4. /\ task'[t].status = task[t].status /\ task'[t].attempts = task[t].attempts
          /\ task'[t].owned = task[t].owned /\ task'[t].token = task[t].token
          /\ task'[t].leasedUntil = task[t].leasedUntil
      BY <2>2, <3>2 DEF EntryType
    <3> QED BY <2>2, <3>1, <3>3, <3>4
  <2>6. JobsTypeOK'
    BY <2>2, <2>5 DEF JobsInd, JobsTypeOK
  <2>7. HandInv' /\ LastClaimInv' /\ TokenInv' /\ ResultInv'
    BY <2>2, <2>5 DEF JobsInd, HandInv, LastClaimInv, TokenInv, ResultInv
  <2> QED BY <2>4, <2>6, <2>7 DEF JobsInd
<1>3. ASSUME NEW w \in Hands, NEW from, NEW to, ReadClock(w, from, to),
             <<from, to>> \in {<<"idle", "claim">>, <<"held", "revalidate">>, <<"answered", "finish">>}
      PROVE  JobsInd'
  <2> DEFINE h == [hand[w] EXCEPT !.pc = to, !.read = clock]
  <2>1. hand[w] \in HandType /\ hand[w].pc = from
    BY <1>3 DEF ReadClock, JobsInd, JobsTypes
  <2>2. h \in HandType /\ h.pc = to /\ h.read = clock /\ h.lease = hand[w].lease /\ h.result = hand[w].result
    BY <1>0, <1>3, <2>1 DEF HandType, Holding
  <2>3. hand' = [hand EXCEPT ![w] = h] /\ task' = task /\ clock' = clock
    BY <1>3 DEF ReadClock
  <2>4. h.pc \in Holding <=> hand[w].pc \in Holding
    BY <1>3, <2>1, <2>2 DEF Holding
  <2>5. h.pc \in {"answered", "finish"} => hand[w].pc = "answered"
    BY <1>3, <2>1, <2>2
  <2>6. /\ h.pc # "call"
        /\ h.pc \in {"answered", "finish"} => h.result \in Results
    BY <1>3, <2>2, <2>5 DEF JobsInd, ResultInv
  <2>7. h.read <= clock
    BY <1>0, <2>2
  <2> HIDE DEF h
  <2> QED BY <2>2, <2>3, <2>4, <2>6, <2>7, HandStep
<1>4. ASSUME NEW w \in Hands, ClaimJob(w) PROVE JobsInd'
  <2>1. CASE Rest(w) /\ UNCHANGED task
    BY <1>4, <2>1, RestStep DEF ClaimJob
  <2>2. CASE ~(Rest(w) /\ UNCHANGED task)
    <3>1. PICK t \in Tasks :
            /\ Eligible(t, hand[w].read)
            /\ LET l == [of |-> t, n |-> task[t].attempts + 1, until |-> hand[w].read + LeaseTime] IN
               /\ task' = [task EXCEPT ![t] = [task[t] EXCEPT !.attempts = l.n, !.status = "running",
                                       !.leasedUntil = l.until, !.token = l, !.owned = TRUE]]
               /\ hand' = [hand EXCEPT ![w] = [hand[w] EXCEPT !.pc = "held", !.lease = l, !.read = 0]]
      BY <1>4, <2>2 DEF ClaimJob, First, Rest
    <3>2. hand[w].pc = "claim" /\ clock' = clock
      BY <1>4 DEF ClaimJob
    <3> QED BY <3>1, <3>2, ClaimStep
  <2> QED BY <2>1, <2>2
<1>5. ASSUME NEW w \in Hands, RevalidateJob(w) PROVE JobsInd'
  <2>1. CASE Rest(w)
    BY <1>5, <2>1, RestStep DEF RevalidateJob
  <2>2. CASE ~Rest(w)
    <3> DEFINE res == IF Skips(hand[w].lease.of) THEN "cancelled" ELSE "none"
               h == [hand[w] EXCEPT !.pc = "call", !.read = 0, !.result = res]
    <3>1. hand[w] \in HandType /\ hand[w].pc = "revalidate" /\ task' = task /\ clock' = clock
      BY <1>5 DEF RevalidateJob, JobsInd, JobsTypes
    <3>2. hand' = [hand EXCEPT ![w] = h]
      BY <1>5, <2>2 DEF RevalidateJob
    <3>3. h \in HandType /\ h.pc = "call" /\ h.read = 0 /\ h.lease = hand[w].lease
          /\ h.result \in {"none", "cancelled"}
      BY <3>1 DEF HandType, Holding, Results
    <3>4. h.pc \in Holding /\ hand[w].pc \in Holding /\ h.pc \notin {"answered", "finish"}
      BY <3>1, <3>3 DEF Holding
    <3>5. h.read <= clock
      BY <1>0, <3>3
    <3> HIDE DEF h
    <3> QED BY <3>1, <3>2, <3>3, <3>4, <3>5, HandStep
  <2> QED BY <2>1, <2>2
<1>6. ASSUME NEW w \in Hands, Provide(w) PROVE JobsInd'
  <2>1. PICK r \in Results : hand' = [hand EXCEPT ![w] = [hand[w] EXCEPT !.pc = "answered", !.result = r]]
    BY <1>6 DEF Provide, Results
  <2> DEFINE h == [hand[w] EXCEPT !.pc = "answered", !.result = r]
  <2>2. hand[w] \in HandType /\ hand[w].pc = "call" /\ task' = task /\ clock' = clock
    BY <1>6 DEF Provide, JobsInd, JobsTypes
  <2>3. h \in HandType /\ h.pc = "answered" /\ h.read = hand[w].read /\ h.lease = hand[w].lease /\ h.result = r
    BY <2>2 DEF HandType, Holding, Results
  <2>4. hand[w].read <= clock
    BY DEF JobsInd, HandInv
  <2>5. hand' = [hand EXCEPT ![w] = h]
    BY <2>1
  <2> HIDE DEF h
  <2> QED BY <2>1, <2>2, <2>3, <2>4, <2>5, HandStep DEF Holding, Results
<1>7. ASSUME NEW w \in Hands, FinishJob(w) PROVE JobsInd'
  <2>0. hand[w].pc = "finish" /\ Rest(w) /\ clock' = clock
    BY <1>7 DEF FinishJob
  <2>1. CASE task' = task
    BY <2>0, <2>1, RestStep
  <2>2. CASE task' # task
    <3>1. LeaseGood(w) /\ \E at \in {hand[w].read} \cup (IF hand[w].result = "retryable" THEN {hand[w].read + 1} ELSE {}) :
             task' = [task EXCEPT ![hand[w].lease.of] =
                        [task[hand[w].lease.of] EXCEPT !.status = hand[w].result, !.availableAt = at,
                           !.leasedUntil = 0, !.token = NoLease, !.owned = AfterFinish(hand[w].lease.of)]]
      BY <1>7, <2>2 DEF FinishJob
    <3>2. PICK at \in {hand[w].read, hand[w].read + 1} :
             task' = [task EXCEPT ![hand[w].lease.of] =
                        [task[hand[w].lease.of] EXCEPT !.status = hand[w].result, !.availableAt = at,
                           !.leasedUntil = 0, !.token = NoLease, !.owned = FALSE]]
      BY <3>1 DEF AfterFinish
    <3>3. at \in Nat
      BY DEF JobsInd, JobsTypes, HandType
    <3> QED BY <2>0, <3>1, <3>2, <3>3, FinishStep
  <2> QED BY <2>1, <2>2
<1>8. ASSUME NEW w \in Hands, GiveUp(w) PROVE JobsInd'
  BY <1>8, RestStep DEF GiveUp
<1>9. CASE JobsTick
  <2>1. task' = task /\ hand' = hand /\ clock' \in 0..MaxClock /\ clock <= clock' /\ clock' \in Nat
    BY <1>9, JobsAssumption DEF JobsTick, JobsInd, JobsTypes
  <2>2. JobsTypes' /\ JobsTypeOK'
    BY <2>1 DEF JobsInd, JobsTypes, JobsTypeOK
  <2>3. \A w \in Hands : hand[w].read \in Nat /\ hand[w].lease.until \in Nat
    BY DEF JobsInd, JobsTypes, HandType, LeaseType
  <2>4. HandInv' /\ LastClaimInv'
    BY <1>0, <2>1, <2>3 DEF JobsInd, HandInv, LastClaimInv
  <2>5. TokenInv' /\ ResultInv'
    BY <2>1 DEF JobsInd, TokenInv, ResultInv
  <2> QED BY <2>2, <2>4, <2>5 DEF JobsInd
<1>10. CASE UNCHANGED jobsVars
  BY <1>10 DEF jobsVars, JobsInd, JobsTypes, JobsTypeOK, HandInv, LastClaimInv, TokenInv, ResultInv
<1> QED BY <1>1, <1>2, <1>3, <1>4, <1>5, <1>6, <1>7, <1>8, <1>9, <1>10 DEF JobsNext

\* The inductive invariant holds in every reachable state.
LEMMA JobsInductive == JobsSpec => []JobsInd
<1> QED BY JobsInitInd, JobsNextInd, PTL DEF JobsSpec

-----------------------------------------------------------------------------
\* LeasesAgree for any number of workers: a job's owner, token and lease go
\* together, and of the leases the workers have of it at most one still holds.
THEOREM LeasesAgreeAlways == JobsSpec => []LeasesAgree
<1>1. JobsInd => LeasesAgree
  <2> SUFFICES ASSUME JobsInd PROVE LeaseIsExclusive
    BY DEF JobsInd, LeasesAgree
  <2> SUFFICES ASSUME NEW v \in Hands, NEW w \in Hands, v # w,
                      hand[v].lease.of = hand[w].lease.of, hand[v].lease # NoLease
               PROVE  hand[v].lease.until <= clock \/ hand[w].lease.until <= clock
    BY DEF LeaseIsExclusive
  <2>1. hand[v].pc \in Holding /\ hand[v].lease.of \in Tasks
    BY DEF JobsInd, HandInv
  <2>2. hand[w].pc \in Holding
    BY <2>1, JobsAssumption DEF JobsInd, HandInv, NoLease
  <2>3. hand[v].lease.n # hand[w].lease.n
    BY <2>1, <2>2 DEF JobsInd, TokenInv
  <2> QED BY <2>1, <2>2, <2>3 DEF JobsInd, LastClaimInv
<1> QED BY <1>1, JobsInductive, PTL

\* What one step may do to an entry.
EntryMove(t) ==
    \/ /\ task'[t] = Absent <=> task[t] = Absent
       /\ task[t] # Absent => task'[t].status = task[t].status /\ task'[t].attempts = task[t].attempts
    \/ task[t] = Absent /\ task'[t] # Absent /\ task'[t].status = "scheduled" /\ task'[t].attempts \in Starts
    \/ /\ task[t] # Absent /\ task[t].status \in {"scheduled", "retryable", "running"}
       /\ task[t].attempts < MaxAttempts
       /\ task'[t] # Absent /\ task'[t].status = "running" /\ task'[t].attempts = task[t].attempts + 1
    \/ /\ task[t] # Absent /\ task[t].status = "running"
       /\ task'[t] # Absent /\ task'[t].status \in Results /\ task'[t].attempts = task[t].attempts

\* FinishJob changes an entry only with the lease of its last claim.
LEMMA GoodLeaseIsLast ==
    ASSUME JobsInd, NEW w \in Hands, hand[w].pc = "finish", LeaseGood(w)
    PROVE  /\ hand[w].lease.of \in Tasks
           /\ task[hand[w].lease.of] \in EntryType /\ task[hand[w].lease.of] # Absent
           /\ task[hand[w].lease.of].status = "running"
           /\ hand[w].lease.n = task[hand[w].lease.of].attempts
<1> DEFINE t == hand[w].lease.of
<1>1. t \in Tasks /\ task[t] \in EntryType /\ task[t] # Absent
  BY DEF JobsInd, JobsTypes, HandInv, Holding
<1>2. task[t].owned /\ task[t].token = hand[w].lease /\ task[t].status = "running"
  BY DEF LeaseGood, leaseMatches
<1>3. task[t].token = [of |-> t, n |-> task[t].attempts, until |-> task[t].leasedUntil]
  BY <1>1, <1>2 DEF JobsInd, JobsTypeOK
<1> QED BY <1>1, <1>2, <1>3

\* The step of the specification an entry changes by.
LEMMA EntryStep ==
    ASSUME JobsInd, JobsInd', [JobsNext]_jobsVars, NEW t \in Tasks
    PROVE  EntryMove(t)
<1>1. ASSUME NEW u \in Tasks, Enqueue(u) PROVE EntryMove(t)
  <2>1. PICK kind \in {"start", "stop"}, n \in Starts, at \in {clock, clock + 1}, auth \in Auths :
          task' = [task EXCEPT ![u] = Entry(u, kind, n, at, auth)]
    BY <1>1 DEF Enqueue
  <2>2. task[u] = Absent /\ Entry(u, kind, n, at, auth).status = "scheduled" /\ Entry(u, kind, n, at, auth).attempts = n
    BY <1>1 DEF Enqueue, Entry
  <2>3. task'[t] = IF t = u THEN Entry(u, kind, n, at, auth) ELSE task[t]
    BY <2>1 DEF JobsInd, JobsTypes
  <2> QED BY <2>2, <2>3 DEF EntryMove
<1>2. ASSUME NEW u \in Tasks, SetAuthorization(u) PROVE EntryMove(t)
  <2>1. PICK auth \in Auths : task' = [task EXCEPT ![u].auth = auth]
    BY <1>2 DEF SetAuthorization
  <2>2. task[u] \in EntryType /\ task[u] # Absent
    BY <1>2 DEF SetAuthorization, JobsInd, JobsTypes
  <2>3. task'[t] = IF t = u THEN [task[u] EXCEPT !.auth = auth] ELSE task[t]
    BY <2>1 DEF JobsInd, JobsTypes
  <2>4. /\ [task[u] EXCEPT !.auth = auth] \in EntryType
        /\ [task[u] EXCEPT !.auth = auth].status = task[u].status
        /\ [task[u] EXCEPT !.auth = auth].attempts = task[u].attempts
    BY <2>2 DEF EntryType
  <2> QED BY <2>2, <2>3, <2>4, JobsAssumption DEF EntryMove
<1>3. ASSUME NEW w \in Hands, ClaimJob(w) PROVE EntryMove(t)
  <2>1. CASE task' = task
    BY <2>1 DEF EntryMove
  <2>2. CASE task' # task
    <3>1. PICK u, l :
            /\ u \in Tasks
            /\ Eligible(u, hand[w].read)
            /\ l = [of |-> u, n |-> task[u].attempts + 1, until |-> hand[w].read + LeaseTime]
            /\ task' = [task EXCEPT ![u] = [task[u] EXCEPT !.attempts = l.n, !.status = "running",
                                       !.leasedUntil = l.until, !.token = l, !.owned = TRUE]]
      <4>1. PICK u \in Tasks :
              LET l == [of |-> u, n |-> task[u].attempts + 1, until |-> hand[w].read + LeaseTime] IN
              /\ Eligible(u, hand[w].read)
              /\ task' = [task EXCEPT ![u] = [task[u] EXCEPT !.attempts = l.n, !.status = "running",
                                       !.leasedUntil = l.until, !.token = l, !.owned = TRUE]]
        BY <1>3, <2>2 DEF ClaimJob, First
      <4> QED BY <4>1
    <3> DEFINE e == [task[u] EXCEPT !.attempts = l.n, !.status = "running",
                                    !.leasedUntil = l.until, !.token = l, !.owned = TRUE]
    <3>2. /\ task[u] \in EntryType /\ task[u] # Absent /\ task[u].attempts < MaxAttempts
          /\ task[u].status \in {"scheduled", "retryable", "running"}
      BY <3>1 DEF Eligible, AttemptsLeft, JobsInd, JobsTypes
    <3>3. e.attempts = task[u].attempts + 1 /\ e.status = "running"
      BY <3>1, <3>2 DEF EntryType
    <3>4. task'[t] = IF t = u THEN e ELSE task[t]
      BY <3>1 DEF JobsInd, JobsTypes
    <3>5. e # Absent
      <4>1. l \in LeaseType /\ l.n \in 0..MaxAttempts
        BY <3>1, <3>2, JobsAssumption DEF JobsInd, JobsTypes, HandType, LeaseType, EntryType
      <4> QED BY <3>2, <4>1, ClaimedType, JobsAssumption
    <3> HIDE DEF e
    <3> QED BY <3>2, <3>3, <3>4, <3>5 DEF EntryMove
  <2> QED BY <2>1, <2>2
<1>4. ASSUME NEW w \in Hands, FinishJob(w) PROVE EntryMove(t)
  <2>1. CASE task' = task
    BY <2>1 DEF EntryMove
  <2>2. CASE task' # task
    <3> DEFINE u == hand[w].lease.of
    <3>1. LeaseGood(w) /\ hand[w].pc = "finish"
      BY <1>4, <2>2 DEF FinishJob
    <3>2. PICK at \in {hand[w].read, hand[w].read + 1} : task' = [task EXCEPT ![u] = [task[u] EXCEPT !.status = hand[w].result, !.availableAt = at,
                           !.leasedUntil = 0, !.token = NoLease, !.owned = FALSE]]
      BY <1>4, <2>2 DEF FinishJob, AfterFinish
    <3> DEFINE e == [task[u] EXCEPT !.status = hand[w].result, !.availableAt = at,
                                    !.leasedUntil = 0, !.token = NoLease, !.owned = FALSE]
    <3>3. /\ u \in Tasks /\ task[u] \in EntryType /\ task[u] # Absent
          /\ task[u].status = "running" /\ hand[w].lease.n = task[u].attempts
      BY <3>1, GoodLeaseIsLast
    <3>4. e.status = hand[w].result /\ e.attempts = task[u].attempts /\ e.kind = task[u].kind
      BY <3>3 DEF EntryType
    <3>5. task'[t] = IF t = u THEN e ELSE task[t]
      BY <3>2 DEF JobsInd, JobsTypes
    <3>6. hand[w].result \in Results
      BY <3>1 DEF JobsInd, ResultInv
    <3>7. e # Absent
      <4>1. at \in Nat
        BY <3>2 DEF JobsInd, JobsTypes, HandType
      <4>2. ASSUME NEW x \in EntryType, NEW r \in Results
            PROVE  [x EXCEPT !.status = r, !.availableAt = at, !.leasedUntil = 0,
                             !.token = NoLease, !.owned = FALSE] \in EntryType
        BY <4>1, FinishedType
      <4>3. e \in EntryType
        BY <3>3, <3>6, <4>2
      <4> QED BY <4>3, JobsAssumption
    <3> HIDE DEF e
    <3> QED BY <3>3, <3>4, <3>5, <3>6, <3>7 DEF EntryMove
  <2> QED BY <2>1, <2>2
<1>5. CASE task' = task
  BY <1>5 DEF EntryMove
<1> QED BY <1>1, <1>2, <1>3, <1>4, <1>5
        DEF JobsNext, ReadClock, RevalidateJob, Provide, GiveUp, JobsTick, jobsVars

\* An entry's step is a move of the abstract queue.
LEMMA EntryMoveRefines ==
    ASSUME JobsInd, JobsInd', NEW t \in Tasks, EntryMove(t)
    PROVE  MemoryQueue!Move(t)
<1>1. PICK a, b : a = Phase(t) /\ b = Phase(t)'
  OBVIOUS
<1>2. /\ a = IF task[t] = Absent THEN "absent"
             ELSE IF task[t].status = "running" THEN "leased"
             ELSE IF task[t].status \in {"scheduled", "retryable"} /\ task[t].attempts < MaxAttempts
               THEN "waiting" ELSE "settled"
      /\ b = IF task'[t] = Absent THEN "absent"
             ELSE IF task'[t].status = "running" THEN "leased"
             ELSE IF task'[t].status \in {"scheduled", "retryable"} /\ task'[t].attempts < MaxAttempts
               THEN "waiting" ELSE "settled"
  BY <1>1 DEF Phase, AttemptsLeft
<1>3. PICK m, n : /\ m = (IF task[t] = Absent THEN 0 ELSE task[t].attempts)
                  /\ n = (IF task'[t] = Absent THEN 0 ELSE task'[t].attempts)
  OBVIOUS
<1>4. /\ task[t] # Absent => task[t].attempts \in 0..MaxAttempts
      /\ task'[t] # Absent => task'[t].attempts \in 0..MaxAttempts
  BY DEF JobsInd, JobsTypeOK
<1>a. MaxAttempts \in Nat /\ \A x \in Starts : x \in Nat /\ x < MaxAttempts
  BY JobsAssumption DEF Starts
<1>5. \/ a = "absent" /\ b = "waiting" /\ n \in Starts
      \/ a \in {"waiting", "leased"} /\ m < MaxAttempts /\ b = "leased" /\ n = m + 1
      \/ a = "leased" /\ m < MaxAttempts /\ b = "waiting" /\ n = m
      \/ a = "leased" /\ b = "settled" /\ n = m
      \/ a = b /\ n = m
  BY <1>2, <1>3, <1>4, <1>a DEF EntryMove, Results
<1> QED BY <1>1, <1>3, <1>5 DEF MemoryQueue!Move, MemoryQueue!Keep, MemoryQueue!Enqueue,
           MemoryQueue!Claim, MemoryQueue!Retry, MemoryQueue!Settle

\* The in-memory store implements the abstract leased queue, for entries that come
\* with any number of attempts and for workers that ask for a retry whenever they
\* like, and takes a result from the worker of the last claim only.
THEOREM MemoryRefinesQueue == JobsSpec => MemoryIsLeasedQueue
<1>1. JobsInit => MemoryQueue!Init
  BY DEF JobsInit, Phase, MemoryQueue!Init
<1>2. JobsInd /\ JobsInd' /\ [JobsNext]_jobsVars => [MemoryQueue!Next]_MemoryQueue!vars
  <2> SUFFICES ASSUME JobsInd, JobsInd', [JobsNext]_jobsVars PROVE MemoryQueue!Next
    OBVIOUS
  <2>1. \A t \in Tasks : MemoryQueue!Move(t)
    BY EntryStep, EntryMoveRefines
  <2>2. \A t \in Tasks : Phase(t)' \in {"absent", "waiting", "leased", "settled"}
    BY DEF Phase
  <2>3. \A t \in Tasks : (IF task'[t] = Absent THEN 0 ELSE task'[t].attempts) \in 0..MaxAttempts
    <3>1. 0 \in 0..MaxAttempts
      BY JobsAssumption
    <3>2. \A t \in Tasks : task'[t] # Absent => task'[t].attempts \in 0..MaxAttempts
      BY DEF JobsInd, JobsTypeOK
    <3> QED BY <3>1, <3>2
  <2> QED BY <2>1, <2>2, <2>3 DEF MemoryQueue!Next, MemoryQueue!Phases
<1>3. JobsInd /\ [JobsNext]_jobsVars =>
        [\A w \in Hands : hand[w].pc = "finish" /\ task' # task /\ hand'[w] = Resting =>
           hand[w].lease.n = task[hand[w].lease.of].attempts]_jobsVars
  <2> SUFFICES ASSUME JobsInd, [JobsNext]_jobsVars, NEW w \in Hands,
                      hand[w].pc = "finish", task' # task, hand'[w] = Resting
               PROVE  hand[w].lease.n = task[hand[w].lease.of].attempts
    OBVIOUS
  <2>1. hand'[w] # hand[w]
    <3>1. Resting.pc = "idle"
      BY DEF Resting
    <3> QED BY <3>1
  <2>2. FinishJob(w)
    <3>1. ASSUME NEW v \in Hands, ClaimJob(v) PROVE FALSE
      <4>1. hand[v].pc = "claim" /\ hand'[w] = hand[w]
        BY <3>1 DEF ClaimJob, JobsInd, JobsTypes
      <4> QED BY <2>1, <4>1
    <3>2. ASSUME NEW v \in Hands, FinishJob(v) PROVE v = w
      BY <2>1, <3>2 DEF FinishJob, Rest, JobsInd, JobsTypes
    <3> QED BY <2>1, <3>1, <3>2 DEF JobsNext, Enqueue, SetAuthorization, ReadClock, RevalidateJob, Provide,
                                    GiveUp, JobsTick, jobsVars
  <2>3. LeaseGood(w)
    BY <2>2 DEF FinishJob
  <2> QED BY <2>3, GoodLeaseIsLast
<1> QED BY JobsInductive, <1>1, <1>2, <1>3, PTL
        DEF JobsSpec, MemoryIsLeasedQueue, ResultOfLastClaim, MemoryQueue!Spec

-----------------------------------------------------------------------------
\* What a viewer is served.  The inductive invariant says that an open session's
\* camera is current, and what each request may conclude from where it is.

ViewStates == {"none", "pending", "ready", "revoked", "failed"}
ViewType == [state : ViewStates, version : 0..MaxVersion, over : BOOLEAN, valid : BOOLEAN]
ClipType == [view : Views, path : [of : 0..MaxVersion]]
AskType == [pc : {"load", "authorize", "manifest", "mappings", "resolve", "segment", "served"},
            view : Views, clip : SUBSET ClipType, state : ViewStates, got : 0..MaxVersion, ok : BOOLEAN]

\* Replacing or disabling a camera ends its sessions with it.
RowsInv ==
    /\ MediaTypeOK
    /\ clips \subseteq ClipType
    /\ \A v \in Views : view[v].state \in {"pending", "ready"} => SourceCurrent(view[v], lens)

\* What a request in progress may conclude.  The state it has read is final but for
\* the end of the session, so a session that is still open when its manifest is
\* written was open, and current, when its rights were looked at.
AskOK(h) ==
    /\ h \in AskType
    /\ view[h.view].state # "none"
    /\ Allowed(view[h.view], lens, reach) => h.ok
    /\ h.clip \subseteq clips /\ \A x, y \in h.clip : x = y
    /\ h.state = "ready" => view[h.view].state \in {"ready", "revoked"}
    /\ h.pc \in {"manifest", "mappings"} => h.clip = {} /\ (IsOpen(view[h.view]) => h.ok)
    /\ h.pc \in {"manifest", "mappings", "resolve"} => h.state = "ready"
    /\ h.pc \in {"segment", "served"} => h.ok /\ \A c \in h.clip : c.view = h.view
    /\ h.pc \in {"mappings", "segment", "served"} => h.got = view[h.view].version

AsksInv ==
    /\ ask \in [Asks -> AskType \cup {NoAsk}]
    /\ \A a \in Asks : ask[a] = NoAsk \/ AskOK(ask[a])

MediaInd == RowsInv /\ AsksInv

\* The initial state satisfies the inductive invariant.
LEMMA MediaInitInd == MediaInit => MediaInd
<1> SUFFICES ASSUME MediaInit PROVE MediaInd
  OBVIOUS
<1>1. NoView \in ViewType /\ 1 \in 1..MaxVersion /\ NoView.state = "none"
  BY MediaAssumption DEF NoView, ViewType, ViewStates
<1>2. RowsInv
  BY <1>1 DEF MediaInit, RowsInv, MediaTypeOK, ViewType, ViewStates
<1>3. AsksInv
  BY DEF MediaInit, AsksInv
<1> QED BY <1>2, <1>3 DEF MediaInd

\* What holds of a request's record holds of the request that has become it.
LEMMA PrimedAsk ==
    ASSUME NEW b \in Asks, NEW g, g = ask'[b], g = NoAsk \/ AskOK(g)'
    PROVE  (ask[b] = NoAsk \/ AskOK(ask[b]))'
  BY DEF AskOK, Allowed, IsOpen, SourceCurrent, Permitted

\* A request's own step: the rows stay, but for new segments.
LEMMA AskStep ==
    ASSUME MediaInd, NEW a \in Asks, NEW h, h = NoAsk \/ AskOK(h),
           ask' = [ask EXCEPT ![a] = h], UNCHANGED <<view, lens, reach>>,
           clips \subseteq clips', RowsInv'
    PROVE  MediaInd'
<1>1. ask' \in [Asks -> AskType \cup {NoAsk}]
  BY DEF MediaInd, AsksInv, AskOK
<1>2. ASSUME NEW g, AskOK(g) PROVE AskOK(g)'
  BY <1>2 DEF AskOK, Allowed, IsOpen, SourceCurrent, Permitted
<1>3. ASSUME NEW b \in Asks PROVE (ask[b] = NoAsk \/ AskOK(ask[b]))'
  <2>1. PICK g : g = ask'[b]
    OBVIOUS
  <2>2. g = NoAsk \/ AskOK(g)
    BY <2>1 DEF MediaInd, AsksInv
  <2>3. g = NoAsk \/ AskOK(g)'
    BY <1>2, <2>2
  <2> QED BY <2>1, <2>3, PrimedAsk
<1> QED BY <1>1, <1>3 DEF MediaInd, AsksInv

\* The same with no new segments.
LEMMA AskOnly ==
    ASSUME MediaInd, NEW a \in Asks, NEW h, h = NoAsk \/ AskOK(h),
           ask' = [ask EXCEPT ![a] = h], UNCHANGED mediaRows
    PROVE  MediaInd'
<1>1. UNCHANGED <<view, lens, reach, clips>>
  BY DEF mediaRows
<1>2. RowsInv'
  BY <1>1 DEF MediaInd, RowsInv, MediaTypeOK, SourceCurrent
<1> QED BY <1>1, <1>2, AskStep

\* What a step of the environment may do to a session that exists.
Evolves == \A v \in Views : view[v].state # "none" =>
    /\ view'[v].state # "none"
    /\ view'[v].version = view[v].version
    /\ IsOpen(view'[v]) => IsOpen(view[v])
    /\ view[v].state \in {"ready", "revoked"} => view'[v].state \in {"ready", "revoked"}

\* A step of the environment, which every request takes notice of.
LEMMA NoticeStep ==
    ASSUME MediaInd, Evolves, Notice, clips' = clips, RowsInv'
    PROVE  MediaInd'
<1>1. ASSUME NEW a \in Asks, ask[a] # NoAsk PROVE ask'[a] \in AskType /\ AskOK(ask[a])'
  <2>0. PICK h : h = ask[a]
    OBVIOUS
  <2>1. h \in AskType /\ AskOK(h)
    BY <1>1, <2>0 DEF MediaInd, AsksInv, AskOK
  <2>2. PICK g : g = ask'[a]
    OBVIOUS
  <2>3. /\ g \in AskType
        /\ g.pc = h.pc /\ g.view = h.view /\ g.clip = h.clip /\ g.state = h.state /\ g.got = h.got
        /\ g.ok = (h.ok \/ Allowed(view'[h.view], lens', reach'))
    <3>1. g = [h EXCEPT !.ok = h.ok \/ Allowed(view'[h.view], lens', reach')]
      BY <1>1, <2>0, <2>2 DEF Notice
    <3>2. (h.ok \/ Allowed(view'[h.view], lens', reach')) \in BOOLEAN
      OBVIOUS
    <3>3. PICK k \in BOOLEAN : k = (h.ok \/ Allowed(view'[h.view], lens', reach'))
      BY <3>2
    <3> QED BY <2>1, <3>1, <3>3 DEF AskType
  <2>4. h.view \in Views /\ view[h.view].state # "none" /\ h.ok \in BOOLEAN
    BY <2>1 DEF AskOK, AskType
  <2>5. /\ view'[h.view].state # "none"
        /\ view'[h.view].version = view[h.view].version
        /\ IsOpen(view'[h.view]) => IsOpen(view[h.view])
        /\ view[h.view].state \in {"ready", "revoked"} => view'[h.view].state \in {"ready", "revoked"}
    BY <2>4 DEF Evolves
  <2>6. AskOK(g)'
    BY <2>1, <2>3, <2>4, <2>5 DEF AskOK, IsOpen
  <2> QED BY <2>2, <2>3, <2>6 DEF AskOK, Allowed, IsOpen, SourceCurrent, Permitted
<1>2. ASSUME NEW a \in Asks, ask[a] = NoAsk PROVE ask'[a] = NoAsk
  BY <1>2 DEF Notice
<1>3. ask' \in [Asks -> AskType \cup {NoAsk}]
  BY <1>1, <1>2 DEF Notice
<1> QED BY <1>1, <1>2, <1>3 DEF MediaInd, AsksInv

\* A request's step preserves the inductive invariant.
LEMMA AskInd ==
    ASSUME MediaInd, NEW a \in Asks,
           \/ ServeHTTP(a) \/ LoadSession(a) \/ AuthorizeMedia(a) \/ FetchManifest(a)
           \/ CreateSegmentMappings(a) \/ ResolveSegmentMapping(a) \/ FetchSegment(a) \/ EndAsk(a)
    PROVE  MediaInd'
<1>a. NoAsk.pc = "none"
  BY DEF NoAsk
<1>b. /\ ask[a] # NoAsk => AskOK(ask[a])
      /\ RowsInv
  BY DEF MediaInd, AsksInv
<1>1. CASE Leave(a)
  BY <1>1, AskOnly DEF Leave
<1>2. CASE ServeHTTP(a)
  <2>1. PICK v \in Views, c \in {{}} \cup {{x} : x \in clips} :
          /\ view[v].state # "none"
          /\ ask' = [ask EXCEPT ![a] = [pc |-> "load", view |-> v, clip |-> c, state |-> "none", got |-> 0,
                                      ok |-> Allowed(view[v], lens, reach)]]
    BY <1>2 DEF ServeHTTP
  <2> DEFINE h == [pc |-> "load", view |-> v, clip |-> c, state |-> "none", got |-> 0,
                   ok |-> Allowed(view[v], lens, reach)]
  <2>2. c \subseteq clips /\ c \in SUBSET ClipType /\ \A x, y \in c : x = y
    BY <1>b DEF RowsInv
  <2>3. Allowed(view[v], lens, reach) \in BOOLEAN
    BY DEF Allowed
  <2>4. h \in AskType
    BY <2>2, <2>3, MediaAssumption DEF AskType, ViewStates
  <2>5. AskOK(h)
    BY <2>1, <2>2, <2>4 DEF AskOK
  <2>6. UNCHANGED mediaRows
    BY <1>2 DEF ServeHTTP
  <2> QED BY <2>1, <2>5, <2>6, AskOnly
<1>3. CASE LoadSession(a) /\ ~Leave(a)
  <2> DEFINE h == [ask[a] EXCEPT !.pc = "authorize", !.state = view[ask[a].view].state]
  <2>1. ask' = [ask EXCEPT ![a] = h] /\ UNCHANGED mediaRows /\ ask[a].pc = "load"
    BY <1>3 DEF LoadSession
  <2>2. AskOK(ask[a]) /\ ask[a] \in AskType /\ view[ask[a].view].state \in ViewStates
    BY <1>a, <1>b, <2>1 DEF AskOK, RowsInv, MediaTypeOK, AskType, ViewStates
  <2>3. /\ h \in AskType /\ h.pc = "authorize" /\ h.view = ask[a].view /\ h.clip = ask[a].clip
        /\ h.state = view[ask[a].view].state /\ h.ok = ask[a].ok
    BY <2>2 DEF AskType
  <2>4. AskOK(h)
    BY <2>2, <2>3 DEF AskOK
  <2> QED BY <2>1, <2>4, AskOnly
<1>4. CASE AuthorizeMedia(a) /\ ~Leave(a)
  <2> DEFINE pc == IF ask[a].clip = {} THEN "manifest" ELSE "resolve"
             h == [ask[a] EXCEPT !.pc = pc]
  <2>1. /\ ask' = [ask EXCEPT ![a] = h] /\ UNCHANGED mediaRows /\ ask[a].pc = "authorize"
        /\ Permitted(view[ask[a].view], reach) /\ ask[a].state = "ready"
    BY <1>4 DEF AuthorizeMedia, GoOn, MayWatch
  <2>2. AskOK(ask[a]) /\ ask[a] \in AskType
    BY <1>a, <1>b, <2>1 DEF AskOK
  <2>3. /\ h \in AskType /\ h.pc = pc /\ h.view = ask[a].view /\ h.clip = ask[a].clip
        /\ h.state = "ready" /\ h.ok = ask[a].ok
    BY <2>1, <2>2 DEF AskType
  <2>4. IsOpen(view[ask[a].view]) => ask[a].ok
    <3>1. view[ask[a].view].state \in {"ready", "revoked"} /\ ask[a].view \in Views
      BY <2>1, <2>2 DEF AskOK, AskType
    <3>2. IsOpen(view[ask[a].view]) => Allowed(view[ask[a].view], lens, reach)
      BY <1>b, <2>1, <3>1 DEF RowsInv, IsOpen, Allowed
    <3> QED BY <2>2, <3>2 DEF AskOK
  <2>5. AskOK(h)
    BY <2>1, <2>2, <2>3, <2>4 DEF AskOK
  <2> QED BY <2>1, <2>5, AskOnly
<1>5. CASE FetchManifest(a)
  <2> DEFINE h == [ask[a] EXCEPT !.pc = "mappings", !.got = view[ask[a].view].version]
  <2>1. ask' = [ask EXCEPT ![a] = h] /\ UNCHANGED mediaRows /\ ask[a].pc = "manifest"
    BY <1>5 DEF FetchManifest
  <2>2. AskOK(ask[a]) /\ ask[a] \in AskType /\ view[ask[a].view].version \in 0..MaxVersion
    BY <1>a, <1>b, <2>1 DEF AskOK, RowsInv, MediaTypeOK, AskType
  <2>3. /\ h \in AskType /\ h.pc = "mappings" /\ h.view = ask[a].view /\ h.clip = ask[a].clip
        /\ h.state = ask[a].state /\ h.ok = ask[a].ok /\ h.got = view[ask[a].view].version
    BY <2>2 DEF AskType
  <2>4. AskOK(h)
    BY <2>1, <2>2, <2>3 DEF AskOK
  <2> QED BY <2>1, <2>4, AskOnly
<1>6. CASE CreateSegmentMappings(a) /\ ~Leave(a)
  <2> DEFINE h == [ask[a] EXCEPT !.pc = "served"]
             v == ask[a].view
             c == [view |-> v, path |-> Path(ask[a].got)]
  <2>1. /\ ask' = [ask EXCEPT ![a] = h] /\ UNCHANGED <<view, lens, reach>> /\ ask[a].pc = "mappings"
        /\ clips' = clips \cup {c} /\ IsOpen(view[v])
    BY <1>6 DEF CreateSegmentMappings, StillOpen
  <2>2. AskOK(ask[a]) /\ ask[a] \in AskType
    BY <1>a, <1>b, <2>1 DEF AskOK
  <2>3. /\ v \in Views /\ ask[a].got \in 0..MaxVersion /\ ask[a].got = view[v].version
        /\ view[v].state \in {"ready", "revoked"} /\ ask[a].ok /\ ask[a].clip = {}
    BY <2>1, <2>2 DEF AskOK, AskType
  <2>4. /\ h \in AskType /\ h.pc = "served" /\ h.view = ask[a].view /\ h.clip = ask[a].clip
        /\ h.state = ask[a].state /\ h.ok = ask[a].ok /\ h.got = ask[a].got
    BY <2>2 DEF AskType
  <2>5. AskOK(h)
    BY <2>1, <2>2, <2>3, <2>4 DEF AskOK
  <2>6. c \in ClipType /\ c.view = v /\ c.path = Path(view[v].version)
    BY <2>3 DEF ClipType, Path
  <2> HIDE DEF c, h, v
  <2>7. RowsInv'
    BY <1>b, <2>1, <2>3, <2>6 DEF RowsInv, MediaTypeOK, SourceCurrent
  <2> QED BY <2>1, <2>5, <2>7, AskStep
<1>7. CASE ResolveSegmentMapping(a) /\ ~Leave(a)
  <2>1. PICK c \in ask[a].clip :
          /\ OfSession(a, c) /\ IsOpen(view[c.view]) /\ SourceCurrent(view[c.view], lens)
          /\ Permitted(view[c.view], reach)
          /\ ask' = [ask EXCEPT ![a] = [ask[a] EXCEPT !.pc = "segment", !.got = c.path.of]]
    BY <1>7 DEF ResolveSegmentMapping
  <2> DEFINE h == [ask[a] EXCEPT !.pc = "segment", !.got = c.path.of]
  <2>2. ask[a].pc = "resolve" /\ UNCHANGED mediaRows
    BY <1>7 DEF ResolveSegmentMapping, Leave
  <2>3. AskOK(ask[a]) /\ ask[a] \in AskType /\ c.view = ask[a].view
    BY <1>a, <1>b, <2>1, <2>2 DEF AskOK, OfSession
  <2>4. c \in clips /\ c \in ClipType /\ c.path = Path(view[ask[a].view].version)
    BY <1>b, <2>1, <2>3 DEF AskOK, RowsInv, MediaTypeOK
  <2>5. c.path.of = view[ask[a].view].version /\ c.path.of \in 0..MaxVersion
    BY <2>4 DEF Path, ClipType
  <2>6. /\ h \in AskType /\ h.pc = "segment" /\ h.view = ask[a].view /\ h.clip = ask[a].clip
        /\ h.state = ask[a].state /\ h.ok = ask[a].ok /\ h.got = c.path.of
    BY <2>3, <2>5 DEF AskType
  <2>7. ask[a].ok
    <3>1. view[ask[a].view].state = "ready"
      BY <2>1, <2>2, <2>3 DEF AskOK, IsOpen
    <3>2. Allowed(view[ask[a].view], lens, reach)
      BY <2>1, <2>3, <3>1 DEF Allowed, IsOpen
    <3> QED BY <2>3, <3>2 DEF AskOK
  <2>8. \A x \in ask[a].clip : x.view = ask[a].view
    BY <2>1, <2>3 DEF AskOK
  <2>9. AskOK(h)
    BY <2>2, <2>3, <2>5, <2>6, <2>7, <2>8 DEF AskOK
  <2> QED BY <2>1, <2>2, <2>9, AskOnly
<1>8. CASE FetchSegment(a)
  <2> DEFINE h == [ask[a] EXCEPT !.pc = "served"]
  <2>1. ask' = [ask EXCEPT ![a] = h] /\ UNCHANGED mediaRows /\ ask[a].pc = "segment"
    BY <1>8 DEF FetchSegment, GoOn
  <2>2. AskOK(ask[a]) /\ ask[a] \in AskType
    BY <1>a, <1>b, <2>1 DEF AskOK
  <2>3. /\ h \in AskType /\ h.pc = "served" /\ h.view = ask[a].view /\ h.clip = ask[a].clip
        /\ h.state = ask[a].state /\ h.ok = ask[a].ok /\ h.got = ask[a].got
    BY <2>2 DEF AskType
  <2>4. AskOK(h)
    BY <2>1, <2>2, <2>3 DEF AskOK
  <2> QED BY <2>1, <2>4, AskOnly
<1> QED BY <1>1, <1>2, <1>3, <1>4, <1>5, <1>6, <1>7, <1>8 DEF EndAsk

\* A step of the environment preserves the inductive invariant.
LEMMA RowsInd ==
    ASSUME MediaInd,
           \/ \E v \in Views : OpenView(v) \/ StartView(v) \/ StopView(v) \/ ExpireView(v)
           \/ ChangeLens \/ Revoke \/ Share
    PROVE  MediaInd'
<1>a. /\ view \in [Views -> ViewType] /\ lens \in [enabled : BOOLEAN, version : 1..MaxVersion]
      /\ reach \in BOOLEAN /\ clips \subseteq ClipType
      /\ \A c \in clips : /\ view[c.view].state \in {"ready", "revoked"}
                          /\ c.path = Path(view[c.view].version) /\ c.view \in Views
      /\ \A v \in Views : view[v].state \in {"pending", "ready"} => SourceCurrent(view[v], lens)
  BY DEF MediaInd, RowsInv, MediaTypeOK, ViewType, ViewStates, ClipType
<1>b. ASSUME Evolves, clips' = clips, Notice,
             view' \in [Views -> ViewType], lens' \in [enabled : BOOLEAN, version : 1..MaxVersion],
             reach' \in BOOLEAN,
             \A v \in Views : view'[v].state \in {"pending", "ready"} => SourceCurrent(view'[v], lens')
      PROVE  MediaInd'
  <2>1. \A c \in clips : view[c.view].state # "none"
    BY <1>a
  <2>2. RowsInv'
    BY <1>a, <1>b, <2>1 DEF RowsInv, MediaTypeOK, Evolves, ViewType, ViewStates, SourceCurrent
  <2> QED BY <1>b, <2>2, NoticeStep
<1>c. ASSUME NEW v \in Views, NEW r \in ViewType, view' = [view EXCEPT ![v] = r],
             UNCHANGED <<lens, reach, clips>>, Notice,
             r.state # "none",
             r.state \in {"pending", "ready"} => SourceCurrent(r, lens),
             view[v].state # "none" =>
                /\ r.version = view[v].version
                /\ IsOpen(r) => IsOpen(view[v])
                /\ view[v].state \in {"ready", "revoked"} => r.state \in {"ready", "revoked"}
      PROVE  MediaInd'
  <2>1. view'[v] = r /\ \A u \in Views \ {v} : view'[u] = view[u]
    BY <1>a, <1>c
  <2>2. Evolves
    BY <1>c, <2>1 DEF Evolves
  <2>3. /\ view' \in [Views -> ViewType]
        /\ \A u \in Views : view'[u].state \in {"pending", "ready"} => SourceCurrent(view'[u], lens')
    BY <1>a, <1>c, <2>1
  <2> QED BY <1>a, <1>b, <1>c, <2>2, <2>3
<1>1. ASSUME NEW v \in Views, OpenView(v) PROVE MediaInd'
  <2> DEFINE r == [state |-> "pending", version |-> lens.version, over |-> FALSE, valid |-> TRUE]
  <2>1. r \in ViewType /\ r.state = "pending" /\ view[v].state = "none"
    BY <1>a, <1>1, MediaAssumption DEF OpenView, ViewType, ViewStates, NoView
  <2>2. SourceCurrent(r, lens)
    BY <1>1 DEF OpenView, SourceCurrent
  <2>3. view' = [view EXCEPT ![v] = r] /\ UNCHANGED <<lens, reach, clips>> /\ Notice
    BY <1>1 DEF OpenView
  <2> QED BY <1>c, <2>1, <2>2, <2>3
<1>2. ASSUME NEW v \in Views, NEW s \in {"ready", "failed", "revoked"},
             view' = [view EXCEPT ![v].state = s], UNCHANGED <<lens, reach, clips>>, Notice,
             \/ view[v].state = "pending"
             \/ s = "revoked" /\ IsOpen(view[v])
      PROVE  MediaInd'
  <2> DEFINE r == [view[v] EXCEPT !.state = s]
  <2>1. /\ r \in ViewType /\ r.state = s /\ r.version = view[v].version /\ r.over = view[v].over
        /\ view[v].state \in {"pending", "ready"}
    BY <1>a, <1>2 DEF ViewType, ViewStates, IsOpen
  <2>2. SourceCurrent(r, lens)
    BY <1>a, <2>1 DEF SourceCurrent
  <2>3. IsOpen(r) => IsOpen(view[v])
    BY <2>1 DEF IsOpen
  <2>4. view' = [view EXCEPT ![v] = r]
    BY <1>2
  <2>5. view[v].state \in {"ready", "revoked"} => r.state \in {"ready", "revoked"}
    BY <1>2, <2>1
  <2>6. r.state # "none"
    BY <1>2, <2>1
  <2> HIDE DEF r
  <2> QED BY <1>2, <1>c, <2>1, <2>2, <2>3, <2>4, <2>5, <2>6
<1>3. ASSUME NEW v \in Views, ExpireView(v) PROVE MediaInd'
  <2> DEFINE r == [view[v] EXCEPT !.over = TRUE]
  <2>1. /\ r \in ViewType /\ r.state = view[v].state /\ r.version = view[v].version /\ r.over = TRUE
        /\ view[v].state # "none"
    <3>1. view[v] \in ViewType /\ view[v].state # "none"
      BY <1>a, <1>3 DEF ExpireView
    <3> QED BY <3>1 DEF ViewType
  <2>2. r.state \in {"pending", "ready"} => SourceCurrent(r, lens)
    BY <1>a, <2>1 DEF SourceCurrent
  <2>3. ~IsOpen(r)
    BY <2>1 DEF IsOpen
  <2>4. view' = [view EXCEPT ![v] = r] /\ UNCHANGED <<lens, reach, clips>> /\ Notice
    BY <1>3 DEF ExpireView
  <2> HIDE DEF r
  <2> QED BY <1>c, <2>1, <2>2, <2>3, <2>4
<1>4. CASE ChangeLens
  <2>1. lens' \in [enabled : BOOLEAN, version : 1..MaxVersion]
    <3>1. CASE lens.version < MaxVersion /\ lens' = [enabled |-> TRUE, version |-> lens.version + 1]
      BY <1>a, <3>1, MediaAssumption
    <3>2. CASE lens' = [lens EXCEPT !.enabled = FALSE]
      BY <1>a, <3>2
    <3> QED BY <1>4, <3>1, <3>2 DEF ChangeLens
  <2>2. \A v \in Views : view'[v] = IF view[v].state \in {"pending", "ready"}
                                      THEN [view[v] EXCEPT !.state = "revoked"] ELSE view[v]
    BY <1>4 DEF ChangeLens
  <2>3. \A v \in Views : [view[v] EXCEPT !.state = "revoked"] \in ViewType
                         /\ [view[v] EXCEPT !.state = "revoked"].state = "revoked"
                         /\ [view[v] EXCEPT !.state = "revoked"].version = view[v].version
    BY <1>a DEF ViewType, ViewStates
  <2>4. view' \in [Views -> ViewType]
    BY <1>a, <1>4, <2>3 DEF ChangeLens
  <2>5. Evolves
    BY <2>2, <2>3 DEF Evolves, IsOpen
  <2>6. \A v \in Views : view'[v].state \notin {"pending", "ready"}
    BY <1>a, <2>2, <2>3
  <2>7. Notice /\ clips' = clips /\ reach' = reach
    BY <1>4 DEF ChangeLens
  <2> QED BY <1>a, <1>b, <2>1, <2>4, <2>5, <2>6, <2>7
<1>5. CASE Revoke
  <2>1. \A v \in Views : /\ [view[v] EXCEPT !.valid = FALSE] \in ViewType
                         /\ [view[v] EXCEPT !.valid = FALSE].state = view[v].state
                         /\ [view[v] EXCEPT !.valid = FALSE].over = view[v].over
                         /\ [view[v] EXCEPT !.valid = FALSE].version = view[v].version
    BY <1>a DEF ViewType
  <2>2. \A v \in Views : view'[v] = [view[v] EXCEPT !.valid = FALSE]
    BY <1>5 DEF Revoke
  <2>3. view' \in [Views -> ViewType]
    BY <1>5, <2>1 DEF Revoke
  <2>4. Evolves
    BY <2>1, <2>2 DEF Evolves, IsOpen
  <2>6. Notice /\ clips' = clips /\ reach' = reach /\ lens' = lens
    BY <1>5 DEF Revoke
  <2>7. \A v \in Views : view'[v].state \in {"pending", "ready"} => SourceCurrent(view'[v], lens')
    BY <1>a, <2>1, <2>2, <2>6 DEF SourceCurrent
  <2> QED BY <1>a, <1>b, <2>3, <2>4, <2>6, <2>7
<1>6. CASE Share
  <2>1. Evolves
    BY <1>6 DEF Share, Evolves
  <2>2. reach' \in BOOLEAN /\ UNCHANGED <<view, lens, clips>> /\ Notice
    BY <1>6 DEF Share
  <2> QED BY <1>a, <1>b, <2>1, <2>2
<1>7. ASSUME NEW v \in Views, StartView(v) PROVE MediaInd'
  BY <1>2, <1>7 DEF StartView
<1>8. ASSUME NEW v \in Views, StopView(v) PROVE MediaInd'
  BY <1>2, <1>8 DEF StopView
<1> QED BY <1>1, <1>3, <1>4, <1>5, <1>6, <1>7, <1>8

\* The inductive invariant holds in every reachable state.
LEMMA MediaInductive == MediaSpec => []MediaInd
<1>1. MediaInd /\ [MediaNext]_mediaVars => MediaInd'
  <2> SUFFICES ASSUME MediaInd, [MediaNext]_mediaVars PROVE MediaInd'
    OBVIOUS
  <2>1. CASE UNCHANGED mediaVars
    <3>1. UNCHANGED <<view, lens, reach, clips, ask>>
      BY <2>1 DEF mediaVars, mediaRows
    <3> QED BY <3>1 DEF MediaInd, RowsInv, AsksInv, MediaTypeOK, AskOK, Allowed, IsOpen, SourceCurrent, Permitted
  <2> QED BY <2>1, AskInd, RowsInd DEF MediaNext
<1> QED BY <1>1, MediaInitInd, PTL DEF MediaSpec

\* ServedAgrees for any sessions and requests: whoever is served a manifest or a
\* segment was allowed to see it at one moment of the request, and it is of the
\* stream of the session whose token was shown.
THEOREM ServedAgreesAlways == MediaSpec => []ServedAgrees
<1>1. MediaInd => ServedAgrees
  <2> SUFFICES ASSUME MediaInd, NEW a \in Asks, ask[a].pc = "served"
               PROVE  /\ ask[a].ok
                      /\ ask[a].got = view[ask[a].view].version
                      /\ \A c \in ask[a].clip : c.view = ask[a].view
    BY DEF MediaInd, RowsInv, ServedAgrees, ServedWasAllowed, SegmentOfItsSession
  <2>1. ask[a] # NoAsk
    BY DEF NoAsk
  <2> QED BY <2>1 DEF MediaInd, AsksInv, AskOK
<1> QED BY <1>1, MediaInductive, PTL
-----------------------------------------------------------------------------
\* Registration of GB/T 28181 devices.  The inductive invariant follows a nonce:
\* issued, it has done nothing; consumed, it is in the hands of one request at
\* most, which is of the device and peer it was issued for.

Times == 0..(MaxTime + NonceLife)
EntrySet == [nonce : Nonces, dev : Devices, peer : Peers, until : Times]
UsedSet == [nonce : Nonces, until : Times]
CallSet == [at : {"idle", "looked", "accepted", "alive"}, dev : Devices \cup {None},
            peer : Peers \cup {None}, tx : Txs \cup {None}, nonce : Nonces \cup {None},
            time : Nat, ttl : TTLs \cup {0}]
RowSet == [enabled : BOOLEAN, reg : [peer : Peers \cup {None}, until : Nat, seen : Nat]]
GrantSet == [dev : Devices \cup {None}, peer : Peers \cup {None}, done : Seq(Devices \X Peers)]

AccessTypes ==
    /\ now \in 0..MaxTime
    /\ entries \subseteq EntrySet /\ used \subseteq UsedSet
    /\ call \in [Requests -> CallSet]
    /\ row \in [Devices -> RowSet]
    /\ grants \in [Nonces -> GrantSet]

\* The store keeps one record of a nonce.
SingleRecords ==
    /\ \A e, f \in entries : e.nonce = f.nonce => e = f
    /\ \A u, v \in used : u.nonce = v.nonce => u = v
    /\ \A e \in entries, u \in used : e.nonce # u.nonce

Limits ==
    /\ IsFiniteSet(entries) /\ IsFiniteSet(used) /\ IsFiniteSet(cache)
    /\ Cardinality(entries) + Cardinality(used) <= MaxNonces
    /\ Cardinality(cache) <= MaxTxs

\* What a nonce was issued for, and what it has done.
Fresh(n, d, p) ==
    d # None /\ grants[n].dev = d /\ grants[n].peer = p /\ grants[n].done = << >>
GrantsOK ==
    /\ \A n \in Nonces : \/ grants[n].done = << >>
                         \/ grants[n].dev # None /\ grants[n].done = << <<grants[n].dev, grants[n].peer>> >>
    /\ \A e \in entries : Fresh(e.nonce, e.dev, e.peer)
    /\ \A u \in used : grants[u.nonce].dev # None

\* A request that was accepted has a nonce that is nobody else's.
CallsOK ==
    /\ \A r \in Requests :
          /\ call[r].at # "idle" => call[r].dev \in Devices /\ call[r].peer \in Peers
          /\ call[r].at = "accepted" =>
                /\ call[r].nonce \in Nonces /\ Fresh(call[r].nonce, call[r].dev, call[r].peer)
                /\ \A e \in entries : e.nonce # call[r].nonce
    /\ \A r, s \in Requests : r # s /\ call[r].at = "accepted" /\ call[s].at = "accepted"
          => call[r].nonce # call[s].nonce

RowsOK ==
    /\ \A d \in Devices : row[d].reg.peer = None => row[d].reg = Offline
    /\ OneDevicePerPeer

AccessInd == AccessTypes /\ SingleRecords /\ Limits /\ GrantsOK /\ CallsOK /\ RowsOK

-----------------------------------------------------------------------------
\* The nonce store.

\* Its records are as many as the nonces it knows.
LEMMA StoredCount ==
    ASSUME SingleRecords, IsFiniteSet(entries), IsFiniteSet(used)
    PROVE  Cardinality(Stored) = Cardinality(entries) + Cardinality(used)
<1> DEFINE All == entries \cup used
           nonceOf == [x \in All |-> x.nonce]
<1>1. IsFiniteSet(All) /\ Cardinality(All) = Cardinality(entries) + Cardinality(used)
  <2>1. entries \cap used = {}
    BY DEF SingleRecords
  <2>2. Cardinality(entries \cap used) = 0
    BY <2>1, FS_EmptySet
  <2>3. Cardinality(entries) \in Nat /\ Cardinality(used) \in Nat
    BY FS_CardinalityType
  <2>4. IsFiniteSet(All) /\ Cardinality(All) = Cardinality(entries) + Cardinality(used) - Cardinality(entries \cap used)
    BY FS_Union
  <2> QED BY <2>2, <2>3, <2>4
<1>2. nonceOf \in [All -> Stored]
  BY DEF Stored
<1>3. \A n \in Stored : \E x \in All : nonceOf[x] = n
  BY DEF Stored
<1>4. \A x, y \in All : nonceOf[x] = nonceOf[y] => x = y
  BY DEF SingleRecords
<1>5. nonceOf \in Bijection(All, Stored)
  <2> HIDE DEF nonceOf, All
  <2> QED BY <1>2, <1>3, <1>4 DEF Bijection, Injection, Surjection, IsInjective
<1>6. ExistsBijection(All, Stored)
  BY <1>5 DEF ExistsBijection
<1> HIDE DEF All
<1> QED BY <1>1, <1>6, FS_Bijection

\* A new nonce has room.
LEMMA IssueKeeps ==
    ASSUME AccessInd, NEW x \in EntrySet, Issue(x), x.nonce \notin Stored
    PROVE  /\ SingleRecords'
           /\ IsFiniteSet(entries') /\ IsFiniteSet(used')
           /\ Cardinality(entries') + Cardinality(used') <= MaxNonces
           /\ entries' \subseteq entries \cup {x} /\ used' \subseteq used
<1>1. /\ IsFiniteSet(entries) /\ IsFiniteSet(used) /\ SingleRecords
      /\ Cardinality(entries) + Cardinality(used) <= MaxNonces
      /\ Cardinality(entries) \in Nat /\ Cardinality(used) \in Nat /\ MaxNonces \in Nat
  BY FS_CardinalityType, AccessAssumption DEF AccessInd, Limits
<1>2. Cardinality(Stored) = Cardinality(entries) + Cardinality(used)
  BY <1>1, StoredCount
<1>3. \A e \in entries : e.nonce # x.nonce /\ e # x
  BY DEF Stored
<1>4. \A u \in used : u.nonce # x.nonce
  BY DEF Stored
<1>5. CASE Cardinality(Stored) < MaxNonces
  <2>1. entries' = entries \cup {x} /\ used' = used
    BY <1>5 DEF Issue
  <2>2. IsFiniteSet(entries') /\ Cardinality(entries') = Cardinality(entries) + 1
    BY <1>1, <1>3, <2>1, FS_AddElement
  <2>3. SingleRecords'
    BY <1>1, <1>3, <1>4, <2>1 DEF SingleRecords
  <2> QED BY <1>1, <1>2, <1>5, <2>1, <2>2, <2>3
<1>6. CASE ~(Cardinality(Stored) < MaxNonces)
  <2>1. PICK n \in Stored : /\ entries' = {e \in entries : e.nonce # n} \cup {x}
                            /\ used' = {u \in used : u.nonce # n}
    BY <1>6 DEF Issue
  <2>2. PICK e0, u0 : e0 = {e \in entries : e.nonce # n} /\ u0 = {u \in used : u.nonce # n}
    OBVIOUS
  <2>3. /\ e0 \subseteq entries /\ u0 \subseteq used
        /\ IsFiniteSet(e0) /\ Cardinality(e0) \in Nat /\ Cardinality(e0) <= Cardinality(entries)
        /\ IsFiniteSet(u0) /\ Cardinality(u0) \in Nat /\ Cardinality(u0) <= Cardinality(used)
    <3>1. e0 \in SUBSET entries /\ u0 \in SUBSET used
      BY <2>2
    <3> QED BY <1>1, <3>1, FS_Subset, FS_CardinalityType
  <2>4. e0 # entries \/ u0 # used
    BY <2>2 DEF Stored
  <2>5. Cardinality(e0) # Cardinality(entries) \/ Cardinality(u0) # Cardinality(used)
    BY <1>1, <2>3, <2>4, FS_Subset
  <2>6. entries' = e0 \cup {x} /\ used' = u0 /\ x \notin e0
    BY <1>3, <2>1, <2>2, <2>3
  <2>7. IsFiniteSet(entries') /\ Cardinality(entries') = Cardinality(e0) + 1
    BY <2>3, <2>6, FS_AddElement
  <2>8. SingleRecords'
    BY <1>1, <1>3, <1>4, <2>3, <2>6 DEF SingleRecords
  <2> QED BY <1>1, <2>3, <2>5, <2>6, <2>7, <2>8
<1> QED BY <1>5, <1>6

\* Expired records go, and one issued nonce moves to the used ones.
LEMMA ConsumedKeeps ==
    ASSUME AccessInd, NEW live \in SUBSET entries, NEW dead \in SUBSET used, NEW e \in live,
           Consumed(e, live, dead)
    PROVE  /\ SingleRecords'
           /\ IsFiniteSet(entries') /\ IsFiniteSet(used')
           /\ Cardinality(entries') + Cardinality(used') <= MaxNonces
           /\ entries' \subseteq EntrySet /\ used' \subseteq UsedSet
           /\ entries' \subseteq entries /\ \A f \in entries' : f.nonce # e.nonce
           /\ \A u \in used' : u \in used \/ u.nonce = e.nonce
<1>1. /\ IsFiniteSet(entries) /\ IsFiniteSet(used) /\ SingleRecords
      /\ entries \subseteq EntrySet /\ used \subseteq UsedSet
      /\ Cardinality(entries) + Cardinality(used) <= MaxNonces
      /\ Cardinality(entries) \in Nat /\ Cardinality(used) \in Nat /\ MaxNonces \in Nat
  BY FS_CardinalityType, AccessAssumption DEF AccessInd, Limits, AccessTypes
<1>2. PICK u : u = [nonce |-> e.nonce, until |-> e.until]
  OBVIOUS
<1>3. u \in UsedSet /\ u.nonce = e.nonce
  BY <1>1, <1>2 DEF UsedSet, EntrySet
<1>4. entries' = live \ {e} /\ used' = dead \cup {u}
  BY <1>2 DEF Consumed
<1>5. /\ IsFiniteSet(live) /\ Cardinality(live) \in Nat /\ Cardinality(live) <= Cardinality(entries)
      /\ IsFiniteSet(dead) /\ Cardinality(dead) \in Nat /\ Cardinality(dead) <= Cardinality(used)
  BY <1>1, FS_Subset, FS_CardinalityType
<1>6. IsFiniteSet(entries') /\ Cardinality(entries') = Cardinality(live) - 1
  BY <1>4, <1>5, FS_RemoveElement
<1>7. IsFiniteSet(used') /\ Cardinality(used') <= Cardinality(dead) + 1 /\ Cardinality(used') \in Nat
  <2>1. IsFiniteSet(dead \cup {u}) /\ Cardinality(dead \cup {u}) = IF u \in dead THEN Cardinality(dead) ELSE Cardinality(dead) + 1
    BY <1>5, FS_AddElement
  <2> QED BY <1>4, <1>5, <2>1
<1>8. SingleRecords'
  BY <1>1, <1>3, <1>4 DEF SingleRecords
<1>9. \A f \in entries' : f.nonce # e.nonce
  BY <1>1, <1>4 DEF SingleRecords
<1> QED BY <1>1, <1>3, <1>4, <1>5, <1>6, <1>7, <1>8, <1>9

\* Records only go.
LEMMA SweptKeeps ==
    ASSUME AccessInd, NEW live \in SUBSET entries, NEW dead \in SUBSET used,
           entries' = live, used' = dead
    PROVE  /\ SingleRecords'
           /\ IsFiniteSet(entries') /\ IsFiniteSet(used')
           /\ Cardinality(entries') + Cardinality(used') <= MaxNonces
<1>1. /\ IsFiniteSet(entries) /\ IsFiniteSet(used) /\ SingleRecords
      /\ Cardinality(entries) + Cardinality(used) <= MaxNonces
      /\ Cardinality(entries) \in Nat /\ Cardinality(used) \in Nat /\ MaxNonces \in Nat
  BY FS_CardinalityType, AccessAssumption DEF AccessInd, Limits
<1>2. /\ IsFiniteSet(live) /\ Cardinality(live) \in Nat /\ Cardinality(live) <= Cardinality(entries)
      /\ IsFiniteSet(dead) /\ Cardinality(dead) \in Nat /\ Cardinality(dead) <= Cardinality(used)
  BY <1>1, FS_Subset, FS_CardinalityType
<1>3. SingleRecords'
  BY <1>1 DEF SingleRecords
<1> QED BY <1>1, <1>2, <1>3

-----------------------------------------------------------------------------
\* The requests.

\* A request that is not accepted.
LEMMA CallStep ==
    ASSUME AccessInd, NEW r \in Requests, NEW k \in CallSet, call' = [call EXCEPT ![r] = k],
           k.at # "accepted", k.at # "idle" => k.dev \in Devices /\ k.peer \in Peers,
           UNCHANGED grants, entries' \subseteq entries
    PROVE  call' \in [Requests -> CallSet] /\ CallsOK'
<1>1. /\ call' \in [Requests -> CallSet]
      /\ \A s \in Requests : call'[s] = IF s = r THEN k ELSE call[s]
  BY DEF AccessInd, AccessTypes
<1> QED BY <1>1 DEF AccessInd, CallsOK, Fresh

\* A request ends.
LEMMA IdleCall == Idle \in CallSet /\ Idle.at = "idle"
  BY DEF Idle, CallSet

\* ... wherever it was.
LEMMA EndStep ==
    ASSUME AccessInd, NEW r \in Requests, End(r), UNCHANGED grants, entries' \subseteq entries
    PROVE  call' \in [Requests -> CallSet] /\ CallsOK'
<1>1. call' = [call EXCEPT ![r] = Idle]
  BY DEF End
<1> QED BY <1>1, IdleCall, CallStep

\* The nonces that are left are as they were.
LEMMA GrantsStay ==
    ASSUME AccessInd, UNCHANGED grants, entries' \subseteq entries,
           \A u \in used' : u \in used \/ (u.nonce \in Nonces /\ grants[u.nonce].dev # None)
    PROVE  GrantsOK'
  BY DEF AccessInd, GrantsOK, Fresh

\* A step that writes nothing of the invariant but the clock and the cache.
LEMMA AccessQuiet ==
    ASSUME AccessInd, UNCHANGED <<entries, used, row, call, grants>>, now' \in 0..MaxTime,
           IsFiniteSet(cache'), Cardinality(cache') <= MaxTxs
    PROVE  AccessInd'
  BY DEF AccessInd, AccessTypes, SingleRecords, Limits, GrantsOK, Fresh, CallsOK, RowsOK,
         OneDevicePerPeer, Registered

-----------------------------------------------------------------------------
\* The steps.

\* Challenge.
LEMMA ChallengeInd ==
    ASSUME AccessInd, NEW d \in Devices, NEW p \in Peers, NEW n \in Nonces, Challenge(d, p, n)
    PROVE  AccessInd'
<1>1. PICK x : x = [nonce |-> n, dev |-> d, peer |-> p, until |-> now + NonceLife]
  OBVIOUS
<1>2. PICK g : g = [grants[n] EXCEPT !.dev = d, !.peer = p]
  OBVIOUS
<1>3. /\ grants[n].dev = None /\ Issue(x) /\ grants' = [grants EXCEPT ![n] = g]
      /\ UNCHANGED <<now, cache, row, call>>
  BY <1>1, <1>2 DEF Challenge
<1>4. x \in EntrySet /\ x.nonce = n /\ x.dev = d /\ x.peer = p
  BY <1>1, AccessAssumption DEF EntrySet, Times, AccessInd, AccessTypes
<1>5. grants[n] \in GrantSet /\ grants[n].done = << >>
  BY <1>3 DEF AccessInd, AccessTypes, GrantsOK
<1>6. g \in GrantSet /\ g.dev = d /\ g.peer = p /\ g.done = << >>
  BY <1>2, <1>5 DEF GrantSet
<1>7. n \notin Stored
  <2>1. \A e \in entries : grants[e.nonce].dev # None
    BY DEF AccessInd, GrantsOK, Fresh
  <2>2. \A u \in used : grants[u.nonce].dev # None
    BY DEF AccessInd, GrantsOK
  <2> QED BY <1>3, <2>1, <2>2 DEF Stored
<1>8. d # None
  BY AccessAssumption
<1>9. /\ SingleRecords'
      /\ IsFiniteSet(entries') /\ IsFiniteSet(used')
      /\ Cardinality(entries') + Cardinality(used') <= MaxNonces
      /\ entries' \subseteq entries \cup {x} /\ used' \subseteq used
  BY <1>3, <1>4, <1>7, IssueKeeps
<1>10. /\ grants' \in [Nonces -> GrantSet]
       /\ \A m \in Nonces : grants'[m] = IF m = n THEN g ELSE grants[m]
  BY <1>3, <1>6 DEF AccessInd, AccessTypes
<1>11. AccessTypes'
  <2>1. entries' \subseteq EntrySet /\ used' \subseteq UsedSet
    BY <1>4, <1>9 DEF AccessInd, AccessTypes
  <2> QED BY <1>3, <1>10, <2>1 DEF AccessInd, AccessTypes
<1>12. Limits'
  BY <1>3, <1>9 DEF AccessInd, Limits
<1>13. GrantsOK'
  <2>1. \A m \in Nonces : \/ grants'[m].done = << >>
                          \/ grants'[m].dev # None /\ grants'[m].done = << <<grants'[m].dev, grants'[m].peer>> >>
    BY <1>6, <1>10 DEF AccessInd, GrantsOK
  <2>2. ASSUME NEW e \in entries'
        PROVE  /\ e.dev # None /\ grants'[e.nonce].dev = e.dev /\ grants'[e.nonce].peer = e.peer
               /\ grants'[e.nonce].done = << >>
    <3>1. CASE e = x
      BY <1>4, <1>6, <1>8, <1>10, <3>1
    <3>2. CASE e \in entries
      <4>1. e.nonce \in Nonces /\ e.nonce # n /\ Fresh(e.nonce, e.dev, e.peer)
        BY <1>7, <3>2 DEF Stored, AccessInd, AccessTypes, EntrySet, GrantsOK
      <4> QED BY <1>10, <4>1 DEF Fresh
    <3> QED BY <1>9, <3>1, <3>2
  <2>3. \A u \in used' : grants'[u.nonce].dev # None
    <3>1. \A u \in used : u.nonce \in Nonces /\ u.nonce # n /\ grants[u.nonce].dev # None
      BY <1>7 DEF Stored, AccessInd, AccessTypes, UsedSet, GrantsOK
    <3> QED BY <1>9, <1>10, <3>1
  <2> QED BY <2>1, <2>2, <2>3 DEF GrantsOK, Fresh
<1>14. CallsOK'
  <2>1. ASSUME NEW r \in Requests, call[r].at = "accepted"
        PROVE  call[r].nonce # n /\ call[r].nonce \in Nonces
    BY <1>3, <2>1 DEF AccessInd, CallsOK, Fresh
  <2>2. \A r \in Requests : call[r].at = "accepted" => \A e \in entries' : e.nonce # call[r].nonce
    BY <1>4, <1>9, <2>1 DEF AccessInd, CallsOK
  <2> QED BY <1>3, <1>10, <2>1, <2>2 DEF AccessInd, CallsOK, Fresh
<1>15. RowsOK'
  BY <1>3 DEF AccessInd, RowsOK, OneDevicePerPeer, Registered
<1> QED BY <1>9, <1>11, <1>12, <1>13, <1>14, <1>15 DEF AccessInd

\* HandleRegister and HandleMessage.
LEMMA HandleInd ==
    ASSUME AccessInd, NEW r \in Requests, NEW d \in Devices, NEW p \in Peers,
           NEW k \in CallSet, k.at \in {"looked", "alive"}, k.dev = d, k.peer = p,
           UNCHANGED call \/ call' = [call EXCEPT ![r] = k],
           cache' \subseteq cache, UNCHANGED <<now, entries, used, row, grants>>
    PROVE  AccessInd'
<1>1. IsFiniteSet(cache') /\ Cardinality(cache') <= MaxTxs
  <2>1. /\ IsFiniteSet(cache') /\ Cardinality(cache') <= Cardinality(cache)
        /\ Cardinality(cache') \in Nat /\ Cardinality(cache) \in Nat
    BY FS_Subset, FS_CardinalityType DEF AccessInd, Limits
  <2> QED BY <2>1, AccessAssumption DEF AccessInd, Limits
<1>2. CASE UNCHANGED call
  BY <1>1, <1>2, AccessQuiet DEF AccessInd, AccessTypes
<1>3. CASE call' = [call EXCEPT ![r] = k]
  <2>3. call' \in [Requests -> CallSet] /\ CallsOK'
    BY <1>3, CallStep
  <2>4. AccessTypes' /\ SingleRecords' /\ Limits' /\ RowsOK'
    BY <1>1, <2>3 DEF AccessInd, AccessTypes, SingleRecords, Limits, RowsOK, OneDevicePerPeer, Registered
  <2>5. GrantsOK'
    BY GrantsStay
  <2> QED BY <2>3, <2>4, <2>5 DEF AccessInd
<1> QED BY <1>2, <1>3

\* Consume: the nonce is spent, and the request has it if all fits.
LEMMA ConsumeInd ==
    ASSUME AccessInd, NEW r \in Requests, NEW n \in Nonces, NEW digest \in BOOLEAN,
           NEW ttl \in TTLs \cup {0}, Consume(r, n, digest, ttl)
    PROVE  AccessInd'
<1>1. PICK live, dead : /\ live = {e \in entries : now < e.until}
                        /\ dead = {u \in used : now < u.until}
  OBVIOUS
<1>2. live \in SUBSET entries /\ dead \in SUBSET used
  BY <1>1
<1>3. call[r].at = "looked" /\ UNCHANGED <<now, cache, row, grants>>
  BY DEF Consume
<1>4. Cardinality(cache') <= MaxTxs /\ IsFiniteSet(cache') /\ RowsOK'
  BY <1>3 DEF AccessInd, Limits, RowsOK, OneDevicePerPeer, Registered
<1>5. CASE \E e \in live : e.nonce = n /\ \A u \in dead : u.nonce # n
  <2>1. PICK e : e = CHOOSE f \in live : f.nonce = n
    OBVIOUS
  <2>2. e \in live /\ e.nonce = n
    BY <1>5, <2>1
  <2>3. /\ Consumed(e, live, dead)
        /\ IF Matches(e, r) /\ digest
           THEN call' = [call EXCEPT ![r] = [@ EXCEPT !.at = "accepted",
                            !.nonce = n, !.time = now, !.ttl = ttl]]
           ELSE End(r)
    BY <1>1, <1>5, <2>1, Zenon DEF Consume
  <2>4. /\ SingleRecords'
        /\ IsFiniteSet(entries') /\ IsFiniteSet(used')
        /\ Cardinality(entries') + Cardinality(used') <= MaxNonces
        /\ entries' \subseteq EntrySet /\ used' \subseteq UsedSet
        /\ entries' \subseteq entries /\ \A f \in entries' : f.nonce # e.nonce
        /\ \A u \in used' : u \in used \/ u.nonce = e.nonce
    BY <1>2, <2>2, <2>3, ConsumedKeeps
  <2>5. e \in entries /\ Fresh(n, e.dev, e.peer)
    BY <1>2, <2>2 DEF AccessInd, GrantsOK
  <2>6. GrantsOK'
    BY <1>3, <2>2, <2>4, <2>5, GrantsStay DEF Fresh
  <2>7. Limits'
    BY <1>4, <2>4 DEF Limits
  <2>8. call' \in [Requests -> CallSet] /\ CallsOK'
    <3>1. CASE End(r)
      BY <1>3, <2>4, <3>1, EndStep
    <3>2. CASE ~End(r)
      <4>1. PICK j, k : j = call[r] /\ k = [j EXCEPT !.at = "accepted", !.nonce = n, !.time = now, !.ttl = ttl]
        OBVIOUS
      <4>2. call' = [call EXCEPT ![r] = k] /\ Matches(e, r)
        BY <2>3, <3>2, <4>1
      <4>3. j \in CallSet /\ j.dev \in Devices /\ j.peer \in Peers
        BY <1>3, <4>1 DEF AccessInd, AccessTypes, CallsOK
      <4>4. now \in Nat
        BY AccessAssumption DEF AccessInd, AccessTypes
      <4>5. k \in CallSet /\ k.at = "accepted" /\ k.nonce = n /\ k.dev = j.dev /\ k.peer = j.peer
        BY <4>1, <4>3, <4>4 DEF CallSet
      <4>6. Fresh(n, k.dev, k.peer)
        BY <2>5, <4>1, <4>2, <4>5 DEF Matches
      <4>7. /\ call' \in [Requests -> CallSet]
            /\ \A s \in Requests : call'[s] = IF s = r THEN k ELSE call[s]
        BY <4>2, <4>5 DEF AccessInd, AccessTypes
      <4>8. \A s \in Requests : call[s].at = "accepted" => call[s].nonce # n
        BY <2>2, <2>5 DEF AccessInd, CallsOK
      <4>9. \A s \in Requests :
              /\ call'[s].at # "idle" => call'[s].dev \in Devices /\ call'[s].peer \in Peers
              /\ call'[s].at = "accepted" =>
                   /\ call'[s].nonce \in Nonces /\ Fresh(call'[s].nonce, call'[s].dev, call'[s].peer)
                   /\ \A f \in entries' : f.nonce # call'[s].nonce
        BY <2>2, <2>4, <4>3, <4>5, <4>6, <4>7 DEF AccessInd, CallsOK
      <4>10. \A s, t \in Requests : s # t /\ call'[s].at = "accepted" /\ call'[t].at = "accepted"
                => call'[s].nonce # call'[t].nonce
        BY <4>5, <4>7, <4>8 DEF AccessInd, CallsOK
      <4> QED BY <1>3, <4>7, <4>9, <4>10 DEF CallsOK, Fresh
    <3> QED BY <3>1, <3>2
  <2>9. AccessTypes'
    BY <1>3, <2>4, <2>8 DEF AccessInd, AccessTypes
  <2> QED BY <1>4, <2>4, <2>6, <2>7, <2>8, <2>9 DEF AccessInd
<1>6. CASE ~\E e \in live : e.nonce = n /\ \A u \in dead : u.nonce # n
  <2>1. entries' = live /\ used' = dead /\ End(r)
    BY <1>1, <1>6, Zenon DEF Consume
  <2>2. /\ SingleRecords'
        /\ IsFiniteSet(entries') /\ IsFiniteSet(used')
        /\ Cardinality(entries') + Cardinality(used') <= MaxNonces
    BY <1>2, <2>1, SweptKeeps
  <2>3. GrantsOK'
    BY <1>2, <1>3, <2>1, GrantsStay
  <2>4. call' \in [Requests -> CallSet] /\ CallsOK'
    BY <1>2, <1>3, <2>1, EndStep
  <2>5. AccessTypes'
    BY <1>2, <1>3, <2>1, <2>4 DEF AccessInd, AccessTypes
  <2>6. Limits'
    BY <1>4, <2>2 DEF Limits
  <2> QED BY <1>4, <2>2, <2>3, <2>4, <2>5, <2>6 DEF AccessInd
<1> QED BY <1>5, <1>6

\* The results remembered.
LEMMA RememberKeeps ==
    ASSUME AccessInd, NEW r \in Requests, Remember(r)
    PROVE  IsFiniteSet(cache') /\ Cardinality(cache') <= MaxTxs
<1>1. IsFiniteSet(cache) /\ Cardinality(cache) \in Nat /\ Cardinality(cache) <= MaxTxs /\ MaxTxs \in Nat
  BY FS_CardinalityType, AccessAssumption DEF AccessInd, Limits
<1>2. CASE call[r].tx = None
  BY <1>1, <1>2 DEF Remember
<1>3. CASE call[r].tx # None
  <2>1. PICK x : x = [tx |-> call[r].tx, dev |-> call[r].dev, peer |-> call[r].peer, until |-> now + TxLife]
    OBVIOUS
  <2>2. PICK c \in SUBSET cache :
            /\ IF Cardinality(cache) >= MaxTxs THEN Cardinality(cache \ c) = 1 ELSE c = cache
            /\ cache' = {y \in c : y.tx # call[r].tx \/ y.dev # call[r].dev \/ y.peer # call[r].peer} \cup {x}
    BY <1>3, <2>1 DEF Remember
  <2>3. PICK b : b = {y \in c : y.tx # call[r].tx \/ y.dev # call[r].dev \/ y.peer # call[r].peer}
    OBVIOUS
  <2>4. IsFiniteSet(c) /\ Cardinality(c) \in Nat /\ Cardinality(c) + 1 <= MaxTxs
    <3>1. IsFiniteSet(c) /\ Cardinality(c) \in Nat /\ Cardinality(c) <= Cardinality(cache)
      BY <1>1, FS_Subset, FS_CardinalityType
    <3>2. CASE Cardinality(cache) >= MaxTxs
      <4>1. cache \cap c = c /\ Cardinality(cache \ c) = 1
        BY <2>2, <3>2
      <4>2. Cardinality(cache \ c) = Cardinality(cache) - Cardinality(cache \cap c)
        BY <1>1, FS_Difference
      <4>3. 1 = Cardinality(cache) - Cardinality(c)
        BY <4>1, <4>2, Zenon
      <4> QED BY <1>1, <3>1, <4>3
    <3>3. CASE ~(Cardinality(cache) >= MaxTxs)
      <4>1. c = cache
        BY <2>2, <3>3
      <4> QED BY <1>1, <3>3, <4>1
    <3> QED BY <3>2, <3>3
  <2>5. IsFiniteSet(b) /\ Cardinality(b) \in Nat /\ Cardinality(b) <= Cardinality(c)
    <3>1. b \in SUBSET c
      BY <2>3
    <3> QED BY <2>4, <3>1, FS_Subset, FS_CardinalityType
  <2>6. cache' = b \cup {x}
    BY <2>2, <2>3
  <2>7. IsFiniteSet(b \cup {x}) /\ Cardinality(b \cup {x}) = IF x \in b THEN Cardinality(b) ELSE Cardinality(b) + 1
    BY <2>5, FS_AddElement
  <2> QED BY <1>1, <2>4, <2>5, <2>6, <2>7
<1> QED BY <1>2, <1>3

\* ApplyRegistration: the device takes a peer nobody else has, and its nonce has
\* now done what it was issued for.
LEMMA ApplyRegistrationInd ==
    ASSUME AccessInd, NEW r \in Requests, ApplyRegistration(r)
    PROVE  AccessInd'
<1>1. PICK d, p, n : d = call[r].dev /\ p = call[r].peer /\ n = call[r].nonce
  OBVIOUS
<1>2. /\ call[r].at = "accepted" /\ End(r) /\ UNCHANGED <<now, entries, used>>
      /\ d \in Devices /\ p \in Peers /\ n \in Nonces /\ Fresh(n, d, p)
      /\ call[r].time \in Nat /\ call[r].ttl \in Nat
  BY <1>1, AccessAssumption DEF ApplyRegistration, AccessInd, AccessTypes, CallsOK, CallSet
<1>3. SingleRecords' /\ IsFiniteSet(entries') /\ IsFiniteSet(used')
      /\ Cardinality(entries') + Cardinality(used') <= MaxNonces
  BY <1>2 DEF AccessInd, SingleRecords, Limits
<1>4. CASE UNCHANGED <<row, grants, cache>>
  <2>1. call' \in [Requests -> CallSet] /\ CallsOK'
    BY <1>2, <1>4, EndStep
  <2>2. GrantsOK'
    BY <1>2, <1>4, GrantsStay
  <2> QED BY <1>2, <1>3, <1>4, <2>1, <2>2
          DEF AccessInd, AccessTypes, Limits, RowsOK, OneDevicePerPeer, Registered
<1>5. CASE ~UNCHANGED <<row, grants, cache>>
  <2>1. PICK reg, g : /\ reg = IF call[r].ttl = 0 THEN Offline
                               ELSE [peer |-> p, until |-> call[r].time + call[r].ttl, seen |-> call[r].time]
                      /\ g = [grants[n] EXCEPT !.done = Append(@, <<d, p>>)]
    OBVIOUS
  <2>2. /\ PeerFree(d, p) /\ Remember(r)
        /\ row' = [row EXCEPT ![d].reg = reg] /\ grants' = [grants EXCEPT ![n] = g]
    BY <1>1, <1>5, <2>1 DEF ApplyRegistration
  <2>3. reg \in [peer : Peers \cup {None}, until : Nat, seen : Nat]
        /\ (reg = Offline \/ reg.peer = p) /\ (reg.peer = None => reg = Offline)
    BY <1>2, <2>1, AccessAssumption DEF Offline
  <2>4. /\ row' \in [Devices -> RowSet]
        /\ \A e \in Devices : row'[e].reg = IF e = d THEN reg ELSE row[e].reg
    <3>1. PICK new : new = [row[d] EXCEPT !.reg = reg]
      OBVIOUS
    <3>2. row[d] \in RowSet /\ row \in [Devices -> RowSet]
      BY <1>2 DEF AccessInd, AccessTypes
    <3>3. new \in RowSet /\ new.reg = reg
      BY <2>3, <3>1, <3>2 DEF RowSet
    <3>4. row' = [row EXCEPT ![d] = new]
      BY <2>2, <3>1
    <3> QED BY <3>2, <3>3, <3>4
  <2>5. grants[n] \in GrantSet /\ grants[n].done = << >> /\ grants[n].dev = d /\ grants[n].peer = p
    BY <1>2 DEF AccessInd, AccessTypes, Fresh
  <2>6. g \in GrantSet /\ g.dev = d /\ g.peer = p /\ g.done = << <<d, p>> >>
    <3>1. Append(<< >>, <<d, p>>) = << <<d, p>> >> /\ << <<d, p>> >> \in Seq(Devices \X Peers)
      BY <1>2
    <3>2. g = [grants[n] EXCEPT !.done = << <<d, p>> >>]
      BY <2>1, <2>5, <3>1
    <3> QED BY <2>5, <3>1, <3>2 DEF GrantSet
  <2>7. /\ grants' \in [Nonces -> GrantSet]
        /\ \A m \in Nonces : grants'[m] = IF m = n THEN g ELSE grants[m]
    BY <2>2, <2>6 DEF AccessInd, AccessTypes
  <2>8. IsFiniteSet(cache') /\ Cardinality(cache') <= MaxTxs
    BY <2>2, RememberKeeps
  <2>9. d # None
    BY <1>2, AccessAssumption
  <2>10. GrantsOK'
    <3>1. \A m \in Nonces : \/ grants'[m].done = << >>
                            \/ grants'[m].dev # None /\ grants'[m].done = << <<grants'[m].dev, grants'[m].peer>> >>
      BY <2>6, <2>7, <2>9 DEF AccessInd, GrantsOK
    <3>2. \A e \in entries : e.nonce \in Nonces /\ e.nonce # n /\ Fresh(e.nonce, e.dev, e.peer)
      BY <1>1, <1>2 DEF AccessInd, AccessTypes, EntrySet, GrantsOK, CallsOK
    <3>3. \A e \in entries : /\ e.dev # None /\ grants'[e.nonce].dev = e.dev
                             /\ grants'[e.nonce].peer = e.peer /\ grants'[e.nonce].done = << >>
      BY <2>7, <3>2 DEF Fresh
    <3>4. \A u \in used : grants'[u.nonce].dev # None
      BY <2>6, <2>7, <2>9 DEF AccessInd, AccessTypes, UsedSet, GrantsOK
    <3> QED BY <1>2, <3>1, <3>3, <3>4 DEF GrantsOK, Fresh
  <2>11. /\ call' \in [Requests -> CallSet]
         /\ \A s \in Requests : call'[s] = IF s = r THEN Idle ELSE call[s]
    BY <1>2, IdleCall DEF End, AccessInd, AccessTypes
  <2>12. CallsOK'
    <3>1. ASSUME NEW s \in Requests, call'[s].at = "accepted"
          PROVE  /\ call'[s] = call[s] /\ s # r /\ call[s].nonce # n
                 /\ grants'[call[s].nonce] = grants[call[s].nonce]
      <4>1. s # r /\ call'[s] = call[s]
        BY <2>11, <3>1, IdleCall
      <4>2. call[s].nonce # n /\ call[s].nonce \in Nonces
        BY <1>1, <1>2, <3>1, <4>1 DEF AccessInd, CallsOK
      <4> QED BY <2>7, <4>1, <4>2
    <3>2. \A s \in Requests : call'[s].at # "idle" => call'[s].dev \in Devices /\ call'[s].peer \in Peers
      BY <2>11, IdleCall DEF AccessInd, CallsOK
    <3>3. \A s \in Requests : call'[s].at = "accepted" =>
            /\ call'[s].nonce \in Nonces
            /\ call'[s].dev # None /\ grants'[call'[s].nonce].dev = call'[s].dev
            /\ grants'[call'[s].nonce].peer = call'[s].peer /\ grants'[call'[s].nonce].done = << >>
            /\ \A e \in entries : e.nonce # call'[s].nonce
      BY <3>1 DEF AccessInd, CallsOK, Fresh
    <3>4. \A s, t \in Requests : s # t /\ call'[s].at = "accepted" /\ call'[t].at = "accepted"
            => call'[s].nonce # call'[t].nonce
      BY <3>1 DEF AccessInd, CallsOK
    <3> QED BY <1>2, <3>2, <3>3, <3>4 DEF CallsOK, Fresh
  <2>13. RowsOK'
    <3>1. \A e \in Devices : e # d => row[e].reg.peer # p
      BY <2>2 DEF PeerFree
    <3>2. \A e \in Devices : row'[e].reg.peer = None => row'[e].reg = Offline
      BY <2>3, <2>4 DEF AccessInd, RowsOK
    <3>3. Offline.peer = None /\ p # None
      BY <1>2, AccessAssumption DEF Offline
    <3>4. ASSUME NEW e \in Devices, NEW f \in Devices, e # f, row'[e].reg # Offline
          PROVE  row'[e].reg.peer # row'[f].reg.peer
      <4>1. CASE e = d
        BY <2>3, <2>4, <3>1, <3>4, <4>1
      <4>2. CASE f = d
        <5>1. row'[e].reg = row[e].reg /\ row[e].reg.peer # None /\ row[e].reg.peer # p
          BY <2>4, <3>1, <3>4, <4>2 DEF AccessInd, RowsOK
        <5> QED BY <2>3, <2>4, <3>3, <4>2, <5>1
      <4>3. CASE e # d /\ f # d
        BY <2>4, <3>4, <4>3 DEF AccessInd, RowsOK, OneDevicePerPeer, Registered
      <4> QED BY <4>1, <4>2, <4>3
    <3> QED BY <3>2, <3>4 DEF RowsOK, OneDevicePerPeer, Registered
  <2>14. AccessTypes'
    BY <1>2, <2>4, <2>7, <2>11 DEF AccessInd, AccessTypes
  <2> QED BY <1>3, <2>8, <2>10, <2>12, <2>13, <2>14 DEF AccessInd, Limits
<1> QED BY <1>4, <1>5

\* MarkKeepalive.
LEMMA MarkKeepaliveInd ==
    ASSUME AccessInd, NEW r \in Requests, NEW ok \in BOOLEAN, MarkKeepalive(r, ok)
    PROVE  AccessInd'
<1>1. PICK d : d = call[r].dev
  OBVIOUS
<1>2. /\ d \in Devices /\ call[r].time \in Nat /\ End(r)
      /\ UNCHANGED <<now, entries, used, cache, grants>>
  BY <1>1 DEF MarkKeepalive, AccessInd, AccessTypes, CallsOK, CallSet
<1>3. \/ row' = row
      \/ /\ row[d].reg.peer # None
         /\ \E reg : /\ \/ reg = [row[d].reg EXCEPT !.seen = call[r].time]
                        \/ reg = Offline
                     /\ row' = [row EXCEPT ![d].reg = reg]
  <2>1. CASE ~AtPeer(d, call[r].peer)
    BY <1>1, <2>1 DEF MarkKeepalive
  <2>2. CASE AtPeer(d, call[r].peer)
    <3>1. row[d].reg.peer # None
      BY <1>1, <2>2, AccessAssumption DEF AtPeer, MarkKeepalive, AccessInd, CallsOK
    <3>2. PICK reg : reg = IF ok THEN [row[d].reg EXCEPT !.seen = call[r].time] ELSE Offline
      OBVIOUS
    <3>3. row' = [row EXCEPT ![d].reg = reg]
      BY <1>1, <2>2, <3>2 DEF MarkKeepalive
    <3> QED BY <3>1, <3>2, <3>3
  <2> QED BY <2>1, <2>2
<1>4. call' \in [Requests -> CallSet] /\ CallsOK'
  BY <1>2, EndStep
<1>5. GrantsOK'
  BY <1>2, GrantsStay
<1>6. SingleRecords' /\ Limits'
  BY <1>2 DEF AccessInd, SingleRecords, Limits
<1>7. row' \in [Devices -> RowSet] /\ RowsOK'
  <2>1. CASE row' = row
    BY <2>1 DEF AccessInd, AccessTypes, RowsOK, OneDevicePerPeer, Registered
  <2>2. CASE row' # row
    <3>1. PICK reg : /\ \/ reg = [row[d].reg EXCEPT !.seen = call[r].time]
                        \/ reg = Offline
                     /\ row' = [row EXCEPT ![d].reg = reg]
      BY <1>3, <2>2
    <3>2. row[d].reg.peer # None /\ row[d] \in RowSet /\ row \in [Devices -> RowSet]
      BY <1>2, <1>3, <2>2 DEF AccessInd, AccessTypes
    <3>3. /\ reg \in [peer : Peers \cup {None}, until : Nat, seen : Nat]
          /\ reg = Offline \/ reg.peer = row[d].reg.peer
          /\ reg.peer = None => reg = Offline
      BY <1>2, <3>1, <3>2 DEF RowSet, Offline
    <3>4. PICK new : new = [row[d] EXCEPT !.reg = reg]
      OBVIOUS
    <3>5. new \in RowSet /\ new.reg = reg
      BY <3>2, <3>3, <3>4 DEF RowSet
    <3>6. row' = [row EXCEPT ![d] = new]
      BY <3>1, <3>4
    <3>7. /\ row' \in [Devices -> RowSet]
          /\ \A e \in Devices : row'[e].reg = IF e = d THEN reg ELSE row[e].reg
      BY <3>2, <3>5, <3>6
    <3>8. \A e \in Devices : row'[e].reg.peer = None => row'[e].reg = Offline
      BY <3>3, <3>7 DEF AccessInd, RowsOK
    <3>9. ASSUME NEW e \in Devices, NEW f \in Devices, e # f, row'[e].reg # Offline
          PROVE  row'[e].reg.peer # row'[f].reg.peer
      <4>0. row[e].reg # Offline
        <5>1. Offline.peer = None
          BY DEF Offline
        <5> QED BY <3>2, <3>7, <3>9, <5>1
      <4>1. row[e].reg.peer # None
        BY <4>0 DEF AccessInd, RowsOK
      <4>2. row[e].reg.peer # row[f].reg.peer
        BY <3>9, <4>0 DEF AccessInd, RowsOK, OneDevicePerPeer, Registered
      <4>3. row'[e].reg.peer = row[e].reg.peer
        BY <3>3, <3>7, <3>9
      <4>4. row'[f].reg.peer = row[f].reg.peer \/ row'[f].reg.peer = None
        BY <3>3, <3>7 DEF Offline
      <4> QED BY <4>1, <4>2, <4>3, <4>4
    <3> QED BY <3>7, <3>8, <3>9 DEF RowsOK, OneDevicePerPeer, Registered
  <2> QED BY <2>1, <2>2
<1> QED BY <1>2, <1>4, <1>5, <1>6, <1>7 DEF AccessInd, AccessTypes

\* A row is edited.
LEMMA EnableDeviceInd ==
    ASSUME AccessInd, NEW d \in Devices, EnableDevice(d)
    PROVE  AccessInd'
<1>1. PICK new : new = [row[d] EXCEPT !.enabled = ~@]
  OBVIOUS
<1>2. row' = [row EXCEPT ![d] = new] /\ UNCHANGED <<now, entries, used, cache, call, grants>>
  BY <1>1 DEF EnableDevice
<1>3. row \in [Devices -> RowSet] /\ new \in RowSet /\ new.reg = row[d].reg
  BY <1>1 DEF AccessInd, AccessTypes, RowSet
<1>4. row' \in [Devices -> RowSet] /\ \A e \in Devices : row'[e].reg = row[e].reg
  BY <1>2, <1>3
<1>5. RowsOK'
  BY <1>4 DEF AccessInd, RowsOK, OneDevicePerPeer, Registered
<1>6. AccessTypes' /\ SingleRecords' /\ Limits'
  BY <1>2, <1>4 DEF AccessInd, AccessTypes, SingleRecords, Limits
<1>7. GrantsOK' /\ CallsOK'
  BY <1>2 DEF AccessInd, GrantsOK, CallsOK, Fresh
<1> QED BY <1>5, <1>6, <1>7 DEF AccessInd

\* Every step of the registration.
LEMMA AccessNextInd == AccessInd /\ [AccessNext]_accessVars => AccessInd'
<1> SUFFICES ASSUME AccessInd, [AccessNext]_accessVars PROVE AccessInd'
  OBVIOUS
<1>1. ASSUME NEW d \in Devices, NEW p \in Peers, NEW n \in Nonces, Challenge(d, p, n) PROVE AccessInd'
  BY <1>1, ChallengeInd
<1>2. ASSUME NEW r \in Requests, NEW d \in Devices, NEW p \in Peers, HandleMessage(r, d, p)
      PROVE  AccessInd'
  <2>1. now \in Nat
    BY AccessAssumption DEF AccessInd, AccessTypes
  <2>2. PICK k : k = [Idle EXCEPT !.at = "alive", !.dev = d, !.peer = p, !.time = now]
    OBVIOUS
  <2>3. call' = [call EXCEPT ![r] = k] /\ UNCHANGED <<now, entries, used, cache, row, grants>>
    BY <1>2, <2>2 DEF HandleMessage
  <2>4. k \in CallSet /\ k.at = "alive" /\ k.dev = d /\ k.peer = p
    BY <2>1, <2>2, IdleCall DEF Idle, CallSet
  <2>5. cache' \subseteq cache
    BY <2>3
  <2> QED BY <2>3, <2>4, <2>5, HandleInd
<1>3. ASSUME NEW r \in Requests, NEW d \in Devices, NEW p \in Peers, NEW x \in Txs \cup {None},
             HandleRegister(r, d, p, x)
      PROVE  AccessInd'
  <2>1. PICK k : k = [Idle EXCEPT !.at = "looked", !.dev = d, !.peer = p, !.tx = x]
    OBVIOUS
  <2>2. UNCHANGED call \/ call' = [call EXCEPT ![r] = k]
    BY <1>3, <2>1 DEF HandleRegister
  <2>3. k \in CallSet /\ k.at = "looked" /\ k.dev = d /\ k.peer = p
    BY <2>1, IdleCall DEF Idle, CallSet
  <2>4. cache' \subseteq cache /\ UNCHANGED <<now, entries, used, row, grants>>
    BY <1>3 DEF HandleRegister, TxLive
  <2> QED BY <2>2, <2>3, <2>4, HandleInd
<1>4. ASSUME NEW r \in Requests, NEW n \in Nonces, NEW digest \in BOOLEAN, NEW ttl \in TTLs \cup {0},
             Consume(r, n, digest, ttl)
      PROVE  AccessInd'
  BY <1>4, ConsumeInd
<1>5. ASSUME NEW r \in Requests, ApplyRegistration(r) \/ \E ok \in BOOLEAN : MarkKeepalive(r, ok)
      PROVE  AccessInd'
  BY <1>5, ApplyRegistrationInd, MarkKeepaliveInd
<1>6. ASSUME NEW d \in Devices, EnableDevice(d) PROVE AccessInd'
  BY <1>6, EnableDeviceInd
<1>7. CASE Tick \/ UNCHANGED accessVars
  <2>1. /\ UNCHANGED <<entries, used, cache, row, call, grants>>
        /\ now' \in 0..MaxTime
    BY <1>7, AccessAssumption DEF Tick, accessVars, AccessInd, AccessTypes
  <2>2. IsFiniteSet(cache') /\ Cardinality(cache') <= MaxTxs
    BY <2>1 DEF AccessInd, Limits
  <2> QED BY <2>1, <2>2, AccessQuiet
<1> QED BY <1>1, <1>2, <1>3, <1>4, <1>5, <1>6, <1>7 DEF AccessNext

\* Nobody is registered at the start.
LEMMA AccessInitInd == AccessInit => AccessInd
<1> SUFFICES ASSUME AccessInit PROVE AccessInd
  OBVIOUS
<1>1. AccessTypes
  <2>1. Offline \in [peer : Peers \cup {None}, until : Nat, seen : Nat]
    BY DEF Offline
  <2>2. [enabled |-> TRUE, reg |-> Offline] \in RowSet
    BY <2>1 DEF RowSet
  <2>3. [dev |-> None, peer |-> None, done |-> << >>] \in GrantSet
    BY DEF GrantSet
  <2> QED BY <2>2, <2>3, IdleCall, AccessAssumption DEF AccessInit, AccessTypes
<1>2. SingleRecords /\ Limits
  BY FS_EmptySet, AccessAssumption DEF AccessInit, SingleRecords, Limits
<1>3. GrantsOK /\ CallsOK
  BY IdleCall DEF AccessInit, GrantsOK, CallsOK
<1>4. RowsOK
  BY DEF AccessInit, RowsOK, OneDevicePerPeer, Registered
<1> QED BY <1>1, <1>2, <1>3, <1>4 DEF AccessInd

\* ... and so it always holds.
LEMMA AccessInductive == AccessSpec => []AccessInd
<1> QED BY AccessInitInd, AccessNextInd, PTL DEF AccessSpec

\* The invariant of the runs.
LEMMA AccessIndGives == AccessInd => RegistrationsAgree
<1> SUFFICES ASSUME AccessInd PROVE RegistrationsAgree
  OBVIOUS
<1>1. AccessTypeOK
  BY DEF AccessInd, AccessTypes, Limits, AccessTypeOK, Times, EntrySet, UsedSet, CallSet, RowSet
<1>2. OneRegisterPerNonce
  <2> SUFFICES ASSUME NEW n \in Nonces
               PROVE  /\ Len(grants[n].done) <= 1
                      /\ \A i \in 1..Len(grants[n].done) : grants[n].done[i] = <<grants[n].dev, grants[n].peer>>
    BY DEF OneRegisterPerNonce
  <2>1. CASE grants[n].done = << >>
    BY <2>1
  <2>2. CASE grants[n].done = << <<grants[n].dev, grants[n].peer>> >>
    BY <2>2
  <2> QED BY <2>1, <2>2 DEF AccessInd, GrantsOK
<1> QED BY <1>1, <1>2 DEF AccessInd, RowsOK, RegistrationsAgree

\* However challenges, REGISTERs and keepalives overlap, are repeated, evicted or run
\* out (HandleRegister, MemoryNonceStore), a registration is the work of one
\* challenge, of its device and peer, and no two devices have one peer.
THEOREM RegistrationsAgreeAlways == AccessSpec => []RegistrationsAgree
  BY AccessInductive, AccessIndGives, PTL

\* Every change of a registration is by a request of its device that ends with it,
\* and a keepalive's only at its own peer (MarkKeepalive, ApplyRegistration).
THEOREM KeepaliveOfItsPeerAlways == AccessSpec => KeepaliveOfItsPeer
<1> DEFINE Held == \A d \in Devices : Registered(d) /\ row'[d].reg # row[d].reg
          => \E r \in Requests :
                /\ call[r].dev = d /\ call'[r] = Idle
                /\ call[r].at = "alive" => call[r].peer = row[d].reg.peer
<1>1. ASSUME AccessInd, NEW r \in Requests, ApplyRegistration(r) PROVE Held
  <2>1. call'[r] = Idle /\ call[r].at = "accepted"
    BY <1>1 DEF ApplyRegistration, End, AccessInd, AccessTypes
  <2>2. \A d \in Devices : d # call[r].dev => row'[d] = row[d]
    BY <1>1 DEF ApplyRegistration, AccessInd, AccessTypes
  <2> QED BY <2>1, <2>2
<1>2. ASSUME AccessInd, NEW r \in Requests, NEW ok \in BOOLEAN, MarkKeepalive(r, ok) PROVE Held
  <2>1. call'[r] = Idle
    BY <1>2 DEF MarkKeepalive, End, AccessInd, AccessTypes
  <2>2. \A d \in Devices : d # call[r].dev => row'[d] = row[d]
    BY <1>2 DEF MarkKeepalive, AccessInd, AccessTypes
  <2>3. row' # row => row[call[r].dev].reg.peer = call[r].peer
    BY <1>2 DEF MarkKeepalive, AtPeer
  <2> QED BY <2>1, <2>2, <2>3
<1>3. ASSUME AccessInd, NEW d \in Devices, EnableDevice(d) PROVE \A e \in Devices : row'[e].reg = row[e].reg
  <2>1. row[d] \in RowSet
    BY <1>3 DEF AccessInd, AccessTypes
  <2>2. [row[d] EXCEPT !.enabled = ~@].reg = row[d].reg
    BY <2>1 DEF RowSet
  <2>3. PICK new : new = [row[d] EXCEPT !.enabled = ~@]
    OBVIOUS
  <2>4. row' = [row EXCEPT ![d] = new]
    BY <1>3, <2>3 DEF EnableDevice
  <2> QED BY <2>2, <2>3, <2>4 DEF AccessInd, AccessTypes
<1>4. AccessInd /\ [AccessNext]_accessVars => [Held]_accessVars
  <2> SUFFICES ASSUME AccessInd, [AccessNext]_accessVars PROVE Held \/ UNCHANGED accessVars
    OBVIOUS
  <2>1. \/ \E r \in Requests : ApplyRegistration(r) \/ \E ok \in BOOLEAN : MarkKeepalive(r, ok)
        \/ \E d \in Devices : EnableDevice(d)
        \/ UNCHANGED row
    BY DEF AccessNext, Tick, Challenge, HandleMessage, HandleRegister, Consume, accessVars
  <2> QED BY <1>1, <1>2, <1>3, <2>1
<1> QED BY <1>4, AccessInductive, PTL DEF AccessSpec, KeepaliveOfItsPeer
-----------------------------------------------------------------------------
\* Catalogs.  The inductive invariant says what a call knows between its steps:
\* the store's refresh once it has started one, the coordinator's refresh while it
\* commits it or gives it up, which no other call does then.

CatalogSet == [state : {"none", "collecting", "complete", "failed"}, expected : 0..MaxItems,
               expires : Nat, failed : Nat \cup {Nil}, items : SUBSET Items]
CallPlaces == {"idle", "start", "started", "page", "commit", "replaced", "stale", "staled"}
ThreadSet == [at : CallPlaces, sn : SNs \cup {Nil}, expected : 0..MaxItems, time : Nat,
              page : BOOLEAN, deadline : Nat, items : SUBSET Items, ok : BOOLEAN]

MapTypes ==
    /\ pending \in [SNs -> Pending \cup {Nil}]
    /\ completed \in [SNs -> 0..MaxItems \cup {Nil}]
    /\ stale \subseteq SNs
StoreTypes ==
    /\ catalogs \in [SNs -> CatalogSet]
    /\ device \in {"never", "refreshing", "ready", "stale"}
    /\ latest \in SNs \cup {Nil}
ThreadTypes == wall \in 0..MaxWall /\ thread \in [Threads -> ThreadSet]

\* A refresh the coordinator gathers is one the store has.
MapsOK ==
    /\ \A s \in SNs : pending[s] # Nil =>
          /\ catalogs[s].state # "none"
          /\ pending[s].deadline = catalogs[s].expires
          /\ pending[s].expected = catalogs[s].expected
          /\ ~(pending[s].staling /\ pending[s].committing # Nil)
    /\ CompletedIsStored
    /\ StaleIsOver

StoreOK ==
    /\ RefreshingHasCatalog
    /\ latest # Nil => catalogs[latest].state = "complete" /\ channels = catalogs[latest].items

\* A call commits or gives up the refresh of the coordinator.
Commits(k) == k.at \in {"commit", "replaced"}
GivesUp(k) == k.at \in {"stale", "staled"}

CallOK(t, k) ==
    /\ k.at # "idle" => k.sn \in SNs
    /\ k.ok => k.at \in {"replaced", "staled"}
    /\ k.at = "started" => /\ catalogs[k.sn].state # "none"
                           /\ k.deadline = catalogs[k.sn].expires
                           /\ k.expected = catalogs[k.sn].expected
    /\ Commits(k) => /\ pending[k.sn] # Nil /\ pending[k.sn].committing = t
                     /\ Cardinality(k.items) = pending[k.sn].expected
    /\ k.at = "replaced" /\ k.ok => /\ catalogs[k.sn].state = "complete"
                                    /\ catalogs[k.sn].items = k.items
    /\ GivesUp(k) => /\ pending[k.sn] # Nil /\ pending[k.sn].staling
                     /\ k.time >= pending[k.sn].deadline
    /\ k.at = "staled" /\ k.ok => catalogs[k.sn].state \in {"complete", "failed"}

\* One call gives up a refresh.
Alone(j, k) == ~(GivesUp(j) /\ GivesUp(k) /\ j.sn = k.sn)

CatalogCalls ==
    /\ \A t \in Threads : CallOK(t, thread[t])
    /\ \A t, u \in Threads : t # u => Alone(thread[t], thread[u])

CatalogInd == MapTypes /\ StoreTypes /\ ThreadTypes /\ MapsOK /\ StoreOK /\ CatalogCalls

-----------------------------------------------------------------------------
\* What the store does to a refresh: it starts or it ends.
Later(s) ==
    \/ catalogs'[s] = catalogs[s]
    \/ catalogs[s].state = "none"
    \/ /\ catalogs[s].state = "collecting" /\ catalogs'[s].state # "none"
       /\ catalogs'[s].expires = catalogs[s].expires
       /\ catalogs'[s].expected = catalogs[s].expected

\* ... which leaves the coordinator right about it.
LEMMA MapsStay ==
    ASSUME CatalogInd, UNCHANGED maps, \A s \in SNs : Later(s)
    PROVE  MapsOK'
<1>1. ASSUME NEW s \in SNs, pending[s] # Nil PROVE catalogs'[s].state # "none" /\ catalogs'[s].expires = catalogs[s].expires /\ catalogs'[s].expected = catalogs[s].expected
  BY <1>1 DEF CatalogInd, MapsOK, Later
<1>2. ASSUME NEW s \in SNs, catalogs[s].state \in {"complete", "failed"} PROVE catalogs'[s] = catalogs[s]
  BY <1>2 DEF Later
<1>3. UNCHANGED <<pending, completed, stale>>
  BY DEF maps
<1> QED BY <1>1, <1>2, <1>3 DEF CatalogInd, MapTypes, MapsOK, CompletedIsStored, StaleIsOver

\* ... and a call that sees the coordinator's refresh as it was.
LEMMA CallStays ==
    ASSUME NEW t, NEW k, CallOK(t, k), k.at # "idle" => Later(k.sn),
           Commits(k) \/ GivesUp(k) => pending'[k.sn] = pending[k.sn]
    PROVE  CallOK(t, k)'
  BY DEF CallOK, Later, Commits, GivesUp

\* A call moves on, the others know what they did.
LEMMA CallTo ==
    ASSUME CatalogInd, NEW t \in Threads, NEW k \in ThreadSet, thread' = [thread EXCEPT ![t] = k],
           CallOK(t, k)',
           \A u \in Threads \ {t} : \A j : j = thread[u] => CallOK(u, j)' /\ Alone(j, k)
    PROVE  thread' \in [Threads -> ThreadSet] /\ CatalogCalls'
<1>1. /\ thread' \in [Threads -> ThreadSet]
      /\ \A u \in Threads : thread'[u] = IF u = t THEN k ELSE thread[u]
  BY DEF CatalogInd, ThreadTypes
<1>2. ASSUME NEW u \in Threads PROVE CallOK(u, thread[u])'
  <2>1. PICK j : j = thread'[u]
    OBVIOUS
  <2>2. CallOK(u, j)'
    BY <1>1, <2>1
  <2> QED BY <2>1, <2>2 DEF CallOK, Commits, GivesUp
<1>3. ASSUME NEW u \in Threads, NEW v \in Threads, u # v PROVE Alone(thread'[u], thread'[v])
  <2>1. CASE u = t
    BY <1>1, <1>3, <2>1 DEF Alone
  <2>2. CASE v = t
    BY <1>1, <1>3, <2>2 DEF Alone
  <2>3. CASE u # t /\ v # t
    BY <1>1, <1>3, <2>3 DEF CatalogInd, CatalogCalls
  <2> QED BY <2>1, <2>2, <2>3
<1> QED BY <1>1, <1>2, <1>3 DEF CatalogCalls, Alone, GivesUp

\* A call of the store that is over, or one that has not begun.
LEMMA NoCallOK ==
    /\ NoCall \in ThreadSet /\ NoCall.at = "idle" /\ NoCall.ok = FALSE
    /\ \A t : CallOK(t, NoCall)
    /\ \A j : Alone(NoCall, j) /\ Alone(j, NoCall)
<1>1. NoCall \in ThreadSet /\ NoCall.at = "idle" /\ NoCall.ok = FALSE
  BY CatalogAssumption DEF NoCall, ThreadSet, CallPlaces
<1> QED BY <1>1 DEF CallOK, Alone, Commits, GivesUp

\* A call moves on, and nothing else does.
LEMMA QuietCall ==
    ASSUME CatalogInd, NEW t \in Threads, NEW k \in ThreadSet, thread' = [thread EXCEPT ![t] = k],
           UNCHANGED <<wall, maps, store>>, CallOK(t, k), ~GivesUp(k)
    PROVE  CatalogInd'
<1>1. UNCHANGED <<wall, pending, completed, stale, catalogs, device, channels, latest>>
  BY DEF maps, store
<1>2. CallOK(t, k)'
  BY <1>1 DEF CallOK, Commits, GivesUp
<1>3. ASSUME NEW u \in Threads \ {t}, NEW j, j = thread[u] PROVE CallOK(u, j)' /\ Alone(j, k)
  <2>1. CallOK(u, j)
    BY <1>3 DEF CatalogInd, CatalogCalls
  <2> QED BY <1>1, <2>1 DEF CallOK, Commits, GivesUp, Alone
<1>4. thread' \in [Threads -> ThreadSet] /\ CatalogCalls'
  BY <1>2, <1>3, CallTo
<1> QED BY <1>1, <1>4 DEF CatalogInd, MapTypes, StoreTypes, ThreadTypes, MapsOK, StoreOK,
        CompletedIsStored, StaleIsOver, RefreshingHasCatalog

\* A call of the store moves its refreshes on.
LEMMA StoreStep ==
    ASSUME CatalogInd, NEW t \in Threads, NEW k \in ThreadSet, thread' = [thread EXCEPT ![t] = k],
           UNCHANGED <<wall, maps>>, StoreTypes', StoreOK', \A s \in SNs : Later(s), CallOK(t, k)',
           GivesUp(k) => GivesUp(thread[t]) /\ k.sn = thread[t].sn
    PROVE  CatalogInd'
<1>1. UNCHANGED <<pending, completed, stale>>
  BY DEF maps
<1>2. ASSUME NEW u \in Threads \ {t}, NEW j, j = thread[u] PROVE CallOK(u, j)' /\ Alone(j, k)
  <2>1. CallOK(u, j) /\ Alone(j, thread[t])
    BY <1>2 DEF CatalogInd, CatalogCalls
  <2>2. j.at # "idle" => Later(j.sn)
    BY <2>1 DEF CallOK
  <2>3. CallOK(u, j)'
    BY <1>1, <2>1, <2>2, CallStays
  <2>4. Alone(j, k)
    BY <2>1 DEF Alone
  <2> QED BY <2>3, <2>4
<1>3. thread' \in [Threads -> ThreadSet] /\ CatalogCalls'
  BY <1>2, CallTo
<1>4. MapsOK'
  BY MapsStay
<1> QED BY <1>1, <1>3, <1>4 DEF CatalogInd, MapTypes, ThreadTypes

-----------------------------------------------------------------------------
\* The steps of the calls.

\* Start: a call that is answered from the maps, or goes to the store.
LEMMA StartInd ==
    ASSUME CatalogInd, NEW t \in Threads, NEW s \in SNs, NEW n \in 0..MaxItems, NEW page \in BOOLEAN,
           Start(t, s, n, page)
    PROVE  CatalogInd'
<1>1. thread[t] = NoCall /\ UNCHANGED <<wall, maps, store>> /\ wall \in Nat
  BY CatalogAssumption DEF Start, CatalogInd, ThreadTypes
<1>2. PICK j, k : /\ j = [NoCall EXCEPT !.at = "page", !.sn = s, !.time = wall]
                  /\ k = [NoCall EXCEPT !.at = "start", !.sn = s, !.expected = n,
                            !.time = wall, !.page = page]
  OBVIOUS
<1>3. \/ thread' = [thread EXCEPT ![t] = NoCall]
      \/ thread' = [thread EXCEPT ![t] = j]
      \/ thread' = [thread EXCEPT ![t] = k]
  BY <1>2 DEF Start
<1>4. /\ j \in ThreadSet /\ j.at = "page" /\ j.sn = s /\ ~j.ok
      /\ k \in ThreadSet /\ k.at = "start" /\ k.sn = s /\ ~k.ok
  BY <1>1, <1>2, NoCallOK DEF NoCall, ThreadSet, CallPlaces
<1>5. CallOK(t, j) /\ CallOK(t, k) /\ ~GivesUp(j) /\ ~GivesUp(k) /\ ~GivesUp(NoCall)
  BY <1>4, NoCallOK DEF CallOK, Commits, GivesUp
<1> QED BY <1>1, <1>3, <1>4, <1>5, NoCallOK, QuietCall

\* The store's answer to a start: a refresh begins, is told, has failed or is refused.
LEMMA StartRefreshInd ==
    ASSUME CatalogInd, NEW t \in Threads, NEW arrives \in BOOLEAN, StartRefresh(t, arrives)
    PROVE  CatalogInd'
<1>1. PICK o, s, c, due : /\ o = thread[t] /\ s = o.sn /\ c = catalogs[s]
                          /\ due = o.time + RefreshTimeout
  OBVIOUS
<1>2. /\ o \in ThreadSet /\ o.at = "start" /\ s \in SNs /\ c \in CatalogSet /\ CallOK(t, o)
      /\ UNCHANGED <<wall, maps, channels, latest>>
  BY <1>1 DEF StartRefresh, CatalogInd, ThreadTypes, StoreTypes, CatalogCalls, CallOK
<1>3. wall \in Nat /\ due \in Nat
  BY <1>1, <1>2, CatalogAssumption DEF CatalogInd, ThreadTypes, ThreadSet
<1>4. PICK k, j : /\ k = [o EXCEPT !.at = "started", !.deadline = c.expires]
                  /\ j = [o EXCEPT !.at = "started", !.deadline = due]
  OBVIOUS
<1>5. /\ k \in ThreadSet /\ k.at = "started" /\ k.sn = s /\ k.deadline = c.expires
      /\ k.expected = o.expected /\ ~k.ok
      /\ j \in ThreadSet /\ j.at = "started" /\ j.sn = s /\ j.deadline = due
      /\ j.expected = o.expected /\ ~j.ok
  BY <1>1, <1>2, <1>3, <1>4 DEF ThreadSet, CallPlaces, CatalogSet, CallOK
<1>6. CASE UNCHANGED <<catalogs, device>>
  <2>1. UNCHANGED <<wall, maps, store>>
    BY <1>2, <1>6 DEF store
  <2>2. \/ thread' = [thread EXCEPT ![t] = NoCall]
        \/ /\ c.state = "collecting" /\ c.expected = o.expected
           /\ thread' = [thread EXCEPT ![t] = k]
        \/ c.state = "none" /\ device' = "refreshing" /\ catalogs'[s].state = "collecting"
    <3>1. catalogs \in [SNs -> CatalogSet]
      BY DEF CatalogInd, StoreTypes
    <3> QED BY <1>1, <1>2, <1>4, <3>1 DEF StartRefresh, Return
  <2>3. ~(c.state = "none" /\ device' = "refreshing" /\ catalogs'[s].state = "collecting")
    BY <1>1, <1>6
  <2>4. c.state = "collecting" /\ c.expected = o.expected => CallOK(t, k) /\ ~GivesUp(k)
    BY <1>1, <1>2, <1>5 DEF CallOK, Commits, GivesUp
  <2>5. ~GivesUp(NoCall)
    BY NoCallOK DEF GivesUp
  <2> QED BY <1>5, <2>1, <2>2, <2>3, <2>4, <2>5, NoCallOK, QuietCall
<1>7. CASE ~UNCHANGED <<catalogs, device>>
  <2>1. PICK new \in CatalogSet :
          /\ catalogs' = [catalogs EXCEPT ![s] = new]
          /\ \/ /\ c.state = "collecting" /\ new.state = "failed" /\ device' = "stale"
                /\ new.expires = c.expires /\ new.expected = c.expected
                /\ thread' = [thread EXCEPT ![t] = NoCall]
             \/ /\ c.state = "none" /\ new.state = "collecting" /\ device' = "refreshing"
                /\ new.expires = due /\ new.expected = o.expected
                /\ \/ thread' = [thread EXCEPT ![t] = NoCall]
                   \/ thread' = [thread EXCEPT ![t] = j]
    <3>1. PICK a, b : /\ a = [c EXCEPT !.state = "failed", !.failed = wall]
                      /\ b = [state |-> "collecting", expected |-> o.expected,
                              expires |-> due, failed |-> Nil, items |-> {}]
      OBVIOUS
    <3>2. /\ a \in CatalogSet /\ a.state = "failed" /\ a.expires = c.expires /\ a.expected = c.expected
          /\ b \in CatalogSet /\ b.state = "collecting" /\ b.expires = due /\ b.expected = o.expected
      BY <1>2, <1>3, <3>1 DEF CatalogSet, ThreadSet
    <3>3. \/ /\ c.state = "collecting" /\ catalogs' = [catalogs EXCEPT ![s] = a] /\ device' = "stale"
             /\ thread' = [thread EXCEPT ![t] = NoCall]
          \/ /\ c.state = "none" /\ catalogs' = [catalogs EXCEPT ![s] = b] /\ device' = "refreshing"
             /\ \/ thread' = [thread EXCEPT ![t] = NoCall]
                \/ thread' = [thread EXCEPT ![t] = j]
      BY <1>1, <1>4, <1>7, <3>1 DEF StartRefresh, Return, Expired
    <3> QED BY <3>2, <3>3
  <2>2. /\ catalogs' \in [SNs -> CatalogSet]
        /\ \A x \in SNs : catalogs'[x] = IF x = s THEN new ELSE catalogs[x]
    BY <1>2, <2>1 DEF CatalogInd, StoreTypes
  <2>3. \A x \in SNs : Later(x)
    BY <1>1, <2>1, <2>2 DEF Later
  <2>4. StoreTypes'
    BY <1>2, <2>1, <2>2 DEF CatalogInd, StoreTypes
  <2>5. StoreOK'
    <3>1. device' = "refreshing" => catalogs'[s].state = "collecting"
      BY <1>2, <2>1, <2>2
    <3>2. latest # Nil => latest # s /\ latest \in SNs
      BY <1>1, <2>1 DEF CatalogInd, StoreOK, StoreTypes
    <3> QED BY <1>2, <2>2, <3>1, <3>2 DEF CatalogInd, StoreOK, RefreshingHasCatalog
  <2>6. ~GivesUp(NoCall) /\ ~GivesUp(j) /\ CallOK(t, NoCall)'
    BY <1>5, NoCallOK DEF GivesUp, CallOK, Commits
  <2>7. c.state = "none" => CallOK(t, j)'
    BY <1>2, <1>5, <2>1, <2>2 DEF CallOK, Commits, GivesUp
  <2> QED BY <1>2, <1>5, <2>1, <2>3, <2>4, <2>5, <2>6, <2>7, NoCallOK, StoreStep
<1> QED BY <1>6, <1>7

\* A step of the coordinator at one refresh, which no other call commits or gives up.
LEMMA MapStep ==
    ASSUME CatalogInd, NEW t \in Threads, NEW k \in ThreadSet, thread' = [thread EXCEPT ![t] = k],
           NEW s \in SNs, UNCHANGED <<wall, store>>, MapTypes', MapsOK', CallOK(t, k)',
           \A x \in SNs \ {s} : pending'[x] = pending[x],
           \A u \in Threads \ {t} :
              Commits(thread[u]) \/ GivesUp(thread[u]) => thread[u].sn # s,
           GivesUp(k) => k.sn = s
    PROVE  CatalogInd'
<1>1. UNCHANGED <<wall, catalogs, device, channels, latest>>
  BY DEF store
<1>2. ASSUME NEW u \in Threads \ {t}, NEW j, j = thread[u] PROVE CallOK(u, j)' /\ Alone(j, k)
  <2>1. CallOK(u, j)
    BY <1>2 DEF CatalogInd, CatalogCalls
  <2>2. j.at # "idle" => Later(j.sn)
    BY <1>1 DEF Later
  <2>3. Commits(j) \/ GivesUp(j) => j.sn # s /\ j.sn \in SNs
    BY <1>2, <2>1 DEF CallOK, Commits, GivesUp
  <2>4. CallOK(u, j)'
    BY <2>1, <2>2, <2>3, CallStays
  <2>5. Alone(j, k)
    BY <2>3 DEF Alone
  <2> QED BY <2>4, <2>5
<1>3. thread' \in [Threads -> ThreadSet] /\ CatalogCalls'
  BY <1>2, CallTo
<1> QED BY <1>1, <1>3 DEF CatalogInd, StoreTypes, ThreadTypes, StoreOK, RefreshingHasCatalog

\* The maps after such a step.
LEMMA MapsTo ==
    ASSUME CatalogInd, NEW s \in SNs, NEW p \in Pending \cup {Nil},
           pending' = [pending EXCEPT ![s] = p], UNCHANGED <<completed, stale, store>>,
           p # Nil => /\ catalogs[s].state # "none"
                      /\ p.deadline = catalogs[s].expires
                      /\ p.expected = catalogs[s].expected
                      /\ ~(p.staling /\ p.committing # Nil)
    PROVE  /\ MapTypes' /\ MapsOK'
           /\ \A x \in SNs : pending'[x] = IF x = s THEN p ELSE pending[x]
<1>1. UNCHANGED <<catalogs, completed, stale>>
  BY DEF store
<1>2. /\ pending' \in [SNs -> Pending \cup {Nil}]
      /\ \A x \in SNs : pending'[x] = IF x = s THEN p ELSE pending[x]
  BY DEF CatalogInd, MapTypes
<1>3. MapTypes'
  BY <1>1, <1>2 DEF CatalogInd, MapTypes
<1>4. MapsOK'
  BY <1>1, <1>2 DEF CatalogInd, MapsOK, CompletedIsStored, StaleIsOver
<1> QED BY <1>2, <1>3, <1>4

\* No other call commits or gives up a refresh that is free, or one of this call's.
LEMMA OnlyCall ==
    ASSUME CatalogInd, NEW t \in Threads, NEW s \in SNs,
           \/ pending[s] = Nil
           \/ ~pending[s].staling /\ pending[s].committing = Nil
           \/ pending[s].committing = t
           \/ GivesUp(thread[t]) /\ thread[t].sn = s
    PROVE  \A u \in Threads \ {t} : Commits(thread[u]) \/ GivesUp(thread[u]) => thread[u].sn # s
<1> SUFFICES ASSUME NEW u \in Threads \ {t}, Commits(thread[u]) \/ GivesUp(thread[u]), thread[u].sn = s
             PROVE  FALSE
  OBVIOUS
<1>1. CallOK(u, thread[u]) /\ CallOK(t, thread[t]) /\ Alone(thread[t], thread[u])
  BY DEF CatalogInd, CatalogCalls
<1>2. t \in Threads /\ u \in Threads /\ u # t /\ t # Nil /\ u # Nil
  BY CatalogAssumption
<1>3. pending[s] # Nil => ~(pending[s].staling /\ pending[s].committing # Nil)
  BY DEF CatalogInd, MapsOK
<1> QED BY <1>1, <1>2, <1>3 DEF CallOK, Alone

\* The coordinator takes the refresh up unless it knows of one.
LEMMA StartedInd ==
    ASSUME CatalogInd, NEW t \in Threads, Started(t)
    PROVE  CatalogInd'
<1>1. PICK o, s : o = thread[t] /\ s = o.sn
  OBVIOUS
<1>2. o \in ThreadSet /\ o.at = "started" /\ s \in SNs /\ CallOK(t, o)
  BY <1>1 DEF Started, CatalogInd, ThreadTypes, CatalogCalls, CallOK
<1>3. /\ catalogs[s].state # "none" /\ o.deadline = catalogs[s].expires
      /\ o.expected = catalogs[s].expected /\ ~o.ok
  BY <1>1, <1>2 DEF CallOK
<1>4. PICK p, j : /\ p = [expected |-> o.expected, deadline |-> o.deadline, items |-> {},
                          staling |-> FALSE, committing |-> Nil]
                  /\ j = [NoCall EXCEPT !.at = "page", !.sn = s, !.time = o.time]
  OBVIOUS
<1>5. /\ p \in Pending /\ p.expected = o.expected /\ p.deadline = o.deadline /\ ~p.staling
      /\ j \in ThreadSet /\ j.at = "page" /\ j.sn = s /\ ~j.ok
  BY <1>2, <1>4, NoCallOK DEF NoCall, ThreadSet, CallPlaces, Pending
<1>6. PICK k : /\ k = NoCall \/ k = j
               /\ thread' = [thread EXCEPT ![t] = k]
  BY <1>1, <1>4 DEF Started
<1>7. k \in ThreadSet /\ CallOK(t, k) /\ ~GivesUp(k) /\ CallOK(t, k)'
  <2>1. k.at \in {"idle", "page"} /\ ~k.ok /\ k \in ThreadSet /\ (k.at = "page" => k.sn \in SNs)
    BY <1>2, <1>5, <1>6, NoCallOK
  <2> QED BY <2>1 DEF CallOK, Commits, GivesUp
<1>8. UNCHANGED <<wall, completed, stale, store>>
  BY DEF Started
<1>9. CASE pending[s] = Nil /\ completed[s] = Nil
  <2>1. pending' = [pending EXCEPT ![s] = p]
    BY <1>1, <1>4, <1>9 DEF Started
  <2>2. MapTypes' /\ MapsOK' /\ \A x \in SNs : pending'[x] = IF x = s THEN p ELSE pending[x]
    <3>1. p \in Pending \cup {Nil} /\ UNCHANGED <<completed, stale, store>>
      BY <1>5, <1>8
    <3>2. /\ catalogs[s].state # "none" /\ p.deadline = catalogs[s].expires
          /\ p.expected = catalogs[s].expected /\ ~(p.staling /\ p.committing # Nil)
      BY <1>3, <1>5
    <3> QED BY <1>2, <2>1, <3>1, <3>2, MapsTo
  <2>3. \A u \in Threads \ {t} : Commits(thread[u]) \/ GivesUp(thread[u]) => thread[u].sn # s
    BY <1>2, <1>9, OnlyCall
  <2> QED BY <1>2, <1>6, <1>7, <1>8, <2>2, <2>3, MapStep
<1>10. CASE ~(pending[s] = Nil /\ completed[s] = Nil)
  <2>1. UNCHANGED <<wall, maps, store>>
    BY <1>1, <1>10 DEF Started, maps
  <2> QED BY <1>6, <1>7, <2>1, QuietCall
<1> QED BY <1>9, <1>10

\* What a page adds belongs to the items of a catalog.
LEMMA MergesItems ==
    ASSUME NEW n, NEW old \in SUBSET Items, NEW q \in Pages(n), NEW m \in Merges(old, q)
    PROVE  m \in SUBSET Items
  BY Zenon DEF Merges, Pages

\* A page is refused, merged, completes the refresh or finds it late.
LEMMA AcceptPageInd ==
    ASSUME CatalogInd, NEW t \in Threads, NEW q, AcceptPage(t, q)
    PROVE  CatalogInd'
<1>1. PICK o, s, p : o = thread[t] /\ s = o.sn /\ p = pending[s]
  OBVIOUS
<1>2. o \in ThreadSet /\ o.at = "page" /\ ~o.ok /\ s \in SNs
  BY <1>1 DEF AcceptPage, CatalogInd, ThreadTypes, CatalogCalls, CallOK
<1>3. UNCHANGED <<wall, completed, stale, store>> /\ t # Nil
  BY CatalogAssumption DEF AcceptPage
<1>4. CASE thread' = [thread EXCEPT ![t] = NoCall] /\ UNCHANGED pending
  <2>1. UNCHANGED <<wall, maps, store>> /\ CallOK(t, NoCall) /\ ~GivesUp(NoCall)
    BY <1>3, <1>4, NoCallOK DEF maps, GivesUp
  <2> QED BY <1>4, <2>1, NoCallOK, QuietCall
<1>5. CASE ~(thread' = [thread EXCEPT ![t] = NoCall] /\ UNCHANGED pending)
  <2>1. /\ p # Nil /\ ~p.staling /\ p.committing = Nil
        /\ \/ /\ o.time >= p.deadline
              /\ pending' = [pending EXCEPT ![s].staling = TRUE]
              /\ thread' = [thread EXCEPT ![t].at = "stale"]
           \/ /\ q \in Pages(p.expected)
              /\ \E merged \in Merges(p.items, q) :
                    IF ~Conflicts(p.items, q) /\ Cardinality(merged) = p.expected
                    THEN /\ pending' = [pending EXCEPT ![s] = [@ EXCEPT !.items = merged, !.committing = t]]
                         /\ thread' = [thread EXCEPT ![t] = [@ EXCEPT !.at = "commit", !.items = merged]]
                    ELSE /\ pending' = [pending EXCEPT ![s].items = merged]
                         /\ thread' = [thread EXCEPT ![t] = NoCall]
    BY <1>1, <1>5, Zenon DEF AcceptPage, Return, Goto
  <2>2. /\ p \in Pending /\ catalogs[s].state # "none"
        /\ p.deadline = catalogs[s].expires /\ p.expected = catalogs[s].expected
    BY <1>1, <1>2, <2>1 DEF CatalogInd, MapTypes, MapsOK
  <2>3. pending \in [SNs -> Pending \cup {Nil}] /\ thread \in [Threads -> ThreadSet]
    BY DEF CatalogInd, MapTypes, ThreadTypes
  <2>4. PICK r \in Pending, k \in ThreadSet :
          /\ pending' = [pending EXCEPT ![s] = r] /\ thread' = [thread EXCEPT ![t] = k]
          /\ r.deadline = p.deadline /\ r.expected = p.expected
          /\ \/ /\ r.staling /\ r.committing = Nil
                /\ k.at = "stale" /\ k.sn = s /\ ~k.ok /\ k.time >= r.deadline
             \/ /\ ~r.staling /\ r.committing = t
                /\ k.at = "commit" /\ k.sn = s /\ ~k.ok /\ Cardinality(k.items) = r.expected
             \/ ~r.staling /\ r.committing = Nil /\ k = NoCall
    <3>1. CASE /\ o.time >= p.deadline
               /\ pending' = [pending EXCEPT ![s].staling = TRUE]
               /\ thread' = [thread EXCEPT ![t].at = "stale"]
      <4>1. PICK r, k : r = [p EXCEPT !.staling = TRUE] /\ k = [o EXCEPT !.at = "stale"]
        OBVIOUS
      <4>2. pending' = [pending EXCEPT ![s] = r] /\ thread' = [thread EXCEPT ![t] = k]
        BY <1>1, <3>1, <4>1
      <4>3. /\ r \in Pending /\ r.deadline = p.deadline /\ r.expected = p.expected
            /\ r.staling /\ r.committing = Nil
        BY <2>1, <2>2, <4>1 DEF Pending
      <4>4. /\ k \in ThreadSet /\ k.at = "stale" /\ k.sn = s /\ k.ok = o.ok /\ k.time = o.time
        BY <1>1, <1>2, <4>1 DEF ThreadSet, CallPlaces
      <4> QED BY <1>2, <3>1, <4>2, <4>3, <4>4
    <3>2. CASE \E merged \in Merges(p.items, q) :
                  /\ q \in Pages(p.expected)
                  /\ IF ~Conflicts(p.items, q) /\ Cardinality(merged) = p.expected
                     THEN /\ pending' = [pending EXCEPT ![s] = [@ EXCEPT !.items = merged, !.committing = t]]
                          /\ thread' = [thread EXCEPT ![t] = [@ EXCEPT !.at = "commit", !.items = merged]]
                     ELSE /\ pending' = [pending EXCEPT ![s].items = merged]
                          /\ thread' = [thread EXCEPT ![t] = NoCall]
      <4>1. PICK merged \in Merges(p.items, q) :
                  /\ q \in Pages(p.expected)
                  /\ IF ~Conflicts(p.items, q) /\ Cardinality(merged) = p.expected
                     THEN /\ pending' = [pending EXCEPT ![s] = [@ EXCEPT !.items = merged, !.committing = t]]
                          /\ thread' = [thread EXCEPT ![t] = [@ EXCEPT !.at = "commit", !.items = merged]]
                     ELSE /\ pending' = [pending EXCEPT ![s].items = merged]
                          /\ thread' = [thread EXCEPT ![t] = NoCall]
        BY <3>2, Zenon
      <4>2. p.items \in SUBSET Items
        BY <2>2 DEF Pending
      <4>3. merged \in SUBSET Items
        BY <4>1, <4>2, MergesItems
      <4>4. PICK a, b, k : /\ a = [p EXCEPT !.items = merged, !.committing = t]
                           /\ b = [p EXCEPT !.items = merged]
                           /\ k = [o EXCEPT !.at = "commit", !.items = merged]
        OBVIOUS
      <4>5. /\ a \in Pending /\ a.deadline = p.deadline /\ a.expected = p.expected
            /\ a.staling = p.staling /\ a.committing = t
            /\ b \in Pending /\ b.deadline = p.deadline /\ b.expected = p.expected
            /\ b.staling = p.staling /\ b.committing = p.committing
        BY <2>2, <4>3, <4>4 DEF Pending
      <4>6. /\ k \in ThreadSet /\ k.at = "commit" /\ k.sn = s /\ k.ok = o.ok /\ k.items = merged
        BY <1>1, <1>2, <4>3, <4>4 DEF ThreadSet, CallPlaces
      <4>7. \/ /\ Cardinality(merged) = p.expected
               /\ pending' = [pending EXCEPT ![s] = a] /\ thread' = [thread EXCEPT ![t] = k]
            \/ /\ pending' = [pending EXCEPT ![s] = b] /\ thread' = [thread EXCEPT ![t] = NoCall]
        BY <1>1, <4>1, <4>4
      <4> QED BY <1>2, <2>1, <4>5, <4>6, <4>7, NoCallOK
    <3> QED BY <2>1, <3>1, <3>2
  <2>5. r # Nil /\ r \in Pending \cup {Nil} /\ UNCHANGED <<completed, stale, store>>
    BY <1>3, CatalogAssumption
  <2>6. /\ catalogs[s].state # "none" /\ r.deadline = catalogs[s].expires
        /\ r.expected = catalogs[s].expected /\ ~(r.staling /\ r.committing # Nil)
    BY <2>2, <2>4
  <2>7. MapTypes' /\ MapsOK' /\ \A x \in SNs : pending'[x] = IF x = s THEN r ELSE pending[x]
    BY <1>2, <2>4, <2>5, <2>6, MapsTo
  <2>8. \A u \in Threads \ {t} : Commits(thread[u]) \/ GivesUp(thread[u]) => thread[u].sn # s
    BY <1>1, <1>2, <2>1, OnlyCall
  <2>9. CallOK(t, k)' /\ (GivesUp(k) => k.sn = s)
    <3>1. pending'[s] = r
      BY <1>2, <2>7
    <3> QED BY <1>2, <2>4, <2>5, <3>1, NoCallOK DEF CallOK, Commits, GivesUp
  <2> QED BY <1>2, <1>3, <2>4, <2>7, <2>8, <2>9, MapStep
<1> QED BY <1>4, <1>5

\* The store completes the refresh, or refuses; the call knows which, or not.
LEMMA ReplaceCatalogInd ==
    ASSUME CatalogInd, NEW t \in Threads, ReplaceCatalog(t)
    PROVE  CatalogInd'
<1>1. PICK o, s, c : o = thread[t] /\ s = o.sn /\ c = catalogs[s]
  OBVIOUS
<1>2. /\ o \in ThreadSet /\ o.at = "commit" /\ ~o.ok /\ s \in SNs /\ c \in CatalogSet
      /\ CallOK(t, o) /\ UNCHANGED <<wall, maps>>
  BY <1>1 DEF ReplaceCatalog, CatalogInd, ThreadTypes, StoreTypes, CatalogCalls, CallOK
<1>3. CASE thread' = [thread EXCEPT ![t].at = "replaced"] /\ UNCHANGED store
  <2>1. PICK k : k = [o EXCEPT !.at = "replaced"]
    OBVIOUS
  <2>2. /\ k \in ThreadSet /\ k.at = "replaced" /\ ~k.ok /\ k.sn = s /\ k.items = o.items
        /\ k.expected = o.expected
    BY <1>1, <1>2, <2>1 DEF ThreadSet, CallPlaces
  <2>3. thread' = [thread EXCEPT ![t] = k]
    BY <1>1, <1>3, <2>1
  <2>4. CallOK(t, k) /\ ~GivesUp(k)
    BY <1>1, <1>2, <2>2 DEF CallOK, Commits, GivesUp
  <2>5. UNCHANGED <<wall, maps, store>>
    BY <1>2, <1>3
  <2> QED BY <2>2, <2>3, <2>4, <2>5, QuietCall
<1>4. CASE \E arrives \in BOOLEAN :
             /\ c.state = "collecting"
             /\ catalogs' = [catalogs EXCEPT ![s] = [@ EXCEPT !.state = "complete", !.items = o.items]]
             /\ channels' = o.items /\ device' = "ready" /\ latest' = s
             /\ thread' = [thread EXCEPT ![t] = [@ EXCEPT !.at = "replaced", !.ok = arrives]]
  <2>1. PICK arrives \in BOOLEAN :
             /\ c.state = "collecting"
             /\ catalogs' = [catalogs EXCEPT ![s] = [@ EXCEPT !.state = "complete", !.items = o.items]]
             /\ channels' = o.items /\ device' = "ready" /\ latest' = s
             /\ thread' = [thread EXCEPT ![t] = [@ EXCEPT !.at = "replaced", !.ok = arrives]]
    BY <1>4, Zenon
  <2>2. PICK new, k : /\ new = [c EXCEPT !.state = "complete", !.items = o.items]
                      /\ k = [o EXCEPT !.at = "replaced", !.ok = arrives]
    OBVIOUS
  <2>3. /\ new \in CatalogSet /\ new.state = "complete" /\ new.items = o.items
        /\ new.expires = c.expires /\ new.expected = c.expected
    BY <1>2, <2>2 DEF CatalogSet, ThreadSet
  <2>4. k \in ThreadSet /\ k.at = "replaced" /\ k.sn = s /\ k.items = o.items
    BY <1>1, <1>2, <2>2 DEF ThreadSet, CallPlaces
  <2>5. catalogs' = [catalogs EXCEPT ![s] = new] /\ thread' = [thread EXCEPT ![t] = k]
    BY <1>1, <2>1, <2>2
  <2>6. /\ catalogs' \in [SNs -> CatalogSet]
        /\ \A x \in SNs : catalogs'[x] = IF x = s THEN new ELSE catalogs[x]
    BY <1>2, <2>3, <2>5 DEF CatalogInd, StoreTypes
  <2>7. \A x \in SNs : Later(x)
    BY <1>1, <2>1, <2>3, <2>6 DEF Later
  <2>8. StoreTypes' /\ StoreOK'
    BY <1>2, <2>1, <2>3, <2>6 DEF StoreTypes, StoreOK, RefreshingHasCatalog
  <2>9. CallOK(t, k)' /\ ~GivesUp(k)
    <3>1. UNCHANGED pending
      BY <1>2 DEF maps
    <3> QED BY <1>1, <1>2, <2>3, <2>4, <2>6, <3>1 DEF CallOK, Commits, GivesUp
  <2> QED BY <1>2, <2>4, <2>5, <2>7, <2>8, <2>9, StoreStep
<1> QED BY <1>1, <1>3, <1>4, Zenon DEF ReplaceCatalog, Goto, ChannelsAfter

\* The coordinator learns how its commit ended.
LEMMA ReplacedInd ==
    ASSUME CatalogInd, NEW t \in Threads, Replaced(t)
    PROVE  CatalogInd'
<1>1. PICK o, s, p : o = thread[t] /\ s = o.sn /\ p = pending[s]
  OBVIOUS
<1>2. /\ o \in ThreadSet /\ o.at = "replaced" /\ s \in SNs /\ CallOK(t, o)
      /\ UNCHANGED <<wall, stale, store>> /\ thread' = [thread EXCEPT ![t] = NoCall]
  BY <1>1 DEF Replaced, Return, CatalogInd, ThreadTypes, CatalogCalls, CallOK
<1>3. p \in Pending /\ p # Nil /\ p.committing = t /\ Cardinality(o.items) = p.expected
  BY <1>1, <1>2 DEF CallOK, Commits, CatalogInd, MapTypes
<1>4. /\ catalogs[s].state # "none" /\ ~p.staling
      /\ p.deadline = catalogs[s].expires /\ p.expected = catalogs[s].expected
  BY <1>1, <1>2, <1>3, CatalogAssumption DEF CatalogInd, MapsOK
<1>5. MapTypes' /\ MapsOK' /\ \A x \in SNs \ {s} : pending'[x] = pending[x]
  <2>1. CASE o.ok
    <3>1. pending' = [pending EXCEPT ![s] = Nil] /\ completed' = [completed EXCEPT ![s] = p.expected]
      BY <1>1, <1>3, <2>1 DEF Replaced
    <3>2. /\ pending' \in [SNs -> Pending \cup {Nil}]
          /\ \A x \in SNs : pending'[x] = IF x = s THEN Nil ELSE pending[x]
      BY <3>1 DEF CatalogInd, MapTypes
    <3>3. p.expected \in 0..MaxItems
      BY <1>3 DEF Pending
    <3>4. /\ completed' \in [SNs -> 0..MaxItems \cup {Nil}]
          /\ \A x \in SNs : completed'[x] = IF x = s THEN p.expected ELSE completed[x]
      BY <3>1, <3>3 DEF CatalogInd, MapTypes
    <3>5. UNCHANGED <<stale, catalogs>>
      BY <1>2 DEF store
    <3>6. catalogs[s].state = "complete" /\ Cardinality(catalogs[s].items) = p.expected
      BY <1>1, <1>2, <1>3, <2>1 DEF CallOK
    <3>7. MapTypes'
      BY <3>2, <3>4, <3>5 DEF CatalogInd, MapTypes
    <3>8. MapsOK'
      BY <3>2, <3>4, <3>5, <3>6 DEF CatalogInd, MapsOK, CompletedIsStored, StaleIsOver
    <3> QED BY <3>2, <3>7, <3>8
  <2>2. CASE ~o.ok
    <3>1. PICK r : r = [p EXCEPT !.committing = Nil]
      OBVIOUS
    <3>2. /\ r \in Pending /\ r.deadline = p.deadline /\ r.expected = p.expected
          /\ r.staling = p.staling /\ r.committing = Nil
      BY <1>3, <3>1 DEF Pending
    <3>3. pending' = [pending EXCEPT ![s] = r] /\ UNCHANGED <<completed, stale, store>>
      BY <1>1, <1>2, <1>3, <2>2, <3>1 DEF Replaced
    <3>4. /\ catalogs[s].state # "none" /\ r.deadline = catalogs[s].expires
          /\ r.expected = catalogs[s].expected /\ ~(r.staling /\ r.committing # Nil)
      BY <1>4, <3>2
    <3>5. r \in Pending \cup {Nil}
      BY <3>2
    <3>6. MapTypes' /\ MapsOK' /\ \A x \in SNs : pending'[x] = IF x = s THEN r ELSE pending[x]
      BY <1>2, <3>3, <3>4, <3>5, MapsTo
    <3> QED BY <3>6
  <2> QED BY <2>1, <2>2
<1>6. \A u \in Threads \ {t} : Commits(thread[u]) \/ GivesUp(thread[u]) => thread[u].sn # s
  BY <1>1, <1>2, <1>3, OnlyCall
<1>7. CallOK(t, NoCall)' /\ ~GivesUp(NoCall)
  BY NoCallOK DEF CallOK, Commits, GivesUp
<1> QED BY <1>2, <1>5, <1>6, <1>7, NoCallOK, MapStep

\* The deadline of a refresh has passed.
LEMMA ExpireInd ==
    ASSUME CatalogInd, NEW t \in Threads, NEW s \in SNs, Expire(t, s)
    PROVE  CatalogInd'
<1>1. PICK p : p = pending[s]
  OBVIOUS
<1>2. /\ thread[t] = NoCall /\ p # Nil /\ wall >= p.deadline /\ p.committing = Nil /\ ~p.staling
      /\ UNCHANGED <<wall, completed, stale, store>>
  BY <1>1 DEF Expire
<1>3. /\ p \in Pending /\ catalogs[s].state # "none" /\ wall \in Nat
      /\ p.deadline = catalogs[s].expires /\ p.expected = catalogs[s].expected
  BY <1>1, <1>2, CatalogAssumption DEF CatalogInd, MapTypes, MapsOK, ThreadTypes
<1>4. PICK r, k : /\ r = [p EXCEPT !.staling = TRUE]
                  /\ k = [NoCall EXCEPT !.at = "stale", !.sn = s, !.time = wall]
  OBVIOUS
<1>5. /\ r \in Pending /\ r.deadline = p.deadline /\ r.expected = p.expected
      /\ r.staling /\ r.committing = Nil
  BY <1>2, <1>3, <1>4 DEF Pending
<1>6. k \in ThreadSet /\ k.at = "stale" /\ k.sn = s /\ ~k.ok /\ k.time = wall
  BY <1>3, <1>4, NoCallOK DEF NoCall, ThreadSet, CallPlaces
<1>7. pending' = [pending EXCEPT ![s] = r] /\ thread' = [thread EXCEPT ![t] = k]
  BY <1>1, <1>4 DEF Expire
<1>8. /\ r \in Pending \cup {Nil} /\ UNCHANGED <<completed, stale, store>>
      /\ catalogs[s].state # "none" /\ r.deadline = catalogs[s].expires
      /\ r.expected = catalogs[s].expected /\ ~(r.staling /\ r.committing # Nil)
  BY <1>2, <1>3, <1>5
<1>9. MapTypes' /\ MapsOK' /\ \A x \in SNs : pending'[x] = IF x = s THEN r ELSE pending[x]
  BY <1>7, <1>8, MapsTo
<1>10. \A u \in Threads \ {t} : Commits(thread[u]) \/ GivesUp(thread[u]) => thread[u].sn # s
  BY <1>1, <1>2, OnlyCall
<1>11. CallOK(t, k)'
  <2>1. pending'[s] = r /\ r # Nil
    BY <1>5, <1>9, CatalogAssumption
  <2> QED BY <1>2, <1>5, <1>6, <2>1 DEF CallOK, Commits, GivesUp
<1> QED BY <1>2, <1>6, <1>7, <1>9, <1>10, <1>11, MapStep

\* The store fails every overdue refresh, the one of the call among them.
LEMMA MarkStaleInd ==
    ASSUME CatalogInd, NEW t \in Threads, MarkStale(t)
    PROVE  CatalogInd'
<1>1. PICK o, s, c : o = thread[t] /\ s = o.sn /\ c = catalogs[s]
  OBVIOUS
<1>2. /\ o \in ThreadSet /\ o.at = "stale" /\ ~o.ok /\ s \in SNs /\ c \in CatalogSet
      /\ CallOK(t, o) /\ UNCHANGED <<wall, maps, channels, latest>>
  BY <1>1 DEF MarkStale, CatalogInd, ThreadTypes, StoreTypes, CatalogCalls, CallOK
<1>3. c.state # "none" /\ c.expires <= o.time
  <2>1. /\ pending[s] # Nil /\ pending[s].staling /\ o.time >= pending[s].deadline
        /\ pending[s].deadline = c.expires /\ c.state # "none"
    BY <1>1, <1>2 DEF CallOK, GivesUp, CatalogInd, MapsOK
  <2> QED BY <1>2, <2>1 DEF CatalogSet, ThreadSet
<1>4. \A x \in SNs : x \in Overdue(o.time) <=>
                       catalogs[x].state = "collecting" /\ catalogs[x].expires <= o.time
  BY DEF Overdue
<1>5. PICK a, b : /\ a = [o EXCEPT !.at = "staled", !.ok = TRUE]
                  /\ b = [o EXCEPT !.at = "staled", !.ok = FALSE]
  OBVIOUS
<1>6. /\ a \in ThreadSet /\ a.at = "staled" /\ a.sn = s /\ a.ok = TRUE /\ a.time = o.time
      /\ b \in ThreadSet /\ b.at = "staled" /\ b.sn = s /\ b.ok = FALSE /\ b.time = o.time
  BY <1>1, <1>2, <1>5 DEF ThreadSet, CallPlaces
<1>7. GivesUp(thread[t]) /\ thread[t].sn = s
  BY <1>1, <1>2 DEF GivesUp
<1>8. CASE UNCHANGED <<catalogs, device>> /\ thread' = [thread EXCEPT ![t].at = "staled"]
  <2>1. PICK d : d = [o EXCEPT !.at = "staled"]
    OBVIOUS
  <2>2. d \in ThreadSet /\ d.at = "staled" /\ d.sn = s /\ ~d.ok /\ d.time = o.time
    BY <1>1, <1>2, <2>1 DEF ThreadSet, CallPlaces
  <2>3. thread' = [thread EXCEPT ![t] = d]
    BY <1>1, <1>8, <2>1
  <2>4. UNCHANGED <<wall, maps>> /\ StoreTypes' /\ StoreOK' /\ \A x \in SNs : Later(x)
    BY <1>2, <1>8 DEF CatalogInd, StoreTypes, StoreOK, RefreshingHasCatalog, Later
  <2>5. CallOK(t, d)'
    <3>1. UNCHANGED pending
      BY <1>2 DEF maps
    <3> QED BY <1>1, <1>2, <2>2, <3>1 DEF CallOK, Commits, GivesUp
  <2> QED BY <1>7, <2>2, <2>3, <2>4, <2>5, StoreStep
<1>9. CASE \E arrives \in BOOLEAN :
             /\ catalogs' = [x \in SNs |-> IF x \in Overdue(o.time)
                               THEN [catalogs[x] EXCEPT !.state = "failed", !.failed = o.time]
                               ELSE catalogs[x]]
             /\ device' = IF \E x \in SNs : catalogs'[x].state = "failed" /\ catalogs'[x].failed = o.time
                          THEN "stale" ELSE device
             /\ thread' = [thread EXCEPT ![t] = [@ EXCEPT !.at = "staled", !.ok = arrives]]
  <2>1. PICK arrives \in BOOLEAN :
             /\ catalogs' = [x \in SNs |-> IF x \in Overdue(o.time)
                               THEN [catalogs[x] EXCEPT !.state = "failed", !.failed = o.time]
                               ELSE catalogs[x]]
             /\ device' = IF \E x \in SNs : catalogs'[x].state = "failed" /\ catalogs'[x].failed = o.time
                          THEN "stale" ELSE device
             /\ thread' = [thread EXCEPT ![t] = [@ EXCEPT !.at = "staled", !.ok = arrives]]
    BY <1>9, Zenon
  <2>3. thread' = [thread EXCEPT ![t] = a] \/ thread' = [thread EXCEPT ![t] = b]
    BY <1>1, <1>5, <2>1
  <2>4. \A x \in SNs : catalogs'[x] = IF x \in Overdue(o.time)
                           THEN [catalogs[x] EXCEPT !.state = "failed", !.failed = o.time]
                           ELSE catalogs[x]
    BY <2>1
  <2>5. ASSUME NEW x \in SNs, x \in Overdue(o.time)
        PROVE  /\ catalogs'[x] \in CatalogSet /\ catalogs'[x].state = "failed"
               /\ catalogs'[x].failed = o.time
               /\ catalogs'[x].expires = catalogs[x].expires
               /\ catalogs'[x].expected = catalogs[x].expected
    <3>1. PICK old, new : /\ old = catalogs[x]
                          /\ new = [old EXCEPT !.state = "failed", !.failed = o.time]
      OBVIOUS
    <3>2. old \in CatalogSet /\ o.time \in Nat /\ catalogs'[x] = new
      BY <1>2, <2>4, <2>5, <3>1 DEF CatalogInd, StoreTypes, ThreadSet
    <3>3. /\ new \in CatalogSet /\ new.state = "failed" /\ new.failed = o.time
          /\ new.expires = old.expires /\ new.expected = old.expected
      BY <3>1, <3>2 DEF CatalogSet
    <3> QED BY <3>1, <3>2, <3>3
  <2>6. \A x \in SNs : x \notin Overdue(o.time) => catalogs'[x] = catalogs[x]
    BY <2>4
  <2>7. \A x \in SNs : Later(x)
    BY <1>4, <2>5, <2>6 DEF Later
  <2>8. \/ device' = "stale"
        \/ device' = device /\ \A x \in SNs : x \notin Overdue(o.time)
    BY <2>1, <2>5
  <2>9. StoreTypes'
    <3>1. \A x \in SNs : catalogs'[x] \in CatalogSet
      BY <2>5, <2>6 DEF CatalogInd, StoreTypes
    <3>2. catalogs' \in [SNs -> CatalogSet]
      <4>1. PICK f : f = catalogs'
        OBVIOUS
      <4>2. f = [x \in SNs |-> f[x]] /\ \A x \in SNs : f[x] \in CatalogSet
        BY <2>1, <3>1, <4>1
      <4> QED BY <4>1, <4>2
    <3> QED BY <1>2, <2>8, <3>2 DEF CatalogInd, StoreTypes
  <2>10. StoreOK'
    <3>1. device' = "refreshing" => device = "refreshing" /\ \A x \in SNs : catalogs'[x] = catalogs[x]
      BY <2>6, <2>8
    <3>2. latest # Nil => latest \in SNs /\ latest \notin Overdue(o.time)
      BY <1>4 DEF CatalogInd, StoreOK, StoreTypes
    <3> QED BY <1>2, <2>6, <3>1, <3>2 DEF CatalogInd, StoreOK, RefreshingHasCatalog
  <2>11. catalogs'[s].state \in {"complete", "failed"}
    BY <1>1, <1>2, <1>3, <1>4, <2>5, <2>6 DEF CatalogSet
  <2>12. CallOK(t, a)' /\ CallOK(t, b)'
    <3>1. UNCHANGED pending
      BY <1>2 DEF maps
    <3> QED BY <1>1, <1>2, <1>6, <2>11, <3>1 DEF CallOK, Commits, GivesUp
  <2> QED BY <1>2, <1>6, <1>7, <2>3, <2>7, <2>9, <2>10, <2>12, StoreStep
<1> QED BY <1>1, <1>8, <1>9, Zenon DEF MarkStale, Goto

\* The coordinator learns whether the refresh was given up.
LEMMA StaledInd ==
    ASSUME CatalogInd, NEW t \in Threads, Staled(t)
    PROVE  CatalogInd'
<1>1. PICK o, s, p : o = thread[t] /\ s = o.sn /\ p = pending[s]
  OBVIOUS
<1>2. /\ o \in ThreadSet /\ o.at = "staled" /\ s \in SNs /\ CallOK(t, o) /\ GivesUp(o)
      /\ UNCHANGED <<wall, completed, store>> /\ thread' = [thread EXCEPT ![t] = NoCall]
  BY <1>1 DEF Staled, Return, CatalogInd, ThreadTypes, CatalogCalls, CallOK, GivesUp
<1>3. p \in Pending /\ p # Nil
  BY <1>1, <1>2 DEF CallOK, CatalogInd, MapTypes
<1>4. /\ catalogs[s].state # "none" /\ p.deadline = catalogs[s].expires
      /\ p.expected = catalogs[s].expected
  BY <1>1, <1>2, <1>3 DEF CatalogInd, MapsOK
<1>5. MapTypes' /\ MapsOK' /\ \A x \in SNs \ {s} : pending'[x] = pending[x]
  <2>1. CASE o.ok
    <3>1. pending' = [pending EXCEPT ![s] = Nil] /\ stale' = stale \cup {s}
      BY <1>1, <2>1 DEF Staled
    <3>2. /\ pending' \in [SNs -> Pending \cup {Nil}]
          /\ \A x \in SNs : pending'[x] = IF x = s THEN Nil ELSE pending[x]
      BY <3>1 DEF CatalogInd, MapTypes
    <3>3. UNCHANGED <<completed, catalogs>> /\ catalogs[s].state \in {"complete", "failed"}
      BY <1>1, <1>2, <2>1 DEF store, CallOK
    <3>4. MapTypes'
      BY <1>2, <3>1, <3>2, <3>3 DEF CatalogInd, MapTypes
    <3>5. MapsOK'
      BY <1>2, <3>1, <3>2, <3>3 DEF CatalogInd, MapsOK, CompletedIsStored, StaleIsOver
    <3> QED BY <3>2, <3>4, <3>5
  <2>2. CASE ~o.ok
    <3>1. PICK r : r = [p EXCEPT !.staling = FALSE]
      OBVIOUS
    <3>2. /\ r \in Pending /\ r.deadline = p.deadline /\ r.expected = p.expected
          /\ r.staling = FALSE
      BY <1>3, <3>1 DEF Pending
    <3>3. pending' = [pending EXCEPT ![s] = r] /\ UNCHANGED <<completed, stale, store>>
      BY <1>1, <1>2, <1>3, <2>2, <3>1 DEF Staled
    <3>4. /\ catalogs[s].state # "none" /\ r.deadline = catalogs[s].expires
          /\ r.expected = catalogs[s].expected /\ ~(r.staling /\ r.committing # Nil)
      BY <1>4, <3>2
    <3>5. r \in Pending \cup {Nil}
      BY <3>2
    <3>6. MapTypes' /\ MapsOK' /\ \A x \in SNs : pending'[x] = IF x = s THEN r ELSE pending[x]
      BY <1>2, <3>3, <3>4, <3>5, MapsTo
    <3> QED BY <3>6
  <2> QED BY <2>1, <2>2
<1>6. \A u \in Threads \ {t} : Commits(thread[u]) \/ GivesUp(thread[u]) => thread[u].sn # s
  BY <1>1, <1>2, OnlyCall
<1>7. CallOK(t, NoCall)' /\ ~GivesUp(NoCall)
  BY NoCallOK DEF CallOK, Commits, GivesUp
<1> QED BY <1>2, <1>5, <1>6, <1>7, NoCallOK, MapStep

\* A restart forgets the maps and the calls.
LEMMA RestartCatalogInd ==
    ASSUME CatalogInd, Restart
    PROVE  CatalogInd'
<1>1. /\ \A s \in SNs : pending'[s] = Nil /\ completed'[s] = Nil
      /\ stale' = {} /\ \A t \in Threads : thread'[t] = NoCall
      /\ UNCHANGED <<wall, catalogs, device, channels, latest>>
  BY DEF Restart, store
<1>2. MapTypes' /\ thread' \in [Threads -> ThreadSet]
  BY NoCallOK DEF Restart, MapTypes
<1>3. ASSUME NEW t \in Threads PROVE CallOK(t, thread[t])'
  <2>1. thread'[t].at = "idle" /\ thread'[t].ok = FALSE
    BY <1>1, NoCallOK
  <2> QED BY <2>1 DEF CallOK, Commits, GivesUp
<1>4. ASSUME NEW t \in Threads, NEW u \in Threads PROVE Alone(thread'[t], thread'[u])
  BY <1>1, NoCallOK
<1>5. CatalogCalls'
  BY <1>3, <1>4 DEF CatalogCalls, Alone, GivesUp
<1> QED BY <1>1, <1>2, <1>5 DEF CatalogInd, StoreTypes, ThreadTypes, MapsOK, StoreOK,
        CompletedIsStored, StaleIsOver, RefreshingHasCatalog

\* Time passes.
LEMMA CatalogClockInd ==
    ASSUME CatalogInd, ClockTick
    PROVE  CatalogInd'
<1>1. UNCHANGED <<pending, completed, stale, catalogs, device, channels, latest, thread>>
  BY DEF ClockTick, maps, store
<1>2. wall' \in 0..MaxWall
  BY CatalogAssumption DEF ClockTick, CatalogInd, ThreadTypes
<1>3. CatalogCalls'
  BY <1>1 DEF CatalogInd, CatalogCalls, CallOK, Commits, GivesUp, Alone
<1> QED BY <1>1, <1>2, <1>3 DEF CatalogInd, MapTypes, StoreTypes, ThreadTypes, MapsOK, StoreOK,
        CompletedIsStored, StaleIsOver, RefreshingHasCatalog

\* Every step keeps the invariant.
LEMMA CatalogNextInd == CatalogInd /\ [CatalogNext]_catalogVars => CatalogInd'
<1> SUFFICES ASSUME CatalogInd, [CatalogNext]_catalogVars PROVE CatalogInd'
  OBVIOUS
<1>1. CASE UNCHANGED catalogVars
  <2>1. UNCHANGED <<wall, pending, completed, stale, catalogs, device, channels, latest, thread>>
    BY <1>1 DEF catalogVars
  <2>2. CatalogCalls'
    BY <2>1 DEF CatalogInd, CatalogCalls, CallOK, Commits, GivesUp, Alone
  <2> QED BY <2>1, <2>2 DEF CatalogInd, MapTypes, StoreTypes, ThreadTypes, MapsOK, StoreOK,
          CompletedIsStored, StaleIsOver, RefreshingHasCatalog
<1>2. CASE ClockTick
  BY <1>2, CatalogClockInd
<1>3. CASE Restart
  BY <1>3, RestartCatalogInd
<1>4. ASSUME NEW t \in Threads, NEW s \in SNs, NEW n \in 0..MaxItems, NEW page \in BOOLEAN,
             Start(t, s, n, page)
      PROVE  CatalogInd'
  BY <1>4, StartInd
<1>5. ASSUME NEW t \in Threads, NEW arrives \in BOOLEAN, StartRefresh(t, arrives) PROVE CatalogInd'
  BY <1>5, StartRefreshInd
<1>6. ASSUME NEW t \in Threads, Started(t) PROVE CatalogInd'
  BY <1>6, StartedInd
<1>7. ASSUME NEW t \in Threads, NEW q, AcceptPage(t, q) PROVE CatalogInd'
  BY <1>7, AcceptPageInd
<1>8. ASSUME NEW t \in Threads, ReplaceCatalog(t) PROVE CatalogInd'
  BY <1>8, ReplaceCatalogInd
<1>9. ASSUME NEW t \in Threads, Replaced(t) PROVE CatalogInd'
  BY <1>9, ReplacedInd
<1>10. ASSUME NEW t \in Threads, NEW s \in SNs, Expire(t, s) PROVE CatalogInd'
  BY <1>10, ExpireInd
<1>11. ASSUME NEW t \in Threads, MarkStale(t) PROVE CatalogInd'
  BY <1>11, MarkStaleInd
<1>12. ASSUME NEW t \in Threads, Staled(t) PROVE CatalogInd'
  BY <1>12, StaledInd
<1> QED BY <1>1, <1>2, <1>3, <1>4, <1>5, <1>6, <1>7, <1>8, <1>9, <1>10, <1>11, <1>12, Zenon DEF CatalogNext

\* The invariant holds at the start.
LEMMA CatalogInitInd == CatalogInit => CatalogInd
<1> SUFFICES ASSUME CatalogInit PROVE CatalogInd
  OBVIOUS
<1>1. /\ \A s \in SNs : pending[s] = Nil /\ completed[s] = Nil /\ catalogs[s] = NoRefresh
      /\ stale = {} /\ latest = Nil /\ device = "never" /\ wall = 0
      /\ \A t \in Threads : thread[t] = NoCall
  BY DEF CatalogInit
<1>2. MapTypes /\ ThreadTypes
  BY NoCallOK, CatalogAssumption DEF CatalogInit, MapTypes, ThreadTypes
<1>3. NoRefresh \in CatalogSet
  BY CatalogAssumption DEF NoRefresh, CatalogSet
<1>4. StoreTypes
  BY <1>1, <1>3 DEF CatalogInit, StoreTypes
<1>5. MapsOK /\ StoreOK
  BY <1>1 DEF MapsOK, StoreOK, CompletedIsStored, StaleIsOver, RefreshingHasCatalog
<1>6. CatalogCalls
  BY <1>1, NoCallOK DEF CatalogCalls
<1> QED BY <1>2, <1>4, <1>5, <1>6 DEF CatalogInd

\* The invariant holds always.
LEMMA CatalogInductive == CatalogSpec => []CatalogInd
  BY CatalogInitInd, CatalogNextInd, PTL DEF CatalogSpec

\* The invariant of the runs.
LEMMA CatalogIndGives == CatalogInd => CatalogsAgree
<1> SUFFICES ASSUME CatalogInd PROVE CatalogsAgree
  OBVIOUS
<1>1. ASSUME NEW s \in SNs, pending[s] # Nil
      PROVE  pending[s].items \subseteq Items /\ ~(pending[s].staling /\ pending[s].committing # Nil)
  BY <1>1 DEF CatalogInd, MapTypes, MapsOK, Pending
<1>2. CatalogTypeOK
  BY <1>1 DEF CatalogInd, MapTypes, StoreTypes, ThreadTypes, CatalogSet, CatalogTypeOK
<1>3. ChannelsAreCatalog
  BY DEF CatalogInd, StoreOK, ChannelsAreCatalog
<1> QED BY <1>2, <1>3 DEF CatalogInd, MapsOK, StoreOK, CatalogsAgree

\* Coordinator and store agree about every refresh: what the one calls complete or
\* given up is over in the other, a refreshing device has a refresh under way, and
\* the channels are those of the refresh completed last, whatever calls fail after
\* their commit and however often the process restarts.
THEOREM CatalogsAgreeAlways == CatalogSpec => []CatalogsAgree
  BY CatalogInductive, CatalogIndGives, PTL

\* Nothing but a call of the store touches a refresh, and it ends it once.
LEMMA EndsOnceStep ==
    ASSUME CatalogInd, CatalogNext, NEW s \in SNs, catalogs[s].state \in {"complete", "failed"}
    PROVE  catalogs'[s] = catalogs[s]
<1>1. catalogs \in [SNs -> CatalogSet]
  BY DEF CatalogInd, StoreTypes
<1>2. ASSUME NEW t \in Threads, NEW arrives \in BOOLEAN, StartRefresh(t, arrives)
      PROVE  catalogs'[s] = catalogs[s]
  BY <1>1, <1>2 DEF StartRefresh
<1>3. ASSUME NEW t \in Threads, ReplaceCatalog(t) PROVE catalogs'[s] = catalogs[s]
  BY <1>1, <1>3 DEF ReplaceCatalog, store
<1>4. ASSUME NEW t \in Threads, MarkStale(t) PROVE catalogs'[s] = catalogs[s]
  BY <1>1, <1>4 DEF MarkStale, Overdue
<1>5. ASSUME UNCHANGED catalogs PROVE catalogs'[s] = catalogs[s]
  BY <1>5
<1>6. ASSUME NEW t \in Threads, NEW x, NEW n, NEW q,
             Start(t, x, n, q) \/ Started(t) \/ AcceptPage(t, q) \/ Replaced(t) \/ Expire(t, x) \/ Staled(t)
      PROVE  UNCHANGED catalogs
  BY <1>6, Zenon DEF Start, Started, AcceptPage, Replaced, Expire, Staled, store
<1>7. ASSUME ClockTick \/ Restart PROVE UNCHANGED catalogs
  BY <1>7 DEF ClockTick, Restart, store
<1> QED BY <1>2, <1>3, <1>4, <1>5, <1>6, <1>7, Zenon DEF CatalogNext

\* A refresh ends once: a completed one never fails and a failed one is never
\* completed, whatever calls were under way at the deadline or lost their result.
THEOREM EndsOnceAlways == CatalogSpec => EndsOnce
<1>1. CatalogInd /\ [CatalogNext]_catalogVars =>
        [\A s \in SNs : catalogs[s].state \in {"complete", "failed"} => catalogs'[s] = catalogs[s]]_catalogVars
  BY EndsOnceStep
<1> QED BY <1>1, CatalogInductive, PTL DEF CatalogSpec, EndsOnce
=============================================================================
