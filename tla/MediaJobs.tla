------------------------------ MODULE MediaJobs ------------------------------
(***************************************************************************)
(* The in-memory store of media jobs, internal/mediajobs/store.go, and     *)
(* workers that use it as its tests do: a claim, a look at what is still   *)
(* wanted, a result.  Which result a worker brings is its own affair: the  *)
(* store takes every valid one, a retry after the last attempt too.        *)
(*                                                                         *)
(* Every operation runs under one mutex, but reads the clock before it has *)
(* it: what it compares leases with may be older than the jobs it finds.   *)
(* A lease token is random: it is modelled by the job and the number of    *)
(* the claim, which no other lease has.                                    *)
(***************************************************************************)
EXTENDS Naturals

CONSTANTS
    Tasks,         \* job ids
    Hands,         \* workers
    Absent,
    MaxAttempts,
    LeaseTime,     \* how long a claim holds
    MaxClock       \* bound: the clock

Auths == {"wanted", "unwanted", "replaced"}
Statuses == {"scheduled", "retryable", "running", "succeeded", "failed", "unknown", "cancelled"}
LeaseType == [of : Tasks \cup {Absent}, n : Nat, until : Nat]
EntryType == [kind : {"start", "stop"}, status : Statuses, attempts : 0..MaxAttempts, availableAt : Nat,
              leasedUntil : Nat, token : LeaseType, owned : BOOLEAN, auth : Auths]

ASSUME JobsAssumption ==
    /\ {MaxAttempts, LeaseTime} \subseteq Nat \ {0} /\ MaxClock \in Nat
    /\ Absent \notin Tasks /\ Absent \notin EntryType

VARIABLES
    task,    \* task[t]: the entry of a job, or Absent
    hand,    \* hand[w]: the worker's step, its lease, the clock it has read, its result
    clock

jobsVars == <<task, hand, clock>>

NoLease == [of |-> Absent, n |-> 0, until |-> 0]
Resting == [pc |-> "idle", lease |-> NoLease, read |-> 0, result |-> "none"]

Entry(t, kind, n, at, auth) ==
    [kind |-> kind, status |-> "scheduled", attempts |-> n, availableAt |-> at,
     leasedUntil |-> 0, token |-> NoLease, owned |-> FALSE, auth |-> auth]

\* The attempts an entry may come with.
Starts == 0..(MaxAttempts - 1)

\* An id that is known is refused; attempts the job has had elsewhere are kept.
Enqueue(t) ==
    /\ task[t] = Absent
    /\ \E kind \in {"start", "stop"}, n \in Starts, at \in {clock, clock + 1}, auth \in Auths :
        task' = [task EXCEPT ![t] = Entry(t, kind, n, at, auth)]
    /\ UNCHANGED <<hand, clock>>

SetAuthorization(t) ==
    /\ task[t] # Absent
    /\ \E auth \in Auths \ {task[t].auth} : task' = [task EXCEPT ![t].auth = auth]
    /\ UNCHANGED <<hand, clock>>

\* Each operation of a worker starts here.
ReadClock(w, from, to) ==
    /\ hand[w].pc = from
    /\ hand' = [hand EXCEPT ![w] = [@ EXCEPT !.pc = to, !.read = clock]]
    /\ UNCHANGED <<task, clock>>

(***************************************************************************)
(* ClaimJob.                                                               *)
(***************************************************************************)
\* Faulty: a running job may be claimed while its lease holds.
LapsedAlways(t, now) == TRUE

Lapsed(t, now) == task[t].leasedUntil <= now

AttemptsLeft(t) == task[t].attempts < MaxAttempts

Eligible(t, now) ==
    /\ task[t] # Absent /\ AttemptsLeft(t)
    /\ \/ task[t].status \in {"scheduled", "retryable"} /\ task[t].availableAt <= now
       \/ task[t].status = "running" /\ Lapsed(t, now)

\* The one that has been available longest.
First(t, now) ==
    /\ Eligible(t, now)
    /\ \A u \in Tasks : Eligible(u, now) => task[t].availableAt <= task[u].availableAt

ClaimJob(w) ==
    /\ hand[w].pc = "claim"
    /\ LET now == hand[w].read IN
       \/ /\ \A t \in Tasks : ~Eligible(t, now)
          /\ hand' = [hand EXCEPT ![w] = Resting]
          /\ UNCHANGED task
       \/ \E t \in Tasks :
            /\ First(t, now)
            /\ LET l == [of |-> t, n |-> task[t].attempts + 1, until |-> now + LeaseTime] IN
               /\ task' = [task EXCEPT ![t] = [@ EXCEPT !.attempts = l.n, !.status = "running",
                                       !.leasedUntil = l.until, !.token = l, !.owned = TRUE]]
               /\ hand' = [hand EXCEPT ![w] = [@ EXCEPT !.pc = "held", !.lease = l, !.read = 0]]
    /\ UNCHANGED clock

(***************************************************************************)
(* RevalidateJob, the provider, FinishJob.                                 *)
(***************************************************************************)
\* Faulty: the token is not compared.
leaseMatchesAny(t, l) == task[t].owned

leaseMatches(t, l) == task[t].owned /\ task[t].token = l

LeaseGood(w) ==
    LET l == hand[w].lease IN
    /\ leaseMatches(l.of, l) /\ task[l.of].status = "running" /\ task[l.of].leasedUntil > hand[w].read

Rest(w) == hand' = [hand EXCEPT ![w] = Resting]

\* A start is dropped for a session that has ended or a camera that was
\* replaced, a stop for a stream that is watched again.
Skips(t) == task[t].auth = "unwanted" \/ (task[t].kind = "start" /\ task[t].auth = "replaced")

RevalidateJob(w) ==
    /\ hand[w].pc = "revalidate"
    /\ IF ~LeaseGood(w) THEN Rest(w)
       ELSE hand' = [hand EXCEPT ![w] = [@ EXCEPT !.pc = "call", !.read = 0,
                                 !.result = IF Skips(hand[w].lease.of) THEN "cancelled" ELSE "none"]]
    /\ UNCHANGED <<task, clock>>

\* The worker has a result: any that validResult takes.
Provide(w) ==
    /\ hand[w].pc = "call"
    /\ \E r \in (IF hand[w].result = "cancelled" THEN {"cancelled"}
                 ELSE {"succeeded", "failed", "unknown", "retryable"}) :
        hand' = [hand EXCEPT ![w] = [@ EXCEPT !.pc = "answered", !.result = r]]
    /\ UNCHANGED <<task, clock>>

AfterFinish(t) == FALSE

FinishJob(w) ==
    /\ hand[w].pc = "finish"
    /\ LET t == hand[w].lease.of
           r == hand[w].result
       IN IF LeaseGood(w) /\ (r = "cancelled" \/ task[t].auth # "replaced")
            THEN \E at \in {hand[w].read} \cup (IF r = "retryable" THEN {hand[w].read + 1} ELSE {}) :
                    task' = [task EXCEPT ![t] = [@ EXCEPT !.status = r, !.availableAt = at, !.leasedUntil = 0,
                                         !.token = NoLease, !.owned = AfterFinish(t)]]
            ELSE UNCHANGED task
    /\ Rest(w) /\ UNCHANGED clock

\* The worker's context ends; FinishJob does not look at it.
GiveUp(w) == hand[w].pc \in {"claim", "revalidate"} /\ Rest(w) /\ UNCHANGED <<task, clock>>

JobsTick == clock < MaxClock /\ clock' = clock + 1 /\ UNCHANGED <<task, hand>>

(***************************************************************************)
(* The specification.                                                      *)
(***************************************************************************)
JobsInit == task = [t \in Tasks |-> Absent] /\ hand = [w \in Hands |-> Resting] /\ clock = 0

JobsNext ==
    \/ \E t \in Tasks : Enqueue(t) \/ SetAuthorization(t)
    \/ \E w \in Hands :
        \/ ReadClock(w, "idle", "claim") \/ ReadClock(w, "held", "revalidate")
        \/ ReadClock(w, "answered", "finish")
        \/ ClaimJob(w) \/ RevalidateJob(w) \/ Provide(w) \/ FinishJob(w) \/ GiveUp(w)
    \/ JobsTick

JobsSpec == JobsInit /\ [][JobsNext]_jobsVars

(***************************************************************************)
(* Properties.                                                             *)
(***************************************************************************)
\* A job has an owner, a token and an end of its lease exactly while it
\* runs; the token is that of its last claim.
JobsTypeOK ==
    /\ \A t \in Tasks : task[t] # Absent =>
        /\ task[t].status \in Statuses
        /\ task[t].attempts \in 0..MaxAttempts
        /\ task[t].status = "running" <=> task[t].owned
        /\ task[t].token = IF task[t].owned
                             THEN [of |-> t, n |-> task[t].attempts, until |-> task[t].leasedUntil] ELSE NoLease
    /\ clock \in 0..MaxClock

\* No two workers have a lease of one job that still holds, although ClaimJob
\* decides by a clock it read before it had the mutex.
LeaseIsExclusive ==
    \A v, w \in Hands : v # w /\ hand[v].lease.of = hand[w].lease.of /\ hand[v].lease # NoLease =>
        hand[v].lease.until <= clock \/ hand[w].lease.until <= clock

\* FinishJob records a result only for the worker of the last claim: one that
\* was overtaken changes nothing.
ResultOfLastClaim ==
    [][\A w \in Hands : hand[w].pc = "finish" /\ task' # task /\ hand'[w] = Resting =>
        hand[w].lease.n = task[hand[w].lease.of].attempts]_jobsVars

\* An entry that FinishJob made retryable after its last attempt keeps that label
\* and is never claimed again: whatever it is called, it is settled.
Phase(t) ==
    IF task[t] = Absent THEN "absent"
    ELSE IF task[t].status = "running" THEN "leased"
    ELSE IF task[t].status \in {"scheduled", "retryable"} /\ AttemptsLeft(t) THEN "waiting"
    ELSE "settled"

MemoryQueue == INSTANCE LeaseQueue WITH
    Rows <- Tasks,
    phase <- [t \in Tasks |-> Phase(t)],
    tries <- [t \in Tasks |-> IF task[t] = Absent THEN 0 ELSE task[t].attempts],
    Brought <- Starts

\* The in-memory store offers an entry for no more attempts than are left of those
\* it came with, changes none that is settled or out of attempts, and takes its
\* results from the last claimant only.  It does not see to it that an entry out
\* of attempts is also labelled as settled: that is left to the worker.
MemoryIsLeasedQueue == MemoryQueue!Spec /\ ResultOfLastClaim

\* A job's owner, token and lease go together, and only one of its leases holds.
LeasesAgree == JobsTypeOK /\ LeaseIsExclusive
=============================================================================
