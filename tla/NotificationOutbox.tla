-------------------------- MODULE NotificationOutbox --------------------------
(***************************************************************************)
(* Delivery of alarm notifications: the notification_outbox table          *)
(* (internal/persistence/notifications.go) and the worker that drains it   *)
(* (internal/notifications/worker.go).  Workers share nothing but the      *)
(* table: a row is claimed under a lease and a random token in one         *)
(* transaction, the message is sent outside any transaction, and the       *)
(* result is written under the token in another.                           *)
(*                                                                         *)
(* Time is a choice, as in VideoPlayback: next_at only delays a claim, and *)
(* a lease may run out at any moment.  The claim number stands for the     *)
(* token.  sent and lost are history variables that no action reads.       *)
(***************************************************************************)
EXTENDS Naturals

CONSTANTS Rows,         \* outbox rows, one per alarm
          Workers,      \* the Concurrency goroutines of Worker.Run
          None,         \* no row
          MaxAttempts,  \* cfg.MaxAttempts, at most 6
          MaxFaults     \* bound: crashes, and leases that outlive their worker

ASSUME OutboxAssumption ==
    /\ None \notin Rows
    /\ MaxAttempts \in Nat \ {0}
    /\ MaxFaults \in Nat

VARIABLES
    outbox,   \* outbox[r]: status, attempts and lease of row r
    owner,    \* owner[r]: what the joins of Claim find of the farm's owner
    workers,  \* workers[w]: where RunOnce is, and its claim
    sent,     \* history: sent[r], messages about r the recipient received
    lost,     \* history: lost[r], claims of r whose worker lost them
    faults    \* faults so far

vars == <<outbox, owner, workers, sent, lost, faults>>

Settled == {"sent", "failed", "unknown", "disabled"}
Statuses == {"absent", "pending", "processing", "retryable"} \cup Settled

\* "subscribed": has an open id; "silent": no owner or no subscription;
\* "inactive": tenant or membership inactive, the row is not a candidate.
Owners == {"subscribed", "silent", "inactive"}

Idle == [pc |-> "idle", row |-> None, attempts |-> 0, recipient |-> FALSE, result |-> "none"]

OutboxRow == [status : Statuses, attempts : 0..MaxAttempts, lease : {"none", "live", "expired"}]

WorkerState == [pc : {"idle", "send", "finish"}, row : Rows \cup {None},
                attempts : 0..MaxAttempts, recipient : BOOLEAN,
                result : {"none", "retryable"} \cup Settled]

TypeOK ==
    /\ outbox \in [Rows -> OutboxRow]
    /\ owner \in [Rows -> Owners]
    /\ workers \in [Workers -> WorkerState]
    /\ sent \in [Rows -> Nat]
    /\ lost \in [Rows -> Nat]
    /\ faults \in 0..MaxFaults

Init ==
    /\ outbox = [r \in Rows |-> [status |-> "absent", attempts |-> 0, lease |-> "none"]]
    /\ owner \in [Rows -> Owners]
    /\ workers = [w \in Workers |-> Idle]
    /\ sent = [r \in Rows |-> 0]
    /\ lost = [r \in Rows |-> 0]
    /\ faults = 0

-----------------------------------------------------------------------------
\* The ingestion transaction that opens an alarm writes its row.
Enqueue(r) ==
    /\ outbox[r].status = "absent"
    /\ outbox' = [outbox EXCEPT ![r].status = "pending"]
    /\ UNCHANGED <<owner, workers, sent, lost, faults>>

\* Memberships, subscriptions, farm owners and tenants change at any time.
ChangeOwner(r, o) ==
    /\ owner[r] # o
    /\ owner' = [owner EXCEPT ![r] = o]
    /\ UNCHANGED <<outbox, workers, sent, lost, faults>>

-----------------------------------------------------------------------------
(* NotificationStore.Claim                                                 *)

LeaseDead(r) == outbox[r].status = "processing" /\ outbox[r].lease = "expired"

\* Faulty: a row whose last lease ran out is left alone.
SweptNever == outbox

\* The first statement settles every row whose last lease ran out.
Swept == [r \in Rows |-> IF LeaseDead(r) /\ outbox[r].attempts >= MaxAttempts
                         THEN [outbox[r] EXCEPT !.status = "unknown", !.lease = "none"]
                         ELSE outbox[r]]

\* attempts left, and waiting or leased to a worker that is gone; the joins hide
\* the rows of inactive tenants and members.
Candidate(r) ==
    /\ outbox[r].attempts < MaxAttempts
    /\ outbox[r].status \in {"pending", "retryable"} \/ LeaseDead(r)
    /\ owner[r] # "inactive"

\* Faulty: a new claim keeps the token of the one before.
NextClaimSameToken(r) == IF outbox[r].attempts = 0 THEN 1 ELSE outbox[r].attempts

\* attempts = attempts + 1, and a token of its own for the claim.
NextClaim(r) == outbox[r].attempts + 1

\* The second one leases a candidate, and the recipient is read with it.
Claim(w, r) ==
    /\ workers[w].pc = "idle"
    /\ Candidate(r)
    /\ outbox' = [Swept EXCEPT ![r] = [status |-> "processing",
                                       attempts |-> NextClaim(r), lease |-> "live"]]
    /\ workers' = [workers EXCEPT ![w] = [pc |-> "send", row |-> r,
                                          attempts |-> NextClaim(r),
                                          recipient |-> owner[r] = "subscribed",
                                          result |-> "none"]]
    /\ UNCHANGED <<owner, sent, lost, faults>>

\* No candidate: the sweep is committed all the same.
ClaimNothing(w) ==
    /\ workers[w].pc = "idle"
    /\ \A r \in Rows : ~Candidate(r)
    /\ outbox # Swept
    /\ outbox' = Swept
    /\ UNCHANGED <<owner, workers, sent, lost, faults>>

-----------------------------------------------------------------------------
(* Worker.RunOnce                                                          *)

Errors == {"none", "disabled", "permanent", "unknown", "retryable"}

\* Faulty: a send that timed out is recorded as sent.
ResultHopeful(err, attempts) ==
    CASE err \in {"none", "unknown"} -> "sent"
      [] err = "retryable" /\ attempts < MaxAttempts -> "retryable"
      [] OTHER -> "failed"

\* Faulty: a send that timed out is tried again.
ResultRetriesUnknown(err, attempts) ==
    CASE err = "none" -> "sent"
      [] err \in {"unknown", "retryable"} /\ attempts < MaxAttempts -> "retryable"
      [] OTHER -> "failed"

\* Faulty: the last attempt asks for one more.
ResultEndless(err, attempts) ==
    CASE err = "none" -> "sent"
      [] err = "retryable" -> "retryable"
      [] OTHER -> "failed"

\* The switch over the sender's error; a retry needs an attempt to be left.
Result(err, attempts) ==
    CASE err = "none" -> "sent"
      [] err = "disabled" -> "disabled"
      [] err = "permanent" -> "failed"
      [] err = "unknown" -> "unknown"
      [] err = "retryable" -> IF attempts < MaxAttempts THEN "retryable" ELSE "failed"

\* Sender.Send, or ErrDisabled without a recipient.  A timeout or a cancelled
\* send is "unknown": the message may have been received.
Send(w, err) ==
    LET r == workers[w].row IN
    /\ workers[w].pc = "send"
    /\ ~workers[w].recipient => err = "disabled"
    /\ \E n \in (IF err = "none" THEN {1} ELSE IF err = "unknown" THEN {0, 1} ELSE {0}) :
          sent' = [sent EXCEPT ![r] = @ + n]
    /\ workers' = [workers EXCEPT ![w].pc = "finish",
                                  ![w].result = Result(err, workers[w].attempts)]
    /\ UNCHANGED <<outbox, owner, lost, faults>>

\* Faulty: the row need not be in processing any more.
OwnsRowAnyStatus(w) == outbox[workers[w].row].attempts = workers[w].attempts

\* WHERE id=$1 AND status='processing' AND lease_owner=$7
OwnsRow(w) == LET r == workers[w].row IN
    /\ outbox[r].status = "processing"
    /\ outbox[r].attempts = workers[w].attempts

\* NotificationStore.Finish; without the row it is ErrLeaseLost.
Finish(w) ==
    LET r == workers[w].row IN
    /\ workers[w].pc = "finish"
    /\ outbox' = IF OwnsRow(w)
                 THEN [outbox EXCEPT ![r].status = workers[w].result, ![r].lease = "none"]
                 ELSE outbox
    /\ workers' = [workers EXCEPT ![w] = Idle]
    /\ UNCHANGED <<owner, sent, lost, faults>>

\* The process dies, or Finish cannot reach the database.
Crash(w) ==
    LET r == workers[w].row IN
    /\ workers[w].pc # "idle"
    /\ faults < MaxFaults
    /\ faults' = faults + 1
    /\ lost' = IF OwnsRow(w) /\ outbox[r].lease = "live"
               THEN [lost EXCEPT ![r] = @ + 1] ELSE lost
    /\ workers' = [workers EXCEPT ![w] = Idle]
    /\ UNCHANGED <<outbox, owner, sent>>

Held(r) == \E w \in Workers : workers[w].pc # "idle" /\ workers[w].row = r /\ OwnsRow(w)

\* leased_until passes: certain once nobody works on the row, a fault otherwise
\* (the lease is longer than the delivery timeout).
ExpireLease(r) ==
    /\ outbox[r].status = "processing"
    /\ outbox[r].lease = "live"
    /\ outbox' = [outbox EXCEPT ![r].lease = "expired"]
    /\ IF Held(r) THEN /\ faults < MaxFaults
                       /\ faults' = faults + 1
                       /\ lost' = [lost EXCEPT ![r] = @ + 1]
                  ELSE UNCHANGED <<faults, lost>>
    /\ UNCHANGED <<owner, workers, sent>>

-----------------------------------------------------------------------------
Poll(w) == ClaimNothing(w) \/ \E r \in Rows : Claim(w, r)
Deliver(w) == Finish(w) \/ \E err \in Errors : Send(w, err)

Next ==
    \/ \E r \in Rows : Enqueue(r) \/ ExpireLease(r) \/ \E o \in Owners : ChangeOwner(r, o)
    \/ \E w \in Workers : Poll(w) \/ Deliver(w) \/ Crash(w)

Spec == Init /\ [][Next]_vars

\* Run polls every PollInterval for ever and goes on with what it claimed; a row
\* that keeps being a candidate comes first by next_at; time passes.
Fairness ==
    /\ \A w \in Workers : WF_vars(Poll(w)) /\ WF_vars(Deliver(w))
    /\ \A r \in Rows : /\ SF_vars(\E w \in Workers : Claim(w, r))
                       /\ WF_vars(ExpireLease(r) /\ UNCHANGED faults)

FairSpec == Spec /\ Fairness

-----------------------------------------------------------------------------
(* Safety.                                                                 *)

\* Of the workers that hold a claim of one row no two hold the same claim, and
\* none is ahead of the row: only the latest claimant can write a result.
LeaseExclusive ==
    \A w \in Workers : workers[w].pc # "idle" =>
        /\ workers[w].attempts <= outbox[workers[w].row].attempts
        /\ \A v \in Workers \ {w} :
              workers[v].pc # "idle" /\ workers[v].row = workers[w].row
                => workers[v].attempts # workers[w].attempts

\* A row recorded as sent was received: no other outcome, no sweep and no late
\* worker can leave that status behind.
SentWasReceived == \A r \in Rows : outbox[r].status = "sent" => sent[r] >= 1

\* The outcome the row or its present claimant stands for may have reached the
\* recipient.
MaybeReceived(r) ==
    \/ outbox[r].status \in {"sent", "unknown"}
    \/ \E w \in Workers : /\ workers[w].pc = "finish" /\ workers[w].row = r
                          /\ workers[w].result \in {"sent", "unknown"}

\* Every message beyond the recorded one is paid for by a claim that was lost to
\* a crash or an expired lease; without one, a row that failed or waits for a
\* retry was never received and a sent one exactly once.
DuplicateNeedsLostLease ==
    \A r \in Rows : sent[r] <= lost[r] + (IF MaybeReceived(r) THEN 1 ELSE 0)

\* A recorded outcome is final, whatever worker comes back late.
OutcomeIsFinal ==
    [][\A r \in Rows : outbox[r].status \in Settled => outbox'[r] = outbox[r]]_vars

\* The outbox keeps the promises of a leased queue: at most MaxAttempts claims of
\* a row, a way back to the queue only while a claim is left, one final outcome.
QueuePhase(status) == CASE status = "absent" -> "absent"
                        [] status \in {"pending", "retryable"} -> "waiting"
                        [] status = "processing" -> "leased"
                        [] status \in Settled -> "settled"

Queue == INSTANCE LeaseQueue WITH
    phase <- [r \in Rows |-> QueuePhase(outbox[r].status)],
    tries <- [r \in Rows |-> outbox[r].attempts],
    Brought <- {}

OutboxIsLeasedQueue == Queue!Spec

-----------------------------------------------------------------------------
(* Liveness.                                                               *)

\* Every notification reaches an outcome, through retries, crashes and expired
\* leases, unless its owner's membership or tenant is inactive.
NotificationSettles ==
    \A r \in Rows : (outbox[r].status # "absent")
                      ~> (outbox[r].status \in Settled \/ owner[r] = "inactive")
=============================================================================
