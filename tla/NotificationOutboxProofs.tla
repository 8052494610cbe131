----------------------- MODULE NotificationOutboxProofs -----------------------
(***************************************************************************)
(* Proofs about NotificationOutbox for any number of rows, workers,        *)
(* attempts and faults.  Everything rests on one inductive invariant: the  *)
(* type invariant, what a worker that is not idle knows about its claim,   *)
(* and the exclusiveness of claims.                                        *)
(***************************************************************************)
EXTENDS NotificationOutbox, FiniteSetTheorems, TLAPS

\* A busy worker has a row; one that is about to record a result has one, has
\* an attempt left if it asks for a retry, and has sent what it says it sent.
Knows(w) ==
    workers[w].pc # "idle" =>
        /\ workers[w].row \in Rows
        /\ workers[w].pc = "finish" =>
              /\ workers[w].result # "none"
              /\ workers[w].result = "retryable" => workers[w].attempts < MaxAttempts
              /\ workers[w].result = "sent" => sent[workers[w].row] >= 1

ClaimInv == \A w \in Workers : Knows(w)

IndInv == TypeOK /\ ClaimInv /\ LeaseExclusive /\ SentWasReceived

\* The initial state satisfies the inductive invariant.
LEMMA InitInd == Init => IndInv
<1> SUFFICES ASSUME Init PROVE IndInv
  OBVIOUS
<1>1. TypeOK
  BY OutboxAssumption DEF Init, TypeOK, Idle, OutboxRow, WorkerState, Statuses
<1>2. ClaimInv /\ LeaseExclusive /\ SentWasReceived
  BY DEF Init, ClaimInv, Knows, LeaseExclusive, SentWasReceived, Idle
<1> QED BY <1>1, <1>2 DEF IndInv

\* Result maps every error to a status a worker may record, and to a retry only
\* while an attempt is left.
LEMMA ResultType ==
    ASSUME NEW err \in Errors, NEW a \in 0..MaxAttempts
    PROVE  /\ Result(err, a) \in {"retryable"} \cup Settled
           /\ Result(err, a) = "retryable" => a < MaxAttempts
           /\ Result(err, a) = "sent" => err = "none"
  BY OutboxAssumption DEF Errors, Result, Settled

\* Claim and the sweep keep every row in its type.
LEMMA SweptType ==
    ASSUME TypeOK
    PROVE  /\ Swept \in [Rows -> OutboxRow]
           /\ \A r \in Rows : Swept[r].attempts = outbox[r].attempts
           /\ \A r \in Rows : Swept[r] # outbox[r] => /\ outbox[r].status = "processing"
                                                      /\ Swept[r].status = "unknown"
<1> SUFFICES ASSUME NEW r \in Rows
             PROVE  /\ Swept[r] \in OutboxRow
                    /\ Swept[r].attempts = outbox[r].attempts
                    /\ Swept[r] # outbox[r] => /\ outbox[r].status = "processing"
                                               /\ Swept[r].status = "unknown"
  BY DEF Swept
<1>1. outbox[r] \in OutboxRow
  BY DEF TypeOK
<1>2. CASE LeaseDead(r) /\ outbox[r].attempts >= MaxAttempts
  <2>1. Swept[r] = [outbox[r] EXCEPT !.status = "unknown", !.lease = "none"]
    BY <1>2 DEF Swept
  <2> QED BY <1>1, <1>2, <2>1 DEF LeaseDead, OutboxRow, Statuses, Settled
<1>3. CASE ~(LeaseDead(r) /\ outbox[r].attempts >= MaxAttempts)
  BY <1>1, <1>3 DEF Swept
<1> QED BY <1>2, <1>3

\* Every step keeps the type invariant.
LEMMA TypeStep == TypeOK /\ ClaimInv /\ [Next]_vars => TypeOK'
<1> SUFFICES ASSUME TypeOK, ClaimInv, [Next]_vars PROVE TypeOK'
  OBVIOUS
<1> USE OutboxAssumption
<1>1. ASSUME NEW r \in Rows, Enqueue(r) PROVE TypeOK'
  BY <1>1 DEF Enqueue, TypeOK, OutboxRow, Statuses
<1>2. ASSUME NEW r \in Rows, NEW o \in Owners, ChangeOwner(r, o) PROVE TypeOK'
  BY <1>2 DEF ChangeOwner, TypeOK
<1>3. ASSUME NEW r \in Rows, ExpireLease(r) PROVE TypeOK'
  <2>1. outbox' \in [Rows -> OutboxRow]
    BY <1>3 DEF ExpireLease, TypeOK, OutboxRow
  <2>2. CASE Held(r)
    BY <1>3, <2>1, <2>2 DEF ExpireLease, TypeOK
  <2>3. CASE ~Held(r)
    BY <1>3, <2>1, <2>3 DEF ExpireLease, TypeOK
  <2> QED BY <2>2, <2>3
<1>4. ASSUME NEW w \in Workers, NEW r \in Rows, Claim(w, r) PROVE TypeOK'
  <2>1. outbox[r].attempts + 1 \in 0..MaxAttempts
    BY <1>4 DEF Claim, NextClaim, Candidate, TypeOK, OutboxRow
  <2>2. outbox' \in [Rows -> OutboxRow]
    BY <1>4, <2>1, SweptType DEF Claim, NextClaim, OutboxRow, Statuses
  <2>3. workers' \in [Workers -> WorkerState]
    BY <1>4, <2>1 DEF Claim, NextClaim, TypeOK, WorkerState
  <2> QED BY <1>4, <2>2, <2>3 DEF Claim, NextClaim, TypeOK
<1>5. ASSUME NEW w \in Workers, ClaimNothing(w) PROVE TypeOK'
  BY <1>5, SweptType DEF ClaimNothing, TypeOK
<1>6. ASSUME NEW w \in Workers, NEW err \in Errors, Send(w, err) PROVE TypeOK'
  <2>1. workers[w].row \in Rows /\ workers[w] \in WorkerState
    BY <1>6 DEF Send, ClaimInv, Knows, TypeOK
  <2>2. Result(err, workers[w].attempts) \in {"retryable"} \cup Settled
    BY <2>1, ResultType DEF WorkerState
  <2>3. sent' \in [Rows -> Nat]
    BY <1>6, <2>1 DEF Send, TypeOK
  <2>4. [workers[w] EXCEPT !.pc = "finish", !.result = Result(err, workers[w].attempts)]
          \in WorkerState
    BY <2>1, <2>2 DEF WorkerState
  <2>5. workers' \in [Workers -> WorkerState]
    BY <1>6, <2>4 DEF Send, TypeOK
  <2> QED BY <1>6, <2>3, <2>5 DEF Send, TypeOK
<1>7. ASSUME NEW w \in Workers, Finish(w) PROVE TypeOK'
  <2>1. workers[w].row \in Rows /\ workers[w].result \in Statuses
    BY <1>7 DEF Finish, ClaimInv, Knows, TypeOK, WorkerState, Statuses
  <2>2. outbox' \in [Rows -> OutboxRow]
    BY <1>7, <2>1 DEF Finish, TypeOK, OutboxRow
  <2>3. workers' \in [Workers -> WorkerState]
    BY <1>7 DEF Finish, TypeOK, Idle, WorkerState
  <2> QED BY <1>7, <2>2, <2>3 DEF Finish, TypeOK
<1>8. ASSUME NEW w \in Workers, Crash(w) PROVE TypeOK'
  <2>1. lost' \in [Rows -> Nat]
    <3>1. workers[w].row \in Rows
      BY <1>8 DEF Crash, ClaimInv, Knows
    <3>2. lost' = lost \/ lost' = [lost EXCEPT ![workers[w].row] = @ + 1]
      BY <1>8 DEF Crash
    <3> QED BY <3>1, <3>2 DEF TypeOK
  <2>2. workers' \in [Workers -> WorkerState]
    BY <1>8 DEF Crash, TypeOK, Idle, WorkerState
  <2> QED BY <1>8, <2>1, <2>2 DEF Crash, TypeOK
<1>9. CASE UNCHANGED vars
  BY <1>9 DEF vars, TypeOK
<1> QED BY <1>1, <1>2, <1>3, <1>4, <1>5, <1>6, <1>7, <1>8, <1>9 DEF Next, Poll, Deliver

\* Send only adds messages, and records "sent" only for one it added.
LEMMA SendCounts ==
    ASSUME TypeOK, ClaimInv, NEW w \in Workers, NEW err \in Errors, Send(w, err)
    PROVE  /\ workers[w].row \in Rows
           /\ \A r \in Rows : sent'[r] \in Nat /\ sent'[r] >= sent[r]
           /\ err = "none" => sent'[workers[w].row] >= 1
<1>1. workers[w].row \in Rows
  BY DEF Send, ClaimInv, Knows
<1>2. PICK n \in {0, 1} : sent' = [sent EXCEPT ![workers[w].row] = @ + n] /\ (err = "none" => n = 1)
  BY DEF Send
<1> QED BY <1>1, <1>2 DEF TypeOK

\* Every step keeps what a busy worker knows about its claim.
LEMMA ClaimStep == TypeOK /\ ClaimInv /\ [Next]_vars => ClaimInv'
<1> SUFFICES ASSUME TypeOK, ClaimInv, [Next]_vars, NEW v \in Workers
             PROVE  Knows(v)'
  BY DEF ClaimInv
<1>1. Knows(v) /\ workers[v] \in WorkerState /\ (workers[v].row \in Rows => sent[workers[v].row] \in Nat)
  BY DEF ClaimInv, TypeOK
<1>2. CASE UNCHANGED <<workers, sent>>
  BY <1>1, <1>2 DEF Knows
<1>3. ASSUME NEW w \in Workers, NEW r \in Rows, Claim(w, r) PROVE Knows(v)'
  <2>1. CASE v = w
    BY <1>3, <2>1 DEF Claim, NextClaim, Knows, TypeOK
  <2>2. CASE v # w
    BY <1>1, <1>3, <2>2 DEF Claim, NextClaim, Knows, TypeOK
  <2> QED BY <2>1, <2>2
<1>4. ASSUME NEW w \in Workers, NEW err \in Errors, Send(w, err) PROVE Knows(v)'
  <2>1. CASE v = w
    <3>1. /\ workers'[w].pc = "finish"
          /\ workers'[w].row = workers[w].row
          /\ workers'[w].attempts = workers[w].attempts
          /\ workers'[w].result = Result(err, workers[w].attempts)
      BY <1>1, <1>4, <2>1 DEF Send, TypeOK, WorkerState
    <3>2. workers[w].attempts \in 0..MaxAttempts
      BY <1>1, <2>1 DEF WorkerState
    <3>3. /\ workers'[w].result \in {"retryable"} \cup Settled
          /\ workers'[w].result = "retryable" => workers[w].attempts < MaxAttempts
          /\ workers'[w].result = "sent" => err = "none"
      BY <3>1, <3>2, ResultType
    <3> QED BY <1>4, <2>1, <3>1, <3>3, SendCounts DEF Knows, Settled
  <2>2. CASE v # w
    <3>1. workers'[v] = workers[v]
      BY <1>4, <2>2 DEF Send, TypeOK
    <3> QED BY <1>1, <1>4, <3>1, SendCounts DEF Knows
  <2> QED BY <2>1, <2>2
<1>5. ASSUME NEW w \in Workers, Finish(w) \/ Crash(w) PROVE Knows(v)'
  <2>1. CASE v = w
    BY <1>5, <2>1 DEF Finish, Crash, Knows, TypeOK, Idle
  <2>2. CASE v # w
    BY <1>1, <1>5, <2>2 DEF Finish, Crash, Knows, TypeOK
  <2> QED BY <2>1, <2>2
<1> QED
  BY <1>2, <1>3, <1>4, <1>5
  DEF Next, Poll, Deliver, vars, Enqueue, ExpireLease, ChangeOwner, ClaimNothing

\* All that a step can do to one row.
RowMove(r) ==
    \/ /\ outbox'[r].status = outbox[r].status
       /\ outbox'[r].attempts = outbox[r].attempts
       /\ outbox[r].status \in Settled => outbox'[r] = outbox[r]
    \/ /\ outbox[r].status = "absent" /\ outbox'[r].status = "pending"
       /\ outbox'[r].attempts = outbox[r].attempts
    \/ /\ outbox[r].status \in {"pending", "retryable", "processing"}
       /\ outbox[r].attempts < MaxAttempts
       /\ outbox'[r].status = "processing"
       /\ outbox'[r].attempts = outbox[r].attempts + 1
    \/ /\ outbox[r].status = "processing" /\ outbox'[r].status \in Settled
       /\ outbox'[r].attempts = outbox[r].attempts
       /\ outbox'[r].status = "sent" => sent[r] >= 1
    \/ /\ outbox[r].status = "processing" /\ outbox'[r].status = "retryable"
       /\ outbox[r].attempts < MaxAttempts
       /\ outbox'[r].attempts = outbox[r].attempts

\* Every step makes such a move on every row.
LEMMA RowStep ==
    ASSUME TypeOK, ClaimInv, [Next]_vars, NEW r \in Rows
    PROVE  RowMove(r)
<1>1. outbox[r] \in OutboxRow
  BY DEF TypeOK
<1>2. ASSUME NEW q \in Rows, Enqueue(q) PROVE RowMove(r)
  BY <1>1, <1>2 DEF Enqueue, TypeOK, OutboxRow, RowMove
<1>3. ASSUME NEW q \in Rows, ExpireLease(q) PROVE RowMove(r)
  BY <1>1, <1>3 DEF ExpireLease, TypeOK, OutboxRow, RowMove, Settled
<1>4. ASSUME outbox'[r] = Swept[r] PROVE RowMove(r)
  BY <1>1, <1>4, SweptType DEF RowMove, Settled
<1>5. ASSUME NEW w \in Workers, NEW q \in Rows, Claim(w, q) PROVE RowMove(r)
  <2>1. CASE r = q
    <3>1. outbox'[r].status = "processing" /\ outbox'[r].attempts = outbox[r].attempts + 1
      BY <1>5, <2>1, SweptType DEF Claim, NextClaim
    <3>2. outbox[r].status \in {"pending", "retryable", "processing"}
      BY <1>5, <2>1 DEF Claim, NextClaim, Candidate, LeaseDead
    <3>3. outbox[r].attempts < MaxAttempts
      BY <1>5, <2>1 DEF Claim, NextClaim, Candidate
    <3> QED BY <3>1, <3>2, <3>3 DEF RowMove
  <2>2. CASE r # q
    BY <1>4, <1>5, <2>2, SweptType DEF Claim, NextClaim
  <2> QED BY <2>1, <2>2
<1>6. ASSUME NEW w \in Workers, ClaimNothing(w) PROVE RowMove(r)
  BY <1>4, <1>6 DEF ClaimNothing
<1>7. ASSUME NEW w \in Workers, Finish(w) PROVE RowMove(r)
  <2>1. CASE OwnsRow(w) /\ workers[w].row = r
    <3>1. outbox'[r].status = workers[w].result /\ outbox'[r].attempts = outbox[r].attempts
      BY <1>1, <1>7, <2>1 DEF Finish, TypeOK, OutboxRow
    <3>2. /\ workers[w].result \in {"retryable"} \cup Settled
          /\ workers[w].result = "retryable" => workers[w].attempts < MaxAttempts
          /\ workers[w].result = "sent" => sent[r] >= 1
      BY <1>7, <2>1 DEF Finish, ClaimInv, Knows, TypeOK, WorkerState
    <3>3. outbox[r].status = "processing" /\ outbox[r].attempts = workers[w].attempts
      BY <2>1 DEF OwnsRow
    <3> QED BY <3>1, <3>2, <3>3 DEF RowMove, Settled
  <2>2. CASE ~(OwnsRow(w) /\ workers[w].row = r)
    BY <1>1, <1>7, <2>2 DEF Finish, TypeOK, OutboxRow, RowMove
  <2> QED BY <2>1, <2>2
<1>8. CASE UNCHANGED outbox
  BY <1>8 DEF RowMove
<1> QED
  BY <1>2, <1>3, <1>5, <1>6, <1>7, <1>8
  DEF Next, Poll, Deliver, vars, ChangeOwner, Send, Crash

\* The claims of a row are never taken back.
LEMMA ClaimsGrow ==
    ASSUME TypeOK, ClaimInv, [Next]_vars, NEW r \in Rows
    PROVE  outbox'[r].attempts \in Nat /\ outbox'[r].attempts >= outbox[r].attempts
<1>1. outbox[r].attempts \in Nat
  BY OutboxAssumption DEF TypeOK, OutboxRow
<1> QED BY <1>1, RowStep DEF RowMove

\* A step other than a claim leaves each worker idle or with the claim it had.
LEMMA WorkerStep ==
    ASSUME TypeOK, [Next]_vars, ~(\E u \in Workers, r \in Rows : Claim(u, r)),
           NEW w \in Workers, workers'[w].pc # "idle"
    PROVE  /\ workers[w].pc # "idle"
           /\ workers'[w].row = workers[w].row
           /\ workers'[w].attempts = workers[w].attempts
<1>1. CASE UNCHANGED workers
  BY <1>1
<1>2. ASSUME NEW u \in Workers, NEW err \in Errors, Send(u, err)
      PROVE  /\ workers[w].pc # "idle"
             /\ workers'[w].row = workers[w].row
             /\ workers'[w].attempts = workers[w].attempts
  BY <1>2 DEF Send, TypeOK, WorkerState
<1>3. ASSUME NEW u \in Workers, Finish(u) \/ Crash(u)
      PROVE  workers'[w] = workers[w]
  BY <1>3 DEF Finish, Crash, TypeOK, Idle
<1> QED
  BY <1>1, <1>2, <1>3
  DEF Next, Poll, Deliver, vars, ChangeOwner, Enqueue, ExpireLease, ClaimNothing

\* Every step keeps the claims of a row apart: a new claim is above all others.
LEMMA LeaseStep == IndInv /\ [Next]_vars => LeaseExclusive'
<1> SUFFICES ASSUME IndInv, [Next]_vars PROVE LeaseExclusive'
  OBVIOUS
<1> DEFINE busy(x) == workers[x].pc # "idle"
<1>1. ASSUME NEW x \in Workers, busy(x)
      PROVE  /\ workers[x].row \in Rows
             /\ workers[x].attempts \in Nat
             /\ outbox[workers[x].row].attempts \in Nat
             /\ workers[x].attempts <= outbox[workers[x].row].attempts
  BY <1>1, OutboxAssumption
  DEF IndInv, ClaimInv, Knows, LeaseExclusive, TypeOK, WorkerState, OutboxRow
<1>2. ASSUME NEW x \in Workers, busy(x), NEW y \in Workers \ {x}, busy(y),
             workers[y].row = workers[x].row
      PROVE  workers[y].attempts # workers[x].attempts
  BY <1>2 DEF IndInv, LeaseExclusive
<1>3. \A r \in Rows : outbox'[r].attempts \in Nat /\ outbox'[r].attempts >= outbox[r].attempts
  BY ClaimsGrow DEF IndInv
<1>4. CASE ~(\E u \in Workers, r \in Rows : Claim(u, r))
  <2>1. ASSUME NEW x \in Workers, busy(x)'
        PROVE  /\ busy(x)
               /\ workers'[x].row = workers[x].row
               /\ workers'[x].attempts = workers[x].attempts
    BY <1>4, <2>1, WorkerStep DEF IndInv
  <2>2. ASSUME NEW x \in Workers, busy(x)'
        PROVE  workers'[x].attempts <= outbox'[workers'[x].row].attempts
    BY <1>1, <1>3, <2>1, <2>2
  <2>3. ASSUME NEW x \in Workers, busy(x)', NEW y \in Workers \ {x}, busy(y)',
               workers'[y].row = workers'[x].row
        PROVE  workers'[y].attempts # workers'[x].attempts
    BY <1>2, <2>1, <2>3
  <2> QED BY <2>2, <2>3 DEF LeaseExclusive
<1>5. ASSUME NEW u \in Workers, NEW r \in Rows, Claim(u, r) PROVE LeaseExclusive'
  <2>1. /\ outbox[r].attempts \in Nat
        /\ outbox'[r].attempts = outbox[r].attempts + 1
    BY <1>5, SweptType, OutboxAssumption DEF Claim, NextClaim, IndInv, TypeOK, OutboxRow
  <2>2. workers'[u].row = r /\ workers'[u].attempts = outbox[r].attempts + 1
    BY <1>5 DEF Claim, NextClaim, IndInv, TypeOK
  <2>3. \A x \in Workers \ {u} : workers'[x] = workers[x]
    BY <1>5 DEF Claim, NextClaim, IndInv, TypeOK
  <2>4. ASSUME NEW x \in Workers, busy(x)'
        PROVE  workers'[x].attempts <= outbox'[workers'[x].row].attempts
    <3>1. CASE x = u
      BY <2>1, <2>2, <3>1
    <3>2. CASE x # u
      BY <1>1, <1>3, <2>3, <2>4, <3>2
    <3> QED BY <3>1, <3>2
  <2>5. ASSUME NEW x \in Workers \ {u}, busy(x)', workers'[x].row = r
        PROVE  workers'[x].attempts # outbox[r].attempts + 1
    <3>1. busy(x) /\ workers'[x].attempts = workers[x].attempts /\ workers[x].row = r
      BY <2>3, <2>5
    <3>2. workers[x].attempts \in Nat /\ workers[x].attempts <= outbox[r].attempts
      BY <1>1, <3>1
    <3> QED BY <2>1, <3>1, <3>2
  <2>6. ASSUME NEW x \in Workers, busy(x)', NEW y \in Workers \ {x}, busy(y)',
               workers'[y].row = workers'[x].row
        PROVE  workers'[y].attempts # workers'[x].attempts
    <3>1. CASE x = u
      BY <2>2, <2>5, <2>6, <3>1
    <3>2. CASE y = u
      BY <2>2, <2>5, <2>6, <3>2
    <3>3. CASE x # u /\ y # u
      BY <1>2, <2>3, <2>6, <3>3
    <3> QED BY <3>1, <3>2, <3>3
  <2> QED BY <2>4, <2>6 DEF LeaseExclusive
<1> QED BY <1>4, <1>5

\* Every step keeps "sent" honest: the status comes from a worker that sent, and
\* messages are only added.
LEMMA SentStep == IndInv /\ [Next]_vars => SentWasReceived'
<1> SUFFICES ASSUME IndInv, [Next]_vars, NEW r \in Rows, outbox'[r].status = "sent"
             PROVE  sent'[r] >= 1
  BY DEF SentWasReceived
<1>1. sent[r] \in Nat
  BY DEF IndInv, TypeOK
<1>2. sent[r] >= 1
  BY RowStep DEF RowMove, IndInv, SentWasReceived
<1>3. ASSUME NEW w \in Workers, NEW err \in Errors, Send(w, err) PROVE sent'[r] >= 1
  <2>1. sent'[r] \in Nat /\ sent'[r] >= sent[r]
    BY <1>3, SendCounts DEF IndInv
  <2> QED BY <1>1, <1>2, <2>1
<1>4. CASE UNCHANGED sent
  BY <1>2, <1>4
<1> QED
  BY <1>3, <1>4
  DEF Next, Poll, Deliver, vars, Enqueue, ExpireLease, ChangeOwner, ClaimNothing,
      Claim, Finish, Crash

\* The inductive invariant holds in every reachable state.
THEOREM Invariance == Spec => []IndInv
<1>1. IndInv /\ [Next]_vars => IndInv'
  BY TypeStep, ClaimStep, LeaseStep, SentStep DEF IndInv
<1> QED BY InitInd, <1>1, PTL DEF Spec

-----------------------------------------------------------------------------
\* Every reachable state of the outbox and its workers is well typed; no row is
\* claimed more than MaxAttempts times.
THEOREM TypeCorrect == Spec => []TypeOK
BY Invariance, PTL DEF IndInv

\* No two workers ever hold the same claim of a row, and none is ahead of it.
THEOREM ClaimsAreExclusive == Spec => []LeaseExclusive
BY Invariance, PTL DEF IndInv

\* A row recorded as sent was received by the recipient.
THEOREM SentIsHonest == Spec => []SentWasReceived
BY Invariance, PTL DEF IndInv

\* A recorded outcome is final.
THEOREM OutcomesAreFinal == Spec => OutcomeIsFinal
<1>1. IndInv /\ [Next]_vars
        => [\A r \in Rows : outbox[r].status \in Settled => outbox'[r] = outbox[r]]_vars
  BY RowStep DEF RowMove, IndInv, Settled
<1> QED BY Invariance, <1>1, PTL DEF Spec, OutcomeIsFinal

\* A row's move is a move of the abstract queue.
LEMMA MoveRefines ==
    ASSUME TypeOK, TypeOK', NEW r \in Rows, RowMove(r)
    PROVE  Queue!Move(r)
<1>2. /\ QueuePhase("absent") = "absent"
      /\ QueuePhase("pending") = "waiting"
      /\ QueuePhase("retryable") = "waiting"
      /\ QueuePhase("processing") = "leased"
      /\ \A x \in Settled : QueuePhase(x) = "settled"
  BY DEF QueuePhase, Settled
<1>3. CASE outbox'[r].status = outbox[r].status /\ outbox'[r].attempts = outbox[r].attempts
  BY <1>3 DEF Queue!Move, Queue!Keep
<1>4. CASE outbox[r].status = "absent" /\ outbox'[r].status = "pending"
           /\ outbox'[r].attempts = outbox[r].attempts
  BY <1>2, <1>4 DEF Queue!Move, Queue!Enqueue
<1>5. CASE /\ outbox[r].status \in {"pending", "retryable", "processing"}
           /\ outbox[r].attempts < MaxAttempts
           /\ outbox'[r].status = "processing"
           /\ outbox'[r].attempts = outbox[r].attempts + 1
  BY <1>2, <1>5 DEF Queue!Move, Queue!Claim
<1>6. CASE /\ outbox[r].status = "processing" /\ outbox'[r].status \in Settled
           /\ outbox'[r].attempts = outbox[r].attempts
  BY <1>2, <1>6 DEF Queue!Move, Queue!Settle
<1>7. CASE /\ outbox[r].status = "processing" /\ outbox'[r].status = "retryable"
           /\ outbox[r].attempts < MaxAttempts
           /\ outbox'[r].attempts = outbox[r].attempts
  BY <1>2, <1>7 DEF Queue!Move, Queue!Retry
<1> QED BY <1>3, <1>4, <1>5, <1>6, <1>7 DEF RowMove

\* The outbox implements the abstract leased queue.
THEOREM OutboxRefinesQueue == Spec => OutboxIsLeasedQueue
<1>1. Init => Queue!Init
  <2> SUFFICES ASSUME Init PROVE Queue!Init
    OBVIOUS
  <2>1. QueuePhase("absent") = "absent"
    BY DEF QueuePhase, Settled
  <2>2. \A r \in Rows : outbox[r].status = "absent" /\ outbox[r].attempts = 0
    BY DEF Init
  <2>3. \A r \in Rows : QueuePhase(outbox[r].status) = "absent"
    BY <2>1, <2>2
  <2>4. [r \in Rows |-> QueuePhase(outbox[r].status)] = [r \in Rows |-> "absent"]
    BY <2>3
  <2>5. [r \in Rows |-> outbox[r].attempts] = [r \in Rows |-> 0]
    BY <2>2
  <2> QED BY <2>4, <2>5 DEF Queue!Init
<1>2. IndInv /\ IndInv' /\ [Next]_vars => [Queue!Next]_Queue!vars
  <2> SUFFICES ASSUME IndInv, IndInv', [Next]_vars PROVE Queue!Next
    OBVIOUS
  <2>1. \A r \in Rows : Queue!Move(r)
    BY RowStep, MoveRefines DEF IndInv
  <2>2. \A x \in Statuses : QueuePhase(x) \in {"absent", "waiting", "leased", "settled"}
    BY DEF QueuePhase, Statuses, Settled
  <2>3. \A r \in Rows : outbox'[r].status \in Statuses /\ outbox'[r].attempts \in 0..MaxAttempts
    BY DEF IndInv, TypeOK, OutboxRow
  <2> QED BY <2>1, <2>2, <2>3 DEF Queue!Next, Queue!Phases
<1> QED BY Invariance, <1>1, <1>2, PTL DEF Spec, OutboxIsLeasedQueue, Queue!Spec

-----------------------------------------------------------------------------
\* Duplicates.  A claim is the present one while the row is leased under it; a
\* worker that has lost its claim may still send once.
Present(w) == OwnsRow(w) /\ outbox[workers[w].row].lease = "live"
Owing(r) == {w \in Workers : workers[w].pc = "send" /\ workers[w].row = r /\ ~Present(w)}

\* The one message that no lost claim pays for.
Counted(r) ==
    \/ outbox[r].status \in {"sent", "unknown"}
    \/ \E w \in Workers : /\ workers[w].pc = "finish" /\ workers[w].row = r
                          /\ workers[w].result \in {"sent", "unknown"} /\ Present(w)

\* Lost claims pay for the messages sent and for those still to come.
CountOK(r) ==
    /\ IsFiniteSet(Owing(r))
    /\ sent[r] + Cardinality(Owing(r)) <= lost[r] + (IF Counted(r) THEN 1 ELSE 0)

CountInv == \A r \in Rows : CountOK(r)

\* The busy workers of a row that hold its last claim are one.
LEMMA OneOwner ==
    ASSUME IndInv, NEW x \in Workers, NEW y \in Workers, workers[x].pc # "idle", workers[y].pc # "idle",
           workers[x].row = workers[y].row, OwnsRow(x), OwnsRow(y)
    PROVE  x = y
  BY DEF IndInv, LeaseExclusive, OwnsRow

\* A claim whose row and worker stay is present or not, as it was.
LEMMA PresentStays ==
    ASSUME NEW x \in Workers, workers'[x].row = workers[x].row, workers'[x].attempts = workers[x].attempts,
           outbox'[workers[x].row] = outbox[workers[x].row]
    PROVE  Present(x)' <=> Present(x)
<1>1. PICK r : r = workers[x].row
  OBVIOUS
<1>2. Present(x) <=> outbox[r].status = "processing" /\ outbox[r].attempts = workers[x].attempts /\ outbox[r].lease = "live"
  BY <1>1 DEF Present, OwnsRow
<1>3. Present(x)' <=> outbox'[r].status = "processing" /\ outbox'[r].attempts = workers'[x].attempts /\ outbox'[r].lease = "live"
  BY <1>1 DEF Present, OwnsRow
<1> QED BY <1>1, <1>2, <1>3

\* Without a new debt and a message, the count stays right if a claim is lost, or
\* what counted still does.
LEMMA CountKept ==
    ASSUME TypeOK, NEW r \in Rows, CountOK(r), Owing(r)' \subseteq Owing(r), sent'[r] = sent[r],
           \/ lost'[r] = lost[r] /\ (Counted(r) => Counted(r)')
           \/ lost'[r] = lost[r] + 1
    PROVE  CountOK(r)'
<1>1. IsFiniteSet(Owing(r)') /\ Cardinality(Owing(r)') <= Cardinality(Owing(r))
  BY FS_Subset DEF CountOK
<1>2. Cardinality(Owing(r)) \in Nat /\ Cardinality(Owing(r)') \in Nat
  BY <1>1, FS_CardinalityType DEF CountOK
<1>3. sent[r] \in Nat /\ lost[r] \in Nat
  BY DEF TypeOK
<1>4. sent[r] + Cardinality(Owing(r)) <= lost[r] + (IF Counted(r) THEN 1 ELSE 0)
  BY DEF CountOK
<1>5. sent'[r] + Cardinality(Owing(r)') <= lost'[r] + (IF Counted(r)' THEN 1 ELSE 0)
  BY <1>1, <1>2, <1>3, <1>4
<1> QED BY <1>1, <1>5 DEF CountOK

\* ... as when workers keep their claims, or have none of the row.
LEMMA CountStays ==
    ASSUME IndInv, NEW r \in Rows, CountOK(r), sent'[r] = sent[r], lost'[r] = lost[r],
           outbox[r].status \in {"sent", "unknown"} => Counted(r)',
           \A x \in Workers :
              \/ /\ workers'[x] = workers[x]
                 /\ workers[x].pc # "idle" /\ workers[x].row = r /\ Present(x) => Present(x)'
              \/ /\ workers'[x].pc = "send" /\ workers'[x].row = r => Present(x)'
                 /\ workers[x].pc = "finish" /\ workers[x].row = r /\ Present(x)
                    /\ workers[x].result \in {"sent", "unknown"} => Counted(r)'
    PROVE  CountOK(r)'
<1>1. Owing(r)' \subseteq Owing(r)
  BY DEF Owing
<1>2. Counted(r) => Counted(r)'
  BY DEF Counted
<1> QED BY <1>1, <1>2, CountKept DEF IndInv

\* A new row has no claims.
LEMMA EnqueueCount ==
    ASSUME IndInv, NEW r \in Rows, CountOK(r), NEW q \in Rows, Enqueue(q)
    PROVE  CountOK(r)'
<1>1. /\ UNCHANGED <<workers, sent, lost>> /\ outbox[q].status = "absent"
      /\ \A x \in Rows : x # q => outbox'[x] = outbox[x]
  BY DEF Enqueue, IndInv, TypeOK
<1>2. ASSUME NEW x \in Workers, workers[x].pc # "idle", Present(x) PROVE Present(x)'
  <2>1. workers[x].row \in Rows /\ workers[x].row # q
    BY <1>1, <1>2 DEF IndInv, ClaimInv, Knows, Present, OwnsRow
  <2> QED BY <1>1, <1>2, <2>1, PresentStays
<1>3. outbox[r].status \in {"sent", "unknown"} => Counted(r)'
  BY <1>1 DEF Counted
<1> QED BY <1>1, <1>2, <1>3, CountStays

\* The sweep, and what it leaves alone.
LEMMA SweptCount ==
    ASSUME TypeOK, NEW r \in Rows
    PROVE  /\ outbox[r].lease = "live" \/ outbox[r].status # "processing" => Swept[r] = outbox[r]
           /\ outbox[r].status \in {"sent", "unknown"} => Swept[r].status = outbox[r].status
  BY DEF Swept, LeaseDead

\* A claim is taken of a row whose last claim, if it had one, is over.
LEMMA ClaimCount ==
    ASSUME IndInv, NEW r \in Rows, CountOK(r), NEW w \in Workers, NEW q \in Rows, Claim(w, q)
    PROVE  CountOK(r)'
<1>1. /\ UNCHANGED <<sent, lost>> /\ workers[w].pc = "idle" /\ Candidate(q)
      /\ \A x \in Workers : x # w => workers'[x] = workers[x]
      /\ \A x \in Rows : x # q => outbox'[x] = Swept[x]
  BY SweptType DEF Claim, IndInv, TypeOK
<1>2. /\ workers'[w].row = q /\ workers'[w].attempts = NextClaim(q)
      /\ outbox'[q].status = "processing" /\ outbox'[q].attempts = NextClaim(q) /\ outbox'[q].lease = "live"
  BY SweptType DEF Claim, IndInv, TypeOK
<1>3. ASSUME NEW x \in Workers, x # w, workers[x].pc # "idle", Present(x) PROVE Present(x)'
  <2>1. PICK p : p = workers[x].row
    OBVIOUS
  <2>2. p \in Rows /\ outbox[p].status = "processing" /\ outbox[p].lease = "live"
    BY <1>3, <2>1 DEF IndInv, ClaimInv, Knows, Present, OwnsRow
  <2>3. p # q
    BY <1>1, <2>2 DEF Candidate, LeaseDead
  <2>4. outbox'[p] = outbox[p]
    BY <1>1, <2>2, <2>3, SweptCount DEF IndInv
  <2> QED BY <1>1, <1>3, <2>1, <2>4, PresentStays
<1>4. Present(w)'
  BY <1>2 DEF Present, OwnsRow
<1>5. outbox[r].status \in {"sent", "unknown"} => Counted(r)'
  <2>1. outbox[r].status \in {"sent", "unknown"} => r # q
    BY <1>1 DEF Candidate, LeaseDead
  <2> QED BY <1>1, <2>1, SweptCount DEF Counted, IndInv
<1> QED BY <1>1, <1>3, <1>4, <1>5, CountStays

\* The sweep settles rows whose claims are over.
LEMMA ClaimNothingCount ==
    ASSUME IndInv, NEW r \in Rows, CountOK(r), NEW w \in Workers, ClaimNothing(w)
    PROVE  CountOK(r)'
<1>1. UNCHANGED <<sent, lost, workers>> /\ outbox' = Swept
  BY DEF ClaimNothing
<1>2. ASSUME NEW x \in Workers, workers[x].pc # "idle", Present(x) PROVE Present(x)'
  <2>1. PICK p : p = workers[x].row
    OBVIOUS
  <2>2. p \in Rows /\ outbox[p].lease = "live"
    BY <1>2, <2>1 DEF IndInv, ClaimInv, Knows, Present
  <2>3. outbox'[p] = outbox[p]
    BY <1>1, <2>2, SweptCount DEF IndInv
  <2> QED BY <1>1, <1>2, <2>1, <2>3, PresentStays
<1>3. outbox[r].status \in {"sent", "unknown"} => Counted(r)'
  BY <1>1, SweptCount DEF Counted, IndInv
<1> QED BY <1>1, <1>2, <1>3, CountStays

\* A message pays with the debt of its worker, or is the counted one.
LEMMA SendCount ==
    ASSUME IndInv, NEW r \in Rows, CountOK(r), NEW w \in Workers, NEW err \in Errors, Send(w, err)
    PROVE  CountOK(r)'
<1>1. PICK n \in {0, 1} : /\ sent' = [sent EXCEPT ![workers[w].row] = @ + n]
                          /\ n = 1 => err \in {"none", "unknown"}
  <2>1. PICK n \in (IF err = "none" THEN {1} ELSE IF err = "unknown" THEN {0, 1} ELSE {0}) :
             sent' = [sent EXCEPT ![workers[w].row] = @ + n]
    BY Zenon DEF Send
  <2>2. n \in {0, 1} /\ (n = 1 => err \in {"none", "unknown"})
    OBVIOUS
  <2> QED BY <2>1, <2>2
<1>2. /\ UNCHANGED <<outbox, lost>> /\ workers[w].pc = "send" /\ workers[w].row \in Rows
      /\ \A x \in Workers : x # w => workers'[x] = workers[x]
      /\ workers'[w].pc = "finish" /\ workers'[w].row = workers[w].row
      /\ workers'[w].attempts = workers[w].attempts
      /\ workers'[w].result = Result(err, workers[w].attempts)
  BY DEF Send, IndInv, TypeOK, WorkerState, ClaimInv, Knows
<1>3. \A x \in Workers : Present(x)' <=> Present(x)
  BY <1>2, PresentStays
<1>4. n = 1 => workers'[w].result \in {"sent", "unknown"}
  BY <1>1, <1>2 DEF Result
<1>5. /\ sent[r] \in Nat /\ lost[r] \in Nat /\ lost' = lost
      /\ sent'[r] = IF workers[w].row = r THEN sent[r] + n ELSE sent[r]
  BY <1>1, <1>2 DEF IndInv, TypeOK
<1>6. Owing(r)' = Owing(r) \ {w}
  BY <1>2, <1>3 DEF Owing
<1>7. Counted(r) => Counted(r)'
  BY <1>2, <1>3 DEF Counted
<1>8. CASE workers[w].row # r \/ n = 0
  <2>1. sent'[r] = sent[r]
    BY <1>5, <1>8
  <2> QED BY <1>5, <1>6, <1>7, <2>1, CountKept DEF IndInv
<1>9. CASE workers[w].row = r /\ n = 1
  <2>1. IsFiniteSet(Owing(r)) /\ Cardinality(Owing(r)) \in Nat
    BY FS_CardinalityType DEF CountOK
  <2>2. sent[r] + Cardinality(Owing(r)) <= lost[r] + (IF Counted(r) THEN 1 ELSE 0)
    BY DEF CountOK
  <2>3. /\ IsFiniteSet(Owing(r)')
        /\ Cardinality(Owing(r)') = IF w \in Owing(r) THEN Cardinality(Owing(r)) - 1 ELSE Cardinality(Owing(r))
    BY <1>6, <2>1, FS_RemoveElement
  <2>4. CASE w \in Owing(r)
    <3>1. sent'[r] + Cardinality(Owing(r)') = sent[r] + Cardinality(Owing(r))
      BY <1>5, <1>9, <2>1, <2>3, <2>4
    <3>2. sent'[r] + Cardinality(Owing(r)') <= lost'[r] + (IF Counted(r)' THEN 1 ELSE 0)
      <4>1. lost'[r] = lost[r]
        BY <1>5
      <4> QED BY <1>5, <1>7, <2>1, <2>2, <3>1, <4>1
    <3> QED BY <2>3, <3>2 DEF CountOK
  <2>5. CASE w \notin Owing(r)
    <3>1. Present(w)
      BY <1>2, <1>9, <2>5 DEF Owing
    <3>2. Counted(r)'
      BY <1>2, <1>3, <1>4, <1>9, <3>1 DEF Counted
    <3>3. ~Counted(r)
      <4>1. outbox[r].status = "processing"
        BY <1>9, <3>1 DEF Present, OwnsRow
      <4>2. ASSUME NEW x \in Workers, workers[x].pc = "finish", workers[x].row = r, Present(x) PROVE FALSE
        BY <1>2, <1>9, <3>1, <4>2, OneOwner DEF Present
      <4> QED BY <4>1, <4>2 DEF Counted
    <3>4. sent'[r] + Cardinality(Owing(r)') <= lost'[r] + 1
      BY <1>5, <1>9, <2>1, <2>2, <2>3, <2>5, <3>3
    <3> QED BY <2>3, <3>2, <3>4 DEF CountOK
  <2> QED BY <2>4, <2>5
<1> QED BY <1>8, <1>9

\* What counted in the worker's hand counts in the row.
LEMMA FinishCount ==
    ASSUME IndInv, NEW r \in Rows, CountOK(r), NEW w \in Workers, Finish(w)
    PROVE  CountOK(r)'
<1>1. /\ UNCHANGED <<sent, lost>> /\ workers[w].pc = "finish" /\ workers[w].row \in Rows
      /\ \A x \in Workers : x # w => workers'[x] = workers[x]
      /\ workers'[w].pc = "idle"
  BY DEF Finish, IndInv, TypeOK, ClaimInv, Knows, Idle
<1>2. /\ \A p \in Rows : p # workers[w].row \/ ~OwnsRow(w) => outbox'[p] = outbox[p]
      /\ OwnsRow(w) => outbox'[workers[w].row].status = workers[w].result
  BY <1>1 DEF Finish, IndInv, TypeOK, OutboxRow
<1>3. ASSUME NEW x \in Workers, x # w, workers[x].pc # "idle", Present(x) PROVE Present(x)'
  <2>1. workers[x].row \in Rows
    BY <1>3 DEF IndInv, ClaimInv, Knows
  <2>2. workers[x].row # workers[w].row \/ ~OwnsRow(w)
    BY <1>1, <1>3, OneOwner DEF Present
  <2> QED BY <1>1, <1>2, <1>3, <2>1, <2>2, PresentStays
<1>4. outbox[r].status \in {"sent", "unknown"} => Counted(r)'
  <2>1. outbox[r].status \in {"sent", "unknown"} => r # workers[w].row \/ ~OwnsRow(w)
    BY DEF OwnsRow
  <2> QED BY <1>2, <2>1 DEF Counted
<1>5. workers[w].row = r /\ Present(w) /\ workers[w].result \in {"sent", "unknown"} => Counted(r)'
  BY <1>2 DEF Counted, Present
<1> QED BY <1>1, <1>3, <1>4, <1>5, CountStays

\* A worker dies: its claim is lost now or was lost before.
LEMMA CrashCount ==
    ASSUME IndInv, NEW r \in Rows, CountOK(r), NEW w \in Workers, Crash(w)
    PROVE  CountOK(r)'
<1>1. /\ UNCHANGED <<outbox, sent>> /\ workers[w].pc # "idle" /\ workers[w].row \in Rows
      /\ \A x \in Workers : x # w => workers'[x] = workers[x]
      /\ workers'[w].pc = "idle"
  BY DEF Crash, IndInv, TypeOK, ClaimInv, Knows, Idle
<1>2. \A x \in Workers : x # w => (Present(x)' <=> Present(x))
  BY <1>1, PresentStays
<1>3. CASE Present(w) /\ workers[w].row = r
  <2>1. lost'[r] = lost[r] + 1
    BY <1>3 DEF Crash, Present, IndInv, TypeOK
  <2>2. Owing(r)' \subseteq Owing(r)
    BY <1>1, <1>2 DEF Owing
  <2> QED BY <1>1, <2>1, <2>2, CountKept DEF IndInv
<1>4. CASE ~(Present(w) /\ workers[w].row = r)
  <2>1. lost'[r] = lost[r]
    BY <1>1, <1>4 DEF Crash, Present, IndInv, TypeOK
  <2>2. outbox[r].status \in {"sent", "unknown"} => Counted(r)'
    BY <1>1 DEF Counted
  <2> QED BY <1>1, <1>2, <1>4, <2>1, <2>2, CountStays
<1> QED BY <1>3, <1>4

\* A lease runs out under its worker: the claim is lost, the message still to come.
LEMMA ExpireLeaseCount ==
    ASSUME IndInv, NEW r \in Rows, CountOK(r), NEW q \in Rows, ExpireLease(q)
    PROVE  CountOK(r)'
<1>1. /\ UNCHANGED <<workers, sent>> /\ outbox[q].status = "processing" /\ outbox[q].lease = "live"
      /\ \A p \in Rows : p # q => outbox'[p] = outbox[p] /\ lost'[p] = lost[p]
      /\ outbox'[q].status = "processing" /\ outbox'[q].lease = "expired"
      /\ lost'[q] = IF Held(q) THEN lost[q] + 1 ELSE lost[q]
  BY DEF ExpireLease, IndInv, TypeOK, OutboxRow
<1>2. ASSUME NEW x \in Workers, workers[x].pc # "idle", Present(x), workers[x].row # q PROVE Present(x)'
  <2>1. workers[x].row \in Rows
    BY <1>2 DEF IndInv, ClaimInv, Knows
  <2> QED BY <1>1, <1>2, <2>1, PresentStays
<1>3. CASE r # q
  <2>1. outbox[r].status \in {"sent", "unknown"} => Counted(r)'
    BY <1>1, <1>3 DEF Counted
  <2> QED BY <1>1, <1>2, <1>3, <2>1, CountStays
<1>4. CASE r = q /\ ~Held(q)
  <2>1. \A x \in Workers : workers[x].pc # "idle" /\ workers[x].row = q => ~Present(x)
    BY <1>4 DEF Held, Present
  <2> QED BY <1>1, <1>4, <2>1, CountStays
<1>5. CASE r = q /\ Held(q)
  <2>1. PICK w \in Workers : workers[w].pc # "idle" /\ workers[w].row = q /\ OwnsRow(w)
    BY <1>5 DEF Held
  <2>2. ASSUME NEW x \in Workers, workers[x].pc # "idle", workers[x].row = q, Present(x) PROVE x = w
    BY <2>1, <2>2, OneOwner DEF Present
  <2>3. Present(w)
    BY <1>1, <2>1 DEF Present
  <2>4. lost'[r] = lost[r] + 1 /\ sent'[r] = sent[r]
    BY <1>1, <1>5
  <2>5. CASE workers[w].pc # "send"
    <3>1. Owing(r)' \subseteq Owing(r)
      BY <1>1, <1>5, <2>2, <2>5 DEF Owing
    <3> QED BY <2>4, <3>1, CountKept DEF IndInv
  <2>6. CASE workers[w].pc = "send"
    <3>1. ~Counted(r)
      BY <1>1, <1>5, <2>2, <2>6 DEF Counted
    <3>2. Owing(r)' \subseteq Owing(r) \cup {w} /\ w \notin Owing(r)
      BY <1>1, <1>5, <2>2, <2>3 DEF Owing
    <3>3. IsFiniteSet(Owing(r)) /\ Cardinality(Owing(r)) \in Nat
      BY FS_CardinalityType DEF CountOK
    <3>4. IsFiniteSet(Owing(r) \cup {w}) /\ Cardinality(Owing(r) \cup {w}) = Cardinality(Owing(r)) + 1
      BY <3>2, <3>3, FS_AddElement
    <3>5. /\ IsFiniteSet(Owing(r)') /\ Cardinality(Owing(r)') \in Nat
          /\ Cardinality(Owing(r)') <= Cardinality(Owing(r)) + 1
      BY <3>2, <3>4, FS_Subset, FS_CardinalityType
    <3>6. sent[r] \in Nat /\ lost[r] \in Nat /\ sent[r] + Cardinality(Owing(r)) <= lost[r]
      BY <3>1 DEF CountOK, IndInv, TypeOK
    <3>7. sent'[r] + Cardinality(Owing(r)') <= lost'[r] + (IF Counted(r)' THEN 1 ELSE 0)
      BY <2>4, <3>3, <3>5, <3>6
    <3> QED BY <3>5, <3>7 DEF CountOK
  <2> QED BY <2>5, <2>6
<1> QED BY <1>3, <1>4, <1>5

\* Every step keeps the count of every row right.
LEMMA CountStep == IndInv /\ CountInv /\ [Next]_vars => CountInv'
<1> SUFFICES ASSUME IndInv, [Next]_vars, NEW r \in Rows, CountOK(r) PROVE CountOK(r)'
  BY DEF CountInv
<1>1. ASSUME NEW q \in Rows, Enqueue(q) PROVE CountOK(r)'
  BY <1>1, EnqueueCount
<1>2. ASSUME NEW q \in Rows, ExpireLease(q) PROVE CountOK(r)'
  BY <1>2, ExpireLeaseCount
<1>3. ASSUME NEW q \in Rows, NEW o \in Owners, ChangeOwner(q, o) PROVE CountOK(r)'
  BY <1>3 DEF ChangeOwner, CountOK, Counted, Owing, Present, OwnsRow
<1>4. ASSUME NEW w \in Workers, NEW q \in Rows, Claim(w, q) PROVE CountOK(r)'
  BY <1>4, ClaimCount
<1>5. ASSUME NEW w \in Workers, ClaimNothing(w) PROVE CountOK(r)'
  BY <1>5, ClaimNothingCount
<1>6. ASSUME NEW w \in Workers, NEW err \in Errors, Send(w, err) PROVE CountOK(r)'
  BY <1>6, SendCount
<1>7. ASSUME NEW w \in Workers, Finish(w) PROVE CountOK(r)'
  BY <1>7, FinishCount
<1>8. ASSUME NEW w \in Workers, Crash(w) PROVE CountOK(r)'
  BY <1>8, CrashCount
<1>9. CASE UNCHANGED vars
  BY <1>9 DEF vars, CountOK, Counted, Owing, Present, OwnsRow
<1> QED BY <1>1, <1>2, <1>3, <1>4, <1>5, <1>6, <1>7, <1>8, <1>9, Zenon DEF Next, Poll, Deliver

\* Every message beyond the recorded one is paid for by a claim that was lost to a
\* crash or an expired lease, for any workers, retries and faults: RunOnce alone
\* never sends twice.
THEOREM DuplicatesArePaidFor == Spec => []DuplicateNeedsLostLease
<1>1. Init => CountInv
  <2> SUFFICES ASSUME Init, NEW r \in Rows PROVE CountOK(r)
    BY DEF CountInv
  <2>1. Owing(r) = {} /\ sent[r] = 0 /\ lost[r] = 0
    BY DEF Init, Owing, Idle
  <2>2. IsFiniteSet(Owing(r)) /\ Cardinality(Owing(r)) = 0
    BY <2>1, FS_EmptySet
  <2> QED BY <2>1, <2>2 DEF CountOK
<1>2. IndInv /\ CountInv => DuplicateNeedsLostLease
  <2> SUFFICES ASSUME IndInv, CountInv, NEW r \in Rows
               PROVE  sent[r] <= lost[r] + (IF MaybeReceived(r) THEN 1 ELSE 0)
    BY DEF DuplicateNeedsLostLease
  <2>1. Counted(r) => MaybeReceived(r)
    BY DEF Counted, MaybeReceived
  <2>2. sent[r] \in Nat /\ lost[r] \in Nat /\ Cardinality(Owing(r)) \in Nat
    BY FS_CardinalityType DEF IndInv, TypeOK, CountInv, CountOK
  <2>3. sent[r] + Cardinality(Owing(r)) <= lost[r] + (IF Counted(r) THEN 1 ELSE 0)
    BY DEF CountInv, CountOK
  <2> QED BY <2>1, <2>2, <2>3
<1> QED BY <1>1, <1>2, CountStep, Invariance, PTL DEF Spec
=============================================================================
