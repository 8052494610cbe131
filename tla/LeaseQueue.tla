----------------------------- MODULE LeaseQueue -----------------------------
(***************************************************************************)
(* What a leased work queue of this system promises, whichever store keeps *)
(* it: the "jobs" table of the video workers, the "notification_outbox"    *)
(* table of the WeChat worker, the memory of the media jobs.  A row is     *)
(* enqueued once, is claimed at most MaxAttempts times, leaves a claim     *)
(* either settled or back in the queue, and never changes again once it is *)
(* settled.  One transaction may move several rows, so a step is a set of  *)
(* rows each making one legal move.                                        *)
(***************************************************************************)
EXTENDS Naturals

CONSTANTS Rows,         \* the rows the table may ever hold
          MaxAttempts,  \* claims allowed per row
          Brought       \* the claims a new row may bring along, besides none

VARIABLES phase,   \* phase[r]: where row r is in its life
          tries    \* tries[r]: how many times row r has been claimed

vars == <<phase, tries>>

Phases == {"absent", "waiting", "leased", "settled"}

Init == /\ phase = [r \in Rows |-> "absent"]
        /\ tries = [r \in Rows |-> 0]

\* The row is written.
Enqueue(r) == /\ phase[r] = "absent"
              /\ phase'[r] = "waiting"
              /\ tries'[r] \in {tries[r]} \cup Brought

\* A worker takes the row, from the queue or from a worker whose lease ran out.
Claim(r) == /\ phase[r] \in {"waiting", "leased"}
            /\ tries[r] < MaxAttempts
            /\ phase'[r] = "leased"
            /\ tries'[r] = tries[r] + 1

\* The claim failed in a way worth another attempt, and one is left.
Retry(r) == /\ phase[r] = "leased"
            /\ tries[r] < MaxAttempts
            /\ phase'[r] = "waiting"
            /\ tries'[r] = tries[r]

\* A final result is recorded.
Settle(r) == /\ phase[r] = "leased"
             /\ phase'[r] = "settled"
             /\ tries'[r] = tries[r]

Keep(r) == phase'[r] = phase[r] /\ tries'[r] = tries[r]

Move(r) == Enqueue(r) \/ Claim(r) \/ Retry(r) \/ Settle(r) \/ Keep(r)

Next == /\ phase' \in [Rows -> Phases]
        /\ tries' \in [Rows -> 0..MaxAttempts]
        /\ \A r \in Rows : Move(r)

Spec == Init /\ [][Next]_vars
=============================================================================
