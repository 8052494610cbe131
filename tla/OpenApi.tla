------------------------------ MODULE OpenApi ------------------------------
(***************************************************************************)
(* The open API: keys that are issued, rotated and revoked, and requests   *)
(* signed with them (internal/core/open_auth.go, open_rate.go,             *)
(* api_keys.go, internal/openapi/server.go).                               *)
(*                                                                         *)
(* A request takes the time of its arrival, may wait for a connection and  *)
(* for the row of its key, and in one transaction checks the key, sweeps   *)
(* old nonces, reserves its own and takes a token from the bucket.  The    *)
(* database time of the transaction is the time it began.  Tokens are      *)
(* counted in parts: a request costs Unit parts, Rate parts are earned in  *)
(* a tick.                                                                 *)
(***************************************************************************)
EXTENDS Integers, FiniteSets

CONSTANTS
    Keys, Nonces, Requests, NoKey,
    Window,   \* how far a timestamp may be from the server's clock
    Keep,     \* how long a nonce is reserved
    Unit, Rate, Burst,
    MaxTime   \* bound on the clock

ASSUME OpenApiAssumption ==
    /\ Window \in Nat /\ Keep \in Nat /\ MaxTime \in Nat
    /\ Unit \in Nat \ {0} /\ Rate \in Nat \ {0} /\ Burst \in Nat /\ Burst >= Unit
    /\ NoKey \notin Keys /\ NoKey \notin Nonces

VARIABLES
    now,          \* the clock of the server and of its database
    tenantActive, \* tenants.active of the keys' tenant
    key,          \* api_keys
    nonces,       \* api_key_nonces
    req,          \* where each request is
    spent         \* for the properties: how many requests of each key were accepted

openVars == <<now, tenantActive, key, nonces, req, spent>>

Absent == [state |-> "absent", tokens |-> 0, last |-> 0, from |-> NoKey, issued |-> 0]
Idle == [at |-> "idle", key |-> NoKey, arrived |-> 0, began |-> 0]

Distance(a, b) == IF a < b THEN b - a ELSE a - b
Locked(k) == \E r \in Requests : req[r].at = "locked" /\ req[r].key = k
End(r) == req' = [req EXCEPT ![r] = Idle]
-----------------------------------------------------------------------------
\* Keys.

NewKey(from) == [state |-> "live", tokens |-> Burst, last |-> now, from |-> from,
                 issued |-> now]

\* IssueAPIKey: the licence, the administrator and the resources were accepted.
IssueAPIKey(k) ==
    /\ key[k] = Absent /\ tenantActive
    /\ key' = [key EXCEPT ![k] = NewKey(NoKey)]
    /\ UNCHANGED <<now, tenantActive, nonces, req, spent>>

\* RotateAPIKey: the old key FOR UPDATE, revoked with the insert of the new.
RotateAPIKey(k, new) ==
    /\ key[k].state = "live" /\ key[new] = Absent /\ tenantActive
    /\ ~Locked(k)
    /\ key' = [key EXCEPT ![k].state = "revoked", ![new] = NewKey(k)]
    /\ UNCHANGED <<now, tenantActive, nonces, req, spent>>

\* RevokeAPIKey keeps the first time of revocation.
RevokeAPIKey(k) ==
    /\ key[k].state # "absent" /\ tenantActive
    /\ ~Locked(k)
    /\ key' = [key EXCEPT ![k].state = "revoked"]
    /\ UNCHANGED <<now, tenantActive, nonces, req, spent>>

\* SetTenantActive: suspends the tenant or takes it back.
SwitchTenant ==
    /\ tenantActive' = ~tenantActive
    /\ UNCHANGED <<now, key, nonces, req, spent>>
-----------------------------------------------------------------------------
\* Requests.

\* A timestamp as AuthenticateOpen accepts it.
InWindow(stamp) == Distance(stamp, now) <= Window

\* authenticate: the clock is read when the request arrives.  A request that is
\* malformed or outside the window is refused without a trace.
\* What it carries is chosen where it is first looked at.
Arrive(r, stamp) ==
    /\ req[r] = Idle
    /\ InWindow(stamp)
    /\ req' = [req EXCEPT ![r] = [at |-> "arrived", key |-> NoKey, arrived |-> now,
                                  began |-> now]]
    /\ UNCHANGED <<now, tenantActive, key, nonces, spent>>

\* The licence does not carry the feature.
Refuse(r) ==
    /\ req[r].at = "arrived"
    /\ End(r)
    /\ UNCHANGED <<now, tenantActive, key, nonces, spent>>

Begin(r) ==
    /\ req[r].at = "arrived"
    /\ req' = [req EXCEPT ![r] = [@ EXCEPT !.at = "began", !.began = now]]
    /\ UNCHANGED <<now, tenantActive, key, nonces, spent>>

\* The key FOR UPDATE, its tenant, the signature.  Nobody signs with a key that was
\* issued after the request was sent.
LoadKey(r, k) ==
    /\ req[r].at = "began" /\ ~Locked(k)
    /\ key[k].issued <= req[r].arrived
    /\ IF key[k].state = "live" /\ tenantActive
       THEN req' = [req EXCEPT ![r] = [@ EXCEPT !.at = "locked", !.key = k]]
       ELSE End(r)
    /\ UNCHANGED <<now, tenantActive, key, nonces, spent>>

\* A wrong signature, or an error before the commit.
Rollback(r) ==
    /\ req[r].at = "locked"
    /\ End(r)
    /\ UNCHANGED <<now, tenantActive, key, nonces, spent>>

\* Faulty: nonces are dropped when their timestamps leave the window.
SweptEarly(t) == {x \in nonces : x.until - Keep + Window >= t}

\* DELETE FROM api_key_nonces WHERE expires_at < now(), of all keys.
Swept(t) == {x \in nonces : x.until >= t}

\* consumeOpenRate: what is in the bucket, and how long until it holds one.
Refill(b, t) ==
    LET earned == b.tokens + Rate * (IF t > b.last THEN t - b.last ELSE 0)
    IN  IF earned < Burst THEN earned ELSE Burst

\* Faulty: the wait is rounded down, to a tick at least.
RetryAfterDown(b, t) ==
    IF Refill(b, t) >= Unit THEN 0
    ELSE IF Unit - Refill(b, t) < Rate THEN 1 ELSE (Unit - Refill(b, t)) \div Rate

RetryAfter(b, t) ==
    IF Refill(b, t) >= Unit THEN 0
    ELSE (Unit - Refill(b, t) + Rate - 1) \div Rate

\* A token is taken; the refill time becomes the time of the request.
Taken(b, t) == [b EXCEPT !.tokens = Refill(b, t) - Unit, !.last = t]

\* The transaction ends: a replay rolls back, a throttled request keeps its
\* nonce and leaves the bucket, an accepted one takes a token and sets the
\* refill time to the time of its arrival.
AuthenticateOpen(r, n) ==
    LET k == req[r].key
        x == [key |-> k, nonce |-> n, until |-> req[r].began + Keep]
        b == key[k]
    IN  /\ req[r].at = "locked"
        /\ \/ /\ \E y \in Swept(req[r].began) : y.key = k /\ y.nonce = n
              /\ UNCHANGED <<key, nonces, spent>>
           \/ /\ \A y \in Swept(req[r].began) : y.key # k \/ y.nonce # n
              /\ nonces' = Swept(req[r].began) \cup {x}
              /\ \/ /\ RetryAfter(b, req[r].arrived) > 0
                    /\ UNCHANGED <<key, spent>>
                 \/ /\ RetryAfter(b, req[r].arrived) = 0
                    /\ key' = [key EXCEPT ![k] = Taken(b, req[r].arrived)]
                    /\ spent' = [spent EXCEPT ![k] = @ + 1]
        /\ End(r)
        /\ UNCHANGED <<now, tenantActive>>

OpenTick ==
    /\ now < MaxTime
    /\ now' = now + 1
    /\ UNCHANGED <<tenantActive, key, nonces, req, spent>>

OpenInit ==
    /\ now = 0 /\ tenantActive = TRUE
    /\ key = [k \in Keys |-> Absent]
    /\ nonces = {}
    /\ req = [r \in Requests |-> Idle]
    /\ spent = [k \in Keys |-> 0]

OpenNext ==
    \/ OpenTick \/ SwitchTenant
    \/ \E k \in Keys : IssueAPIKey(k) \/ RevokeAPIKey(k) \/ \E n \in Keys : RotateAPIKey(k, n)
    \/ \E r \in Requests :
          \/ \E stamp \in 0..MaxTime : Arrive(r, stamp)
          \/ Refuse(r) \/ Begin(r) \/ Rollback(r)
          \/ \E k \in Keys : LoadKey(r, k)
          \/ \E n \in Nonces : AuthenticateOpen(r, n)

OpenSpec == OpenInit /\ [][OpenNext]_openVars
-----------------------------------------------------------------------------
\* Every variable holds values of its type; a bucket never runs below zero nor
\* over the burst.
OpenTypeOK ==
    /\ now \in 0..MaxTime /\ tenantActive \in BOOLEAN
    /\ \A k \in Keys :
          /\ key[k].state \in {"absent", "live", "revoked"}
          /\ key[k].tokens \in 0..Burst /\ key[k].last \in 0..MaxTime
          /\ key[k].issued \in 0..MaxTime /\ key[k].from \in Keys \cup {NoKey}
          /\ spent[k] \in Nat
    /\ nonces \subseteq [key : Keys, nonce : Nonces, until : 0..(MaxTime + Keep)]
    /\ \A r \in Requests :
          /\ req[r].at \in {"idle", "arrived", "began", "locked"}
          /\ req[r].at = "locked" => req[r].key \in Keys
          /\ req[r].arrived \in 0..now /\ req[r].began \in 0..now

\* A nonce, once reserved by a signed request (throttled ones too), is held for
\* its ten minutes and held once, whichever key's request sweeps the table and
\* however long a transaction waited for its key (AuthenticateOpen).
NonceKept ==
    /\ \A x \in nonces \ nonces' : now > x.until
    /\ \A x, y \in nonces' : x.key = y.key /\ x.nonce = y.nonce => x = y

\* docs/api/open-openapi.yaml:5 promises 60 requests per minute and a burst of 10
\* per key: since its issue a key has been let in no more often than the burst and
\* the time gone by allow.  It does not hold: a request that waited longer than
\* another sets the refill time back to its own arrival (AuthenticateOpen), and the
\* time between is earned once more.
RateHolds ==
    \A k \in Keys : key[k].state # "absent"
       => Unit * spent[k] <= Burst + Rate * (now - key[k].issued)

\* A request is accepted only while its key is live: a revocation or a rotation
\* waits for the row or is seen.
AcceptedWhileLive ==
    \A k \in Keys : spent'[k] > spent[k] => key[k].state = "live"

\* What a request is told when it is throttled: a token is there after that many
\* ticks, counted from the answer and not from the arrival that was used, unless
\* another request takes it; and none would have been a tick sooner.
RetryAfterIsEnough ==
    \A r \in Requests :
       LET b == key[req[r].key]
           wait == RetryAfter(b, req[r].arrived)
       IN  req[r].at = "locked" /\ wait > 0
             => /\ Refill(b, now + wait) >= Unit
                /\ Refill(b, req[r].arrived + wait - 1) < Unit

\* A throttled key is told a wait that is long enough and no longer than needed,
\* whatever orders of arrival the bucket was filled and emptied in
\* (consumeOpenRate); how often a key is let in at all is RateHolds.
RetryIsHonest == OpenTypeOK /\ RetryAfterIsEnough

\* A nonce is good for once and a key until it is revoked, however requests,
\* rotations, revocations and sweeps overlap (AuthenticateOpen, RotateAPIKey,
\* RevokeAPIKey).
KeysAndNoncesHold == [][NonceKept /\ AcceptedWhileLive]_openVars
=============================================================================
