---------------------------- MODULE OpenApiProofs ----------------------------
(***************************************************************************)
(* Proofs about OpenApi for any keys, nonces, requests, rates and bounds.  *)
(*                                                                         *)
(* A request that holds a key's row holds a live key, and no time that was *)
(* noted lies in the future; these are inductive with the types of the     *)
(* rows.  What a throttled request is told then follows from the           *)
(* arithmetic of the bucket, and the nonces from what a step does to them. *)
(***************************************************************************)
EXTENDS OpenApi, TLAPS

KeyRow == [state : {"absent", "live", "revoked"}, tokens : 0..Burst, last : 0..MaxTime,
           from : Keys \cup {NoKey}, issued : 0..MaxTime]
ReqRow == [at : {"idle", "arrived", "began", "locked"}, key : Keys \cup {NoKey},
           arrived : 0..MaxTime, began : 0..MaxTime]

\* The variables are functions of their rows.
Rows ==
    /\ now \in 0..MaxTime /\ tenantActive \in BOOLEAN
    /\ key \in [Keys -> KeyRow]
    /\ req \in [Requests -> ReqRow]
    /\ nonces \subseteq [key : Keys, nonce : Nonces, until : 0..(MaxTime + Keep)]
    /\ spent \in [Keys -> Nat]

\* No time that was noted lies in the future.
NoFuture ==
    /\ \A k \in Keys : key[k].last <= now
    /\ \A r \in Requests : req[r].arrived <= now /\ req[r].began <= now

\* The row of a key is locked for a request only while the key is live.
LockedLive ==
    \A r \in Requests : req[r].at = "locked" => req[r].key \in Keys /\ key[req[r].key].state = "live"

IndInv == Rows /\ NoFuture /\ LockedLive

-----------------------------------------------------------------------------
\* Arithmetic of the bucket.

\* A quotient rounded down, for any positive divisor.
LEMMA Division ==
    ASSUME NEW a \in Nat, NEW b \in Nat \ {0}
    PROVE  (a \div b) \in Nat /\ b * (a \div b) <= a /\ a < b * (a \div b) + b
  OBVIOUS

\* Products grow with a factor.
LEMMA Times ==
    ASSUME NEW a \in Nat, NEW x \in Int, NEW y \in Int
    PROVE  /\ a * x \in Int /\ a * (x + y) = a * x + a * y
           /\ x \in Nat => a * x \in Nat
           /\ x <= y => a * x <= a * y
  OBVIOUS
\* What a bucket holds at a time: no more than it held and earned, nor than the burst.
LEMMA RefillBounds ==
    ASSUME NEW b \in KeyRow, NEW t \in Nat
    PROVE  /\ Refill(b, t) \in 0..Burst
           /\ t > b.last => Refill(b, t) <= b.tokens + Rate * (t - b.last)
           /\ t <= b.last => Refill(b, t) <= b.tokens
           /\ t >= b.last => Refill(b, t) =
                 IF b.tokens + Rate * (t - b.last) < Burst THEN b.tokens + Rate * (t - b.last) ELSE Burst
<1>1. b.tokens \in Nat /\ b.tokens <= Burst /\ b.last \in Nat /\ Burst \in Nat /\ Rate \in Nat
  BY OpenApiAssumption DEF KeyRow
<1>2. PICK d : d = IF t > b.last THEN t - b.last ELSE 0
  OBVIOUS
<1>3. d \in Nat /\ (t >= b.last => d = t - b.last) /\ (t <= b.last => d = 0)
  BY <1>1, <1>2
<1>4. Rate * d \in Nat /\ (d = 0 => Rate * d = 0)
  BY <1>1, <1>3, Times
<1>5. Refill(b, t) = IF b.tokens + Rate * d < Burst THEN b.tokens + Rate * d ELSE Burst
  BY <1>2 DEF Refill
<1>6. PICK e : e = Rate * d
  OBVIOUS
<1>7. e \in Nat /\ (t <= b.last => e = 0) /\ (t >= b.last => e = Rate * (t - b.last))
  BY <1>3, <1>4, <1>6
<1>8. Refill(b, t) = IF b.tokens + e < Burst THEN b.tokens + e ELSE Burst
  BY <1>5, <1>6
<1>9. PICK f : f = Refill(b, t)
  OBVIOUS
<1>10. f \in 0..Burst /\ f <= b.tokens + e
  BY <1>1, <1>7, <1>8, <1>9
<1> QED BY <1>1, <1>7, <1>8, <1>9, <1>10

\* RetryAfter: zero exactly when there is a token, and otherwise the first time at
\* which there will be one.
LEMMA RetryFirst ==
    ASSUME NEW b \in KeyRow, NEW t \in Nat
    PROVE  /\ RetryAfter(b, t) \in Nat
           /\ RetryAfter(b, t) = 0 => Refill(b, t) >= Unit
           /\ b.last <= t /\ RetryAfter(b, t) > 0 =>
                 /\ Refill(b, t + RetryAfter(b, t)) >= Unit
                 /\ Refill(b, t + RetryAfter(b, t) - 1) < Unit
<1>1. /\ b.tokens \in Nat /\ b.last \in Nat /\ Burst \in Nat
      /\ Rate \in Nat \ {0} /\ Unit \in Nat /\ Burst >= Unit
  BY OpenApiAssumption DEF KeyRow
<1>2. PICK R : R = Refill(b, t)
  OBVIOUS
<1>3. R \in 0..Burst
  BY <1>2, RefillBounds
<1>4. CASE R >= Unit
  BY <1>2, <1>4 DEF RetryAfter
<1>5. CASE R < Unit
  <2>1. PICK a : a = Unit - R + Rate - 1
    OBVIOUS
  <2>2. a \in Nat /\ a >= Rate /\ Unit - R \in Nat
    BY <1>1, <1>3, <1>5, <2>1
  <2>3. PICK w : w = a \div Rate
    OBVIOUS
  <2>4. w \in Nat /\ Rate * w <= a /\ a < Rate * w + Rate
    BY <1>1, <2>2, <2>3, Division
  <2>5. RetryAfter(b, t) = w
    BY <1>1, <1>2, <1>3, <1>5, <2>1, <2>3 DEF RetryAfter
  <2>6. w # 0
    BY <1>1, <2>2, <2>4
  <2>7. ASSUME b.last <= t
        PROVE  Refill(b, t + w) >= Unit /\ Refill(b, t + w - 1) < Unit
    <3>1. PICK e : e = Rate * (t - b.last)
      OBVIOUS
    <3>2. e \in Nat /\ R = b.tokens + e
      BY <1>1, <1>2, <1>5, <2>7, <3>1, RefillBounds, Times
    <3>4. /\ t + w \in Nat /\ t + w >= b.last /\ t + w - 1 \in Nat /\ t + w - 1 >= b.last
      BY <1>1, <2>4, <2>6, <2>7
    <3>5. PICK x : x = Rate * w
      OBVIOUS
    <3>6. x \in Nat /\ x <= a /\ a < x + Rate
      BY <1>1, <2>4, <3>5, Times
    <3>7. Refill(b, t + w) = IF b.tokens + (e + x) < Burst THEN b.tokens + (e + x) ELSE Burst
      <4>1. PICK m : m = t + w
        OBVIOUS
      <4>2. m \in Nat /\ m >= b.last /\ Rate * (m - b.last) = e + x
        <5>1. m \in Nat /\ m >= b.last
          BY <3>4, <4>1
        <5>2. Rate * (m - b.last) = e + x
          <6>1. m - b.last = (t - b.last) + w /\ t - b.last \in Int
            BY <1>1, <2>4, <4>1
          <6> QED BY <1>1, <2>4, <3>1, <3>5, <6>1, Times
        <5> QED BY <5>1, <5>2
      <4> QED BY <4>1, <4>2, RefillBounds
    <3>8. Refill(b, t + w - 1) = IF b.tokens + (e + x - Rate) < Burst THEN b.tokens + (e + x - Rate) ELSE Burst
      <4>1. PICK m : m = t + w - 1
        OBVIOUS
      <4>2. m \in Nat /\ m >= b.last /\ Rate * (m - b.last) = e + x - Rate
        <5>1. m \in Nat /\ m >= b.last
          BY <3>4, <4>1
        <5>2. Rate * (m - b.last) = e + x - Rate
          <6>1. m - b.last = (t - b.last) + (w - 1) /\ t - b.last \in Int
            BY <1>1, <2>4, <4>1
          <6>2. Rate * (w - 1) = x - Rate
            BY <1>1, <2>4, <3>5, Times
          <6>3. Rate * (m - b.last) = e + Rate * (w - 1)
            <7>1. PICK v, y : v = w - 1 /\ y = t - b.last
              OBVIOUS
            <7>2. v \in Int /\ y \in Int /\ m - b.last = y + v /\ e = Rate * y
              BY <1>1, <2>4, <3>1, <6>1, <7>1
            <7>3. Rate * (y + v) = Rate * y + Rate * v
              BY <1>1, <7>2, Times
            <7> QED BY <7>1, <7>2, <7>3
          <6> QED BY <1>1, <3>2, <3>6, <6>2, <6>3
        <5> QED BY <5>1, <5>2
      <4> QED BY <4>1, <4>2, RefillBounds
    <3> QED BY <1>1, <1>3, <1>5, <2>1, <3>2, <3>6, <3>7, <3>8
  <2> QED BY <2>4, <2>5, <2>6, <2>7
<1> QED BY <1>1, <1>3, <1>4, <1>5

\* consumeOpenRate leaves a row of its type.
LEMMA TakenRow ==
    ASSUME NEW b \in KeyRow, NEW t \in 0..MaxTime, Refill(b, t) >= Unit
    PROVE  /\ Taken(b, t) \in KeyRow /\ Taken(b, t).state = b.state /\ Taken(b, t).last = t
<1>1. Unit \in Nat /\ Burst \in Nat /\ t \in Nat
  BY OpenApiAssumption
<1>2. PICK R : R = Refill(b, t)
  OBVIOUS
<1>3. R \in 0..Burst /\ R >= Unit
  BY <1>1, <1>2, RefillBounds
<1>4. R - Unit \in 0..Burst
  BY <1>1, <1>3
<1>5. Taken(b, t) = [b EXCEPT !.tokens = R - Unit, !.last = t]
  BY <1>2 DEF Taken
<1> QED BY <1>4, <1>5 DEF KeyRow

-----------------------------------------------------------------------------
\* The inductive invariant.

\* Nothing is issued, reserved or under way at first.
LEMMA InitInd == OpenInit => IndInv
<1> SUFFICES ASSUME OpenInit PROVE IndInv
  OBVIOUS
<1>0. 0 \in 0..MaxTime /\ 0 \in 0..Burst /\ 0 <= 0
  BY OpenApiAssumption
<1>1. Absent \in KeyRow /\ Idle \in ReqRow
  BY <1>0 DEF Absent, Idle, KeyRow, ReqRow
<1>2. Rows
  BY <1>0, <1>1 DEF OpenInit, Rows
<1>3. NoFuture /\ LockedLive
  BY <1>0 DEF OpenInit, NoFuture, LockedLive, Absent, Idle
<1> QED BY <1>2, <1>3 DEF IndInv

\* A key is issued with a full bucket.
LEMMA NewRow ==
    ASSUME NEW f \in Keys \cup {NoKey}, Rows
    PROVE  NewKey(f) \in KeyRow /\ NewKey(f).last = now /\ NewKey(f).state = "live"
<1>1. Burst \in 0..Burst /\ now \in 0..MaxTime
  BY OpenApiAssumption DEF Rows
<1> QED BY <1>1 DEF NewKey, KeyRow

\* A step that changes keys: one that dies is not locked by a request.
LEMMA KeyStep ==
    ASSUME IndInv, Rows', now' = now,
           \A r \in Requests : req'[r] = req[r] \/ req'[r] = Idle,
           \A k \in Keys :
              /\ key'[k].last <= now
              /\ key[k].state = "live" /\ key'[k].state # "live" => ~Locked(k)
    PROVE  IndInv'
<1>1. NoFuture'
  <2>1. Idle.arrived = 0 /\ Idle.began = 0 /\ 0 <= now
    BY DEF Idle, IndInv, Rows
  <2> QED BY <2>1 DEF NoFuture, IndInv
<1>3. LockedLive'
  <2> SUFFICES ASSUME NEW r \in Requests, req'[r].at = "locked"
               PROVE  req'[r].key \in Keys /\ key'[req'[r].key].state = "live"
    BY DEF LockedLive
  <2>1. req'[r] = req[r]
    BY DEF Idle
  <2>2. req[r].key \in Keys /\ key[req[r].key].state = "live"
    BY <2>1 DEF IndInv, LockedLive
  <2>3. Locked(req[r].key)
    BY <2>1 DEF Locked
  <2> QED BY <2>1, <2>2, <2>3
<1> QED BY <1>1, <1>3 DEF IndInv

\* The steps of keys, requests and the clock.
LEMMA NextInd == IndInv /\ [OpenNext]_openVars => IndInv'
<1> SUFFICES ASSUME IndInv, [OpenNext]_openVars PROVE IndInv'
  OBVIOUS
<1>0. /\ Rows /\ NoFuture /\ now \in Nat /\ MaxTime \in Nat /\ Keep \in Nat
      /\ \A k \in Keys : key[k] \in KeyRow /\ spent[k] \in Nat
  BY OpenApiAssumption DEF IndInv, Rows
<1>a. Idle \in ReqRow
  BY OpenApiAssumption DEF Idle, ReqRow
<1>1. CASE OpenTick
  <2>1. now' \in 0..MaxTime /\ now' = now + 1 /\ UNCHANGED <<tenantActive, key, nonces, req, spent>>
    BY <1>0, <1>1 DEF OpenTick
  <2>2. Rows' /\ LockedLive'
    BY <2>1 DEF IndInv, Rows, LockedLive
  <2>3. NoFuture'
    <3>1. \A k \in Keys : key[k].last \in Nat /\ key[k].last <= now
      BY <1>0 DEF KeyRow, NoFuture
    <3>2. \A r \in Requests : /\ req[r].arrived \in Nat /\ req[r].began \in Nat
                              /\ req[r].arrived <= now /\ req[r].began <= now
      BY <1>0 DEF ReqRow, Rows, NoFuture
    <3> QED BY <1>0, <2>1, <3>1, <3>2 DEF NoFuture
  <2> QED BY <2>2, <2>3 DEF IndInv
<1>2. CASE SwitchTenant
  <2>1. tenantActive' \in BOOLEAN /\ UNCHANGED <<now, key, nonces, req, spent>>
    BY <1>2 DEF SwitchTenant
  <2> QED BY <2>1 DEF IndInv, Rows, NoFuture, LockedLive
<1>3. ASSUME NEW k \in Keys, IssueAPIKey(k) PROVE IndInv'
  <2>1. /\ key[k] = Absent /\ key' = [key EXCEPT ![k] = NewKey(NoKey)]
        /\ UNCHANGED <<now, tenantActive, nonces, req, spent>>
    BY <1>3 DEF IssueAPIKey
  <2>3. \A j \in Keys : key'[j] = IF j = k THEN NewKey(NoKey) ELSE key[j]
    BY <2>1 DEF IndInv, Rows
  <2>4. /\ NewKey(NoKey) \in KeyRow /\ NewKey(NoKey).last = now /\ NewKey(NoKey).state = "live"
    BY <1>0, NewRow
  <2>5. Rows'
    BY <2>1, <2>4 DEF IndInv, Rows
  <2>6. ASSUME NEW j \in Keys
        PROVE  /\ key'[j].last <= now
               /\ key[j].state = "live" /\ key'[j].state # "live" => ~Locked(j)
    <3>1. CASE j = k
      <4>1. key[k].state = "absent" /\ now <= now
        BY <1>0, <2>1 DEF Absent
      <4> QED BY <2>1, <2>3, <2>4, <3>1, <4>1
    <3>2. CASE j # k
      BY <1>0, <2>1, <2>3, <3>2 DEF NoFuture
    <3> QED BY <3>1, <3>2
  <2> QED BY <2>1, <2>5, <2>6, KeyStep
<1>4. ASSUME NEW k \in Keys, NEW new \in Keys, RotateAPIKey(k, new) PROVE IndInv'
  <2>1. /\ key[new] = Absent /\ key[k].state = "live" /\ ~Locked(k)
        /\ key' = [key EXCEPT ![k].state = "revoked", ![new] = NewKey(k)]
        /\ UNCHANGED <<now, tenantActive, nonces, req, spent>>
    BY <1>4 DEF RotateAPIKey
  <2>2. k # new
    BY <2>1 DEF Absent
  <2>0. PICK old : old = [key[k] EXCEPT !.state = "revoked"]
    OBVIOUS
  <2>a. /\ old \in KeyRow /\ old.state = "revoked" /\ old.last = key[k].last
        /\ old.tokens = key[k].tokens /\ old.issued = key[k].issued
    BY <1>0, <2>0 DEF KeyRow
  <2>3. \A j \in Keys : key'[j] = IF j = new THEN NewKey(k) ELSE IF j = k THEN old ELSE key[j]
    BY <2>0, <2>1, <2>2 DEF IndInv, Rows
  <2>4. /\ NewKey(k) \in KeyRow /\ NewKey(k).last = now /\ NewKey(k).state = "live"
    BY <1>0, NewRow
  <2>5. Rows'
    <3>1. key' \in [Keys -> KeyRow]
      <4>1. DOMAIN key' = Keys /\ key' = [j \in Keys |-> key'[j]]
        BY <2>1 DEF IndInv, Rows
      <4> QED BY <1>0, <2>3, <2>4, <2>a, <4>1
    <3> QED BY <2>1, <3>1 DEF IndInv, Rows
  <2>6. ASSUME NEW j \in Keys
        PROVE  /\ key'[j].last <= now
               /\ key[j].state = "live" /\ key'[j].state # "live" => ~Locked(j)
    <3>1. CASE j = new
      <4>1. now <= now
        BY <1>0
      <4> QED BY <2>1, <2>2, <2>3, <2>4, <3>1, <4>1
    <3>2. CASE j = k
      <4>1. key'[j] = old /\ key[k].last <= now
        BY <1>0, <2>2, <2>3, <3>2 DEF NoFuture
      <4> QED BY <2>1, <2>a, <3>2, <4>1
    <3>3. CASE j # k /\ j # new
      BY <1>0, <2>1, <2>3, <3>3 DEF NoFuture
    <3> QED BY <3>1, <3>2, <3>3
  <2> QED BY <2>1, <2>5, <2>6, KeyStep
<1>5. ASSUME NEW k \in Keys, RevokeAPIKey(k) PROVE IndInv'
  <2>1. /\ key[k].state # "absent" /\ ~Locked(k)
        /\ key' = [key EXCEPT ![k].state = "revoked"]
        /\ UNCHANGED <<now, tenantActive, nonces, req, spent>>
    BY <1>5 DEF RevokeAPIKey
  <2>0. PICK old : old = [key[k] EXCEPT !.state = "revoked"]
    OBVIOUS
  <2>a. /\ old \in KeyRow /\ old.state = "revoked" /\ old.last = key[k].last
        /\ old.tokens = key[k].tokens /\ old.issued = key[k].issued
    BY <1>0, <2>0 DEF KeyRow
  <2>2. key' = [key EXCEPT ![k] = old]
    BY <2>0, <2>1
  <2>3. \A j \in Keys : key'[j] = IF j = k THEN old ELSE key[j]
    BY <2>2 DEF IndInv, Rows
  <2>5. Rows'
    BY <2>1, <2>2, <2>a DEF IndInv, Rows
  <2>6. ASSUME NEW j \in Keys
        PROVE  /\ key'[j].last <= now
               /\ key[j].state = "live" /\ key'[j].state # "live" => ~Locked(j)
    <3>2. CASE j = k
      <4>1. key'[j] = old /\ key[k].last <= now
        BY <1>0, <2>3, <3>2 DEF NoFuture
      <4> QED BY <2>1, <2>a, <3>2, <4>1
    <3>3. CASE j # k
      BY <1>0, <2>1, <2>3, <3>3 DEF NoFuture
    <3> QED BY <3>2, <3>3
  <2> QED BY <2>1, <2>5, <2>6, KeyStep
<1>6. ASSUME NEW r \in Requests, NEW q \in ReqRow, req' = [req EXCEPT ![r] = q],
             q.arrived <= now, q.began <= now,
             q.at = "locked" => q.key \in Keys /\ key[q.key].state = "live",
             UNCHANGED <<now, tenantActive, key, nonces, spent>>
      PROVE  IndInv'
  <2>1. \A s \in Requests : req'[s] = IF s = r THEN q ELSE req[s]
    BY <1>6 DEF IndInv, Rows
  <2>2. Rows'
    BY <1>6 DEF IndInv, Rows
  <2>3. NoFuture' /\ LockedLive'
    BY <1>6, <2>1 DEF IndInv, NoFuture, LockedLive
  <2> QED BY <2>2, <2>3 DEF IndInv
<1>7. ASSUME NEW r \in Requests,
             \/ \E stamp \in 0..MaxTime : Arrive(r, stamp)
             \/ Refuse(r) \/ Begin(r) \/ Rollback(r)
             \/ \E k \in Keys : LoadKey(r, k)
      PROVE  IndInv'
  <2>0. req[r] \in ReqRow /\ req[r].arrived <= now /\ req[r].began <= now /\ now \in 0..MaxTime
    BY <1>0 DEF Rows, NoFuture
  <2>a. Idle.at = "idle" /\ Idle.arrived <= now /\ Idle.began <= now
    BY <1>0 DEF Idle
  <2>1. CASE \E stamp \in 0..MaxTime : Arrive(r, stamp)
    <3>1. PICK q : q = [at |-> "arrived", key |-> NoKey, arrived |-> now, began |-> now]
      OBVIOUS
    <3>2. q \in ReqRow /\ q.at = "arrived" /\ q.arrived <= now /\ q.began <= now
      BY <1>0, <2>0, <3>1 DEF ReqRow
    <3> QED BY <1>6, <2>1, <3>1, <3>2 DEF Arrive
  <2>2. CASE Refuse(r) \/ Rollback(r)
    BY <1>6, <1>a, <2>2, <2>a DEF Refuse, Rollback, End
  <2>3. CASE Begin(r)
    <3>1. PICK q : q = [req[r] EXCEPT !.at = "began", !.began = now]
      OBVIOUS
    <3>2. q \in ReqRow /\ q.at = "began" /\ q.arrived = req[r].arrived /\ q.began = now
      BY <2>0, <3>1 DEF ReqRow
    <3>3. q.arrived <= now /\ q.began <= now
      BY <1>0, <2>0, <3>2
    <3> QED BY <1>6, <2>3, <3>1, <3>2, <3>3 DEF Begin
  <2>4. CASE \E k \in Keys : LoadKey(r, k)
    <3>1. PICK k \in Keys : LoadKey(r, k)
      BY <2>4
    <3>2. CASE key[k].state = "live" /\ tenantActive
      <4>1. PICK q : q = [req[r] EXCEPT !.at = "locked", !.key = k]
        OBVIOUS
      <4>2. q \in ReqRow /\ q.at = "locked" /\ q.key = k /\ q.arrived <= now /\ q.began <= now
        BY <2>0, <4>1 DEF ReqRow
      <4> QED BY <1>6, <3>1, <3>2, <4>1, <4>2 DEF LoadKey
    <3>3. CASE ~(key[k].state = "live" /\ tenantActive)
      BY <1>6, <1>a, <2>a, <3>1, <3>3 DEF LoadKey, End
    <3> QED BY <3>2, <3>3
  <2> QED BY <1>7, <2>1, <2>2, <2>3, <2>4
<1>8. ASSUME NEW r \in Requests, NEW n \in Nonces, AuthenticateOpen(r, n) PROVE IndInv'
  <2>0. PICK k, b, t : k = req[r].key /\ b = key[k] /\ t = req[r].arrived
    OBVIOUS
  <2>1. /\ k \in Keys /\ b.state = "live" /\ req' = [req EXCEPT ![r] = Idle]
        /\ UNCHANGED <<now, tenantActive>>
    BY <1>8, <2>0 DEF AuthenticateOpen, End, IndInv, LockedLive
  <2>2. \A s \in Requests : req'[s] = req[s] \/ req'[s] = Idle
    BY <2>1 DEF IndInv, Rows
  <2>3. b \in KeyRow /\ t \in 0..MaxTime /\ t <= now /\ req[r].began \in 0..MaxTime
    BY <1>0, <2>0, <2>1 DEF Rows, ReqRow, NoFuture
  <2>4. req' \in [Requests -> ReqRow]
    BY <1>a, <2>1 DEF IndInv, Rows
  <2>5. nonces' \subseteq [key : Keys, nonce : Nonces, until : 0..(MaxTime + Keep)]
    <3>1. PICK x : x = [key |-> k, nonce |-> n, until |-> req[r].began + Keep]
      OBVIOUS
    <3>2. x \in [key : Keys, nonce : Nonces, until : 0..(MaxTime + Keep)]
      <4>1. req[r].began + Keep \in 0..(MaxTime + Keep)
        BY <1>0, <2>3
      <4> QED BY <2>1, <3>1, <4>1
    <3>3. nonces' = nonces \/ nonces' = Swept(req[r].began) \cup {x}
      BY <1>8, <2>0, <3>1 DEF AuthenticateOpen
    <3>4. Swept(req[r].began) \subseteq nonces
      BY DEF Swept
    <3> QED BY <3>2, <3>3, <3>4 DEF IndInv, Rows
  <2>6. CASE UNCHANGED <<key, spent>>
    <3>1. Rows'
      BY <2>1, <2>4, <2>5, <2>6 DEF IndInv, Rows
    <3>2. \A j \in Keys :
              /\ key'[j].last <= now
              /\ key[j].state = "live" /\ key'[j].state # "live" => ~Locked(j)
      BY <1>0, <2>6 DEF NoFuture
    <3> QED BY <2>1, <2>2, <3>1, <3>2, KeyStep
  <2>7. CASE /\ RetryAfter(b, t) = 0
             /\ key' = [key EXCEPT ![k] = Taken(b, t)]
             /\ spent' = [spent EXCEPT ![k] = @ + 1]
    <3>1. t \in Nat /\ Refill(b, t) >= Unit
      BY <1>0, <2>3, <2>7, RetryFirst
    <3>2. PICK c : c = Taken(b, t)
      OBVIOUS
    <3>3. c \in KeyRow /\ c.state = "live" /\ c.last = t
      BY <2>1, <2>3, <3>1, <3>2, TakenRow
    <3>6. \A j \in Keys : key'[j] = IF j = k THEN c ELSE key[j]
      BY <1>0, <2>1, <2>7, <3>2 DEF Rows
    <3>7. Rows'
      <4>1. spent' \in [Keys -> Nat]
        BY <1>0, <2>1, <2>7 DEF Rows
      <4>2. key' \in [Keys -> KeyRow]
        BY <2>7, <3>2, <3>3 DEF IndInv, Rows
      <4> QED BY <2>1, <2>4, <2>5, <4>1, <4>2 DEF IndInv, Rows
    <3>8. ASSUME NEW j \in Keys
          PROVE  /\ key'[j].last <= now
                 /\ key[j].state = "live" /\ key'[j].state # "live" => ~Locked(j)
      <4>1. CASE j = k
        BY <2>3, <3>3, <3>6, <4>1
      <4>2. CASE j # k
        BY <1>0, <3>6, <4>2 DEF NoFuture
      <4> QED BY <4>1, <4>2
    <3> QED BY <2>1, <2>2, <3>7, <3>8, KeyStep
  <2> QED BY <1>8, <2>0, <2>6, <2>7 DEF AuthenticateOpen
<1>9. CASE UNCHANGED openVars
  BY <1>9 DEF openVars, IndInv, Rows, NoFuture, LockedLive
<1> QED BY <1>1, <1>2, <1>3, <1>4, <1>5, <1>7, <1>8, <1>9 DEF OpenNext

\* No time in the future and no lock on a dead key, in every reachable state.
LEMMA Inductive == OpenSpec => []IndInv
<1> QED BY InitInd, NextInd, PTL DEF OpenSpec
\* A nonce of a key is reserved once.
NonceOnce == \A x, y \in nonces : x.key = y.key /\ x.nonce = y.nonce => x = y

\* What a step does to the nonces: nothing, or a sweep and one nonce not in it.
LEMMA NonceStep ==
    ASSUME IndInv, [OpenNext]_openVars
    PROVE  \/ nonces' = nonces
           \/ \E t, x : /\ t \in Nat /\ nonces' = Swept(t) \cup {x} /\ t <= now
                          /\ \A y \in Swept(t) : y.key # x.key \/ y.nonce # x.nonce
<1>1. ASSUME NEW r \in Requests, NEW n \in Nonces, AuthenticateOpen(r, n), nonces' # nonces
      PROVE  \E t, x : /\ t \in Nat /\ nonces' = Swept(t) \cup {x} /\ t <= now
                       /\ \A y \in Swept(t) : y.key # x.key \/ y.nonce # x.nonce
  <2>1. PICK t, x : t = req[r].began /\ x = [key |-> req[r].key, nonce |-> n, until |-> t + Keep]
    OBVIOUS
  <2>2. t \in Nat /\ t <= now
    BY <2>1 DEF IndInv, Rows, ReqRow, NoFuture
  <2>3. /\ nonces' = Swept(t) \cup {x}
        /\ \A y \in Swept(t) : y.key # x.key \/ y.nonce # x.nonce
    BY <1>1, <2>1 DEF AuthenticateOpen
  <2> QED BY <2>2, <2>3
<1>2. CASE \E r \in Requests, n \in Nonces : AuthenticateOpen(r, n)
  BY <1>1, <1>2
<1>3. CASE OpenNext /\ ~\E r \in Requests, n \in Nonces : AuthenticateOpen(r, n)
  BY <1>3 DEF OpenNext, OpenTick, SwitchTenant, IssueAPIKey, RevokeAPIKey, RotateAPIKey, Arrive,
              Refuse, Begin, Rollback, LoadKey
<1>4. CASE UNCHANGED openVars
  BY <1>4 DEF openVars
<1> QED BY <1>2, <1>3, <1>4

\* ... and so none is ever reserved twice.
LEMMA NonceOnceAlways == OpenSpec => []NonceOnce
<1>1. OpenInit => NonceOnce
  BY DEF OpenInit, NonceOnce
<1>2. ASSUME IndInv, NonceOnce, [OpenNext]_openVars PROVE NonceOnce'
  <2>1. CASE nonces' = nonces
    BY <1>2, <2>1 DEF NonceOnce
  <2>2. CASE nonces' # nonces
    <3>1. PICK t, x : /\ t \in Nat /\ nonces' = Swept(t) \cup {x} /\ t <= now
                      /\ \A y \in Swept(t) : y.key # x.key \/ y.nonce # x.nonce
      BY <1>2, <2>2, NonceStep
    <3> QED BY <1>2, <3>1 DEF NonceOnce, Swept
  <2> QED BY <2>1, <2>2
<1> QED BY <1>1, <1>2, Inductive, PTL DEF OpenSpec

\* Only a live key is let in.
LEMMA LiveSpends ==
    ASSUME IndInv, [OpenNext]_openVars
    PROVE  \A k \in Keys : spent'[k] > spent[k] => key[k].state = "live"
<1>0. spent \in [Keys -> Nat] /\ \A k \in Keys : spent[k] \in Nat
  BY DEF IndInv, Rows
<1>1. CASE spent' = spent
  BY <1>0, <1>1
<1>2. ASSUME NEW r \in Requests, NEW n \in Nonces, AuthenticateOpen(r, n), spent' # spent
      PROVE  \A k \in Keys : spent'[k] > spent[k] => key[k].state = "live"
  <2>1. req[r].key \in Keys /\ key[req[r].key].state = "live"
    BY <1>2 DEF IndInv, LockedLive, AuthenticateOpen
  <2>2. spent' = [spent EXCEPT ![req[r].key] = @ + 1]
    BY <1>2 DEF AuthenticateOpen
  <2>3. \A k \in Keys \ {req[r].key} : spent'[k] = spent[k]
    BY <1>0, <2>2
  <2> QED BY <1>0, <2>1, <2>3
<1>3. CASE \E r \in Requests, n \in Nonces : AuthenticateOpen(r, n)
  BY <1>1, <1>2, <1>3
<1>4. CASE [OpenNext]_openVars /\ ~\E r \in Requests, n \in Nonces : AuthenticateOpen(r, n)
  <2>1. spent' = spent
    BY <1>4 DEF OpenNext, openVars, OpenTick, SwitchTenant, IssueAPIKey, RevokeAPIKey, RotateAPIKey,
                Arrive, Refuse, Begin, Rollback, LoadKey
  <2> QED BY <1>1, <2>1
<1> QED BY <1>3, <1>4

-----------------------------------------------------------------------------
\* A request older than the refill time finds the bucket as it was at that time.
LEMMA RetryLate ==
    ASSUME NEW b \in KeyRow, NEW t \in Nat, t < b.last
    PROVE  RetryAfter(b, t) = RetryAfter(b, b.last) /\ Refill(b, t) = Refill(b, b.last)
<1>1. b.last \in Nat
  BY OpenApiAssumption DEF KeyRow
<1>2. Refill(b, t) = Refill(b, b.last)
  BY <1>1 DEF Refill
<1> QED BY <1>2 DEF RetryAfter

\* A bucket never holds less later on.
LEMMA RefillGrows ==
    ASSUME NEW b \in KeyRow, NEW s \in Nat, NEW t \in Nat, s <= t
    PROVE  Refill(b, s) <= Refill(b, t)
<1>1. b.tokens \in Nat /\ b.last \in Nat /\ Burst \in Nat /\ Rate \in Nat
  BY OpenApiAssumption DEF KeyRow
<1>2. PICK d, e : /\ d = (IF s > b.last THEN s - b.last ELSE 0)
                  /\ e = (IF t > b.last THEN t - b.last ELSE 0)
  OBVIOUS
<1>3. d \in Nat /\ e \in Nat /\ d <= e
  BY <1>1, <1>2
<1>4. PICK x, y : x = Rate * d /\ y = Rate * e
  OBVIOUS
<1>5. x \in Nat /\ y \in Nat /\ x <= y
  BY <1>1, <1>3, <1>4, Times
<1>6. /\ Refill(b, s) = IF b.tokens + x < Burst THEN b.tokens + x ELSE Burst
      /\ Refill(b, t) = IF b.tokens + y < Burst THEN b.tokens + y ELSE Burst
  BY <1>2, <1>4 DEF Refill
<1> QED BY <1>1, <1>5, <1>6

\* consumeOpenRate, for any rate, burst and clock: what a throttled request is told is
\* long enough counted from the answer, however long the request had waited and
\* whoever came first, and a tick less would not have been.
THEOREM RetryIsHonestAlways == OpenSpec => []RetryIsHonest
<1>1. ASSUME IndInv PROVE RetryIsHonest
  <2>1. OpenTypeOK
    <3>1. \A r \in Requests : req[r].arrived \in 0..now /\ req[r].began \in 0..now
      BY <1>1 DEF IndInv, Rows, ReqRow, NoFuture
    <3> QED BY <1>1, <3>1 DEF IndInv, Rows, LockedLive, OpenTypeOK, KeyRow, ReqRow
  <2>2. RetryAfterIsEnough
    <3> SUFFICES ASSUME NEW r \in Requests, req[r].at = "locked",
                        RetryAfter(key[req[r].key], req[r].arrived) > 0
                 PROVE  LET b == key[req[r].key]
                            wait == RetryAfter(b, req[r].arrived)
                        IN  Refill(b, now + wait) >= Unit /\ Refill(b, req[r].arrived + wait - 1) < Unit
      BY DEF RetryAfterIsEnough
    <3>1. PICK b, t, w : b = key[req[r].key] /\ t = req[r].arrived /\ w = RetryAfter(b, t)
      OBVIOUS
    <3>2. /\ b \in KeyRow /\ t \in Nat /\ t <= now /\ now \in Nat
          /\ b.last \in Nat /\ b.last <= now
      BY <1>1, <3>1, OpenApiAssumption DEF IndInv, Rows, NoFuture, LockedLive, KeyRow, ReqRow
    <3>3. w \in Nat /\ w > 0
      BY <3>1, <3>2, RetryFirst
    <3>4. PICK m \in Nat : /\ b.last <= m /\ t <= m /\ m <= now /\ w = RetryAfter(b, m)
      <4>1. CASE t < b.last
        <5>1. w = RetryAfter(b, b.last)
          BY <3>1, <3>2, <4>1, RetryLate
        <5> QED BY <3>2, <4>1, <5>1
      <4>2. CASE b.last <= t
        BY <3>1, <3>2, <4>2
      <4> QED BY <3>2, <4>1, <4>2
    <3>5. Refill(b, m + w) >= Unit /\ Refill(b, m + w - 1) < Unit
      BY <3>2, <3>3, <3>4, RetryFirst
    <3>6. m + w \in Nat /\ m + w - 1 \in Nat /\ t + w - 1 \in Nat /\ now + w \in Nat
          /\ m + w <= now + w /\ t + w - 1 <= m + w - 1
      BY <3>2, <3>3, <3>4
    <3>7. /\ Refill(b, m + w) <= Refill(b, now + w) /\ Refill(b, t + w - 1) <= Refill(b, m + w - 1)
      BY <3>2, <3>6, RefillGrows
    <3>8. /\ Refill(b, m + w) \in Nat /\ Refill(b, m + w - 1) \in Nat /\ Refill(b, now + w) \in Nat
          /\ Refill(b, t + w - 1) \in Nat /\ Unit \in Nat
      <4>1. \A n \in Nat : Refill(b, n) \in Nat
        BY <3>2, RefillBounds, OpenApiAssumption
      <4> QED BY <3>6, <4>1, OpenApiAssumption
    <3>9. PICK u, v, x, y : u = Refill(b, m + w) /\ v = Refill(b, now + w)
                            /\ x = Refill(b, t + w - 1) /\ y = Refill(b, m + w - 1)
      OBVIOUS
    <3>10. v >= Unit /\ x < Unit
      BY <3>5, <3>7, <3>8, <3>9
    <3> QED BY <3>1, <3>9, <3>10
  <2> QED BY <2>1, <2>2 DEF RetryIsHonest
<1> QED BY <1>1, Inductive, PTL

\* AuthenticateOpen, RotateAPIKey and RevokeAPIKey, for any number of keys and requests
\* under way: a nonce is kept its time and reserved once, and only a live key is let
\* in.
THEOREM KeysAndNoncesHoldAlways == OpenSpec => KeysAndNoncesHold
<1>1. ASSUME IndInv, NonceOnce', [OpenNext]_openVars PROVE NonceKept /\ AcceptedWhileLive
  <2>1. \A x \in nonces \ nonces' : now > x.until
    <3>1. CASE nonces' = nonces
      BY <3>1
    <3>2. CASE nonces' # nonces
      <4>1. PICK t, x : t \in Nat /\ nonces' = Swept(t) \cup {x} /\ t <= now
        BY <1>1, <3>2, NonceStep
      <4>2. \A y \in nonces : y.until \in Nat
        BY <1>1, OpenApiAssumption DEF IndInv, Rows
      <4>3. \A y \in nonces \ nonces' : ~(y.until >= t) /\ now \in Nat
        BY <1>1, <4>1 DEF Swept, IndInv, Rows
      <4> QED BY <4>1, <4>2, <4>3
    <3> QED BY <3>1, <3>2
  <2>2. NonceKept
    BY <1>1, <2>1 DEF NonceKept, NonceOnce
  <2>3. AcceptedWhileLive
    BY <1>1, LiveSpends DEF AcceptedWhileLive
  <2> QED BY <2>2, <2>3
<1>2. IndInv /\ NonceOnce' /\ [OpenNext]_openVars => NonceKept /\ AcceptedWhileLive
  BY <1>1
<1> QED BY <1>2, Inductive, NonceOnceAlways, PTL DEF OpenSpec, KeysAndNoncesHold
=============================================================================
