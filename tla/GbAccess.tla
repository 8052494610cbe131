------------------------------ MODULE GbAccess ------------------------------
(***************************************************************************)
(* Registration of GB/T 28181 devices: challenges with nonces that are     *)
(* used once, REGISTER, keepalive messages, and the rows of the devices    *)
(* (internal/gb/nonce.go, digest.go, contracts.go, internal/gbpg).         *)
(*                                                                         *)
(* A request is a process: it reads the device, consumes a nonce, takes    *)
(* the time and applies what it decided later, in a transaction of its     *)
(* own.  Digests are one verdict; realm and URI are part of the device.    *)
(***************************************************************************)
EXTENDS Integers, FiniteSets, Sequences

CONSTANTS
    Devices, Peers, Nonces, Txs, Requests, None,
    PeersOf,       \* the peers each device may come from
    NonceLife, TxLife,
    TTLs,          \* accepted values of Expires, without 0
    MissLimit,     \* ticks without keepalive after which a device is offline
    MaxNonces,     \* MaxMemoryNonces
    MaxTxs,        \* results remembered
    MaxTime        \* bound on the clock

ASSUME AccessAssumption ==
    /\ None \notin Devices \cup Peers \cup Nonces
    /\ NonceLife \in Nat /\ TxLife \in Nat /\ TTLs \subseteq Nat
    /\ MaxNonces \in Nat /\ MaxTxs \in Nat /\ MaxTime \in Nat

VARIABLES
    now,
    entries,   \* MemoryNonceStore.entries: nonce records
    used,      \* MemoryNonceStore.used: nonces with their expiry
    cache,     \* results of REGISTER transactions
    row,       \* video_gb_devices
    call,      \* the requests under way
    grants     \* for the properties: what each nonce was issued for and what it did

accessVars == <<now, entries, used, cache, row, call, grants>>

Offline == [peer |-> None, until |-> 0, seen |-> 0]
Idle == [at |-> "idle", dev |-> None, peer |-> None, tx |-> None, nonce |-> None,
         time |-> 0, ttl |-> 0]
End(r) == call' = [call EXCEPT ![r] = Idle]

\* LookupDevice and AllowsPeer.
Admitted(d, p) == row[d].enabled /\ p \in PeersOf[d]

Registered(d) == row[d].reg # Offline
-----------------------------------------------------------------------------
\* The nonce store.

Stored == {e.nonce : e \in entries} \cup {u.nonce : u \in used}

\* The nonce that expires first makes room, used or not.
Evictable(n) ==
    \E e \in entries \cup used : e.nonce = n /\ \A f \in entries \cup used : e.until <= f.until

Issue(x) ==
    IF Cardinality(Stored) < MaxNonces
    THEN entries' = entries \cup {x} /\ UNCHANGED used
    ELSE \E n \in Stored :
            /\ Evictable(n)
            /\ entries' = {e \in entries : e.nonce # n} \cup {x}
            /\ used' = {u \in used : u.nonce # n}

\* Faulty: a consumed nonce stays issued.
ConsumedStays(e, live, dead) == entries' = live /\ used' = dead

\* A nonce moves to used with its expiry.
Consumed(e, live, dead) ==
    entries' = live \ {e} /\ used' = dead \cup {[nonce |-> e.nonce, until |-> e.until]}
-----------------------------------------------------------------------------
\* REGISTER.

\* Challenge: the device exists, is enabled and may come from this peer.
Challenge(d, p, n) ==
    /\ Admitted(d, p)
    /\ grants[n].dev = None
    /\ Issue([nonce |-> n, dev |-> d, peer |-> p, until |-> now + NonceLife])
    /\ grants' = [grants EXCEPT ![n] = [@ EXCEPT !.dev = d, !.peer = p]]
    /\ UNCHANGED <<now, cache, row, call>>

TxLive == {c \in cache : now < c.until}

\* HandleRegister up to the device: a remembered transaction is answered at once.
HandleRegister(r, d, p, x) ==
    /\ call[r] = Idle
    /\ cache' = IF x = None THEN cache ELSE TxLive
    /\ IF \E c \in TxLive : c.tx = x /\ c.dev = d /\ c.peer = p
       THEN UNCHANGED call
       ELSE /\ Admitted(d, p)
            /\ call' = [call EXCEPT ![r] = [Idle EXCEPT !.at = "looked", !.dev = d, !.peer = p, !.tx = x]]
    /\ UNCHANGED <<now, entries, used, row, grants>>

Matches(e, r) == e.dev = call[r].dev /\ e.peer = call[r].peer

\* Consume: expired nonces are swept, the nonce is spent whatever the digest; then
\* the record, the digest and the expiry are checked and the time is taken.
Consume(r, n, digest, ttl) ==
    LET live == {e \in entries : now < e.until}
        dead == {u \in used : now < u.until}
    IN  /\ call[r].at = "looked"
        /\ IF \E e \in live : e.nonce = n /\ \A u \in dead : u.nonce # n
           THEN LET e == CHOOSE e \in live : e.nonce = n
                IN  /\ Consumed(e, live, dead)
                    /\ IF Matches(e, r) /\ digest
                       THEN call' = [call EXCEPT ![r] = [@ EXCEPT !.at = "accepted",
                                            !.nonce = n, !.time = now, !.ttl = ttl]]
                       ELSE End(r)
           ELSE entries' = live /\ used' = dead /\ End(r)
        /\ UNCHANGED <<now, cache, row, grants>>

\* LookupPeer: the live registration of a peer.
LookupPeer(p) == {d \in Devices : row[d].enabled /\ row[d].reg.peer = p /\ row[d].reg.until > now}

\* No other device is at the peer: LookupPeer for live registrations, the unique
\* index for those that ran out as well.
PeerFree(d, p) == LookupPeer(p) \subseteq {d} /\ \A e \in Devices \ {d} : row[e].reg.peer # p

Remember(r) ==
    IF call[r].tx = None THEN cache' = cache
    ELSE \E c \in SUBSET cache :
            /\ IF Cardinality(cache) >= MaxTxs THEN Cardinality(cache \ c) = 1 ELSE c = cache
            /\ cache' = {x \in c : x.tx # call[r].tx \/ x.dev # call[r].dev \/ x.peer # call[r].peer}
                  \cup {[tx |-> call[r].tx, dev |-> call[r].dev, peer |-> call[r].peer,
                         until |-> now + TxLife]}

\* applyRegistration under its mutex and ApplyRegistration in the database: the
\* device is looked at again; Expires 0 ends only the registration of this peer.
ApplyRegistration(r) ==
    LET d == call[r].dev
        p == call[r].peer
        n == call[r].nonce
    IN  /\ call[r].at = "accepted"
        /\ \/ /\ Admitted(d, p)
              /\ PeerFree(d, p)
              /\ call[r].ttl = 0 => row[d].reg.peer = p
              /\ row' = [row EXCEPT ![d].reg =
                    IF call[r].ttl = 0 THEN Offline
                    ELSE [peer |-> p, until |-> call[r].time + call[r].ttl, seen |-> call[r].time]]
              /\ grants' = [grants EXCEPT ![n].done = Append(@, <<d, p>>)]
              /\ Remember(r)
           \/ UNCHANGED <<row, grants, cache>>    \* refused, or the database failed
        /\ End(r)
        /\ UNCHANGED <<now, entries, used>>
-----------------------------------------------------------------------------
\* MESSAGE.

StatusAt(g, t) == g # Offline /\ t < g.until /\ t - g.seen < MissLimit

\* HandleMessage up to the status.
HandleMessage(r, d, p) ==
    /\ call[r] = Idle
    /\ Admitted(d, p)
    /\ d \in LookupPeer(p) /\ StatusAt(row[d].reg, now)
    /\ call' = [call EXCEPT ![r] = [Idle EXCEPT !.at = "alive", !.dev = d, !.peer = p, !.time = now]]
    /\ UNCHANGED <<now, entries, used, cache, row, grants>>

\* Faulty: the row is found by the device alone.
AtAnyPeer(d, p) == Registered(d)

\* The WHERE of both updates.
AtPeer(d, p) == row[d].enabled /\ row[d].reg.peer = p /\ row[d].reg.until > now

\* MarkKeepalive: OK moves the time of the keepalive, anything else ends the
\* registration.
MarkKeepalive(r, ok) ==
    LET d == call[r].dev
    IN  /\ call[r].at = "alive"
        /\ row' = IF ~AtPeer(d, call[r].peer) THEN row
                  ELSE IF ok THEN [row EXCEPT ![d].reg.seen = call[r].time]
                  ELSE [row EXCEPT ![d].reg = Offline]
        /\ End(r)
        /\ UNCHANGED <<now, entries, used, cache, grants>>

\* The row of a device is edited.
EnableDevice(d) ==
    /\ row' = [row EXCEPT ![d].enabled = ~@]
    /\ UNCHANGED <<now, entries, used, cache, call, grants>>

Tick ==
    /\ now < MaxTime
    /\ now' = now + 1
    /\ UNCHANGED <<entries, used, cache, row, call, grants>>

AccessInit ==
    /\ now = 0
    /\ entries = {} /\ used = {} /\ cache = {}
    /\ row = [d \in Devices |-> [enabled |-> TRUE, reg |-> Offline]]
    /\ call = [r \in Requests |-> Idle]
    /\ grants = [n \in Nonces |-> [dev |-> None, peer |-> None, done |-> << >>]]

AccessNext ==
    \/ Tick
    \/ \E d \in Devices : EnableDevice(d)
    \/ \E d \in Devices, p \in Peers, n \in Nonces : Challenge(d, p, n)
    \/ \E r \in Requests :
          \/ \E d \in Devices, p \in Peers :
                HandleMessage(r, d, p) \/ \E x \in Txs \cup {None} : HandleRegister(r, d, p, x)
          \/ \E n \in Nonces, digest \in BOOLEAN, ttl \in TTLs \cup {0} : Consume(r, n, digest, ttl)
          \/ ApplyRegistration(r)
          \/ \E ok \in BOOLEAN : MarkKeepalive(r, ok)

AccessSpec == AccessInit /\ [][AccessNext]_accessVars
-----------------------------------------------------------------------------
\* Every variable holds values of its type and the nonce store its limit.
AccessTypeOK ==
    /\ now \in 0..MaxTime
    /\ entries \subseteq [nonce : Nonces, dev : Devices, peer : Peers, until : 0..(MaxTime + NonceLife)]
    /\ used \subseteq [nonce : Nonces, until : 0..(MaxTime + NonceLife)]
    /\ Cardinality(entries) + Cardinality(used) <= MaxNonces
    /\ Cardinality(cache) <= MaxTxs
    /\ \A d \in Devices : row[d].reg.peer \in Peers \cup {None}
    /\ \A r \in Requests : call[r].at \in {"idle", "looked", "accepted", "alive"}

\* A challenge changes at most one registration, and only that of the device and
\* peer it was sent to, however its nonce is retransmitted, evicted or swept
\* (HandleRegister, MemoryNonceStore).
OneRegisterPerNonce ==
    \A n \in Nonces :
       /\ Len(grants[n].done) <= 1
       /\ \A i \in 1..Len(grants[n].done) : grants[n].done[i] = <<grants[n].dev, grants[n].peer>>

\* Two devices are never registered at one peer, not even when the registration
\* of one has run out: LookupPeer would answer with either.
OneDevicePerPeer ==
    \A d, e \in Devices : d # e /\ Registered(d) => row[d].reg.peer # row[e].reg.peer

\* A registration is ended or prolonged only by a request of its device; a
\* keepalive that was under way while the device registered from elsewhere
\* leaves the new registration alone (MarkKeepalive).
KeepaliveOfItsPeer ==
    [][\A d \in Devices : Registered(d) /\ row'[d].reg # row[d].reg
          => \E r \in Requests :
                /\ call[r].dev = d /\ call'[r] = Idle
                /\ call[r].at = "alive" => call[r].peer = row[d].reg.peer]_accessVars

\* A registration is the work of one challenge, its nonce consumed with it, and
\* stands for one device at its peer; the nonce store keeps its limit all along.
RegistrationsAgree == AccessTypeOK /\ OneRegisterPerNonce /\ OneDevicePerPeer
=============================================================================
