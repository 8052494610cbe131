----------------------------- MODULE GbCatalog -----------------------------
(***************************************************************************)
(* Refreshes of a device's channel catalog: a coordinator that gathers     *)
(* pages in memory (internal/gbcatalog) and a store that keeps refreshes,  *)
(* channels and the state of the device (internal/gbcatalogpg).            *)
(*                                                                         *)
(* The coordinator releases its mutex around every call of the store, so a *)
(* call is three steps: what is decided under the mutex, the transaction,  *)
(* and what is done with its result under the mutex again.  A result may   *)
(* be lost after the transaction committed.                                *)
(***************************************************************************)
EXTENDS Integers, FiniteSets

CONSTANTS
    SNs, Channels, Names, Threads, Nil,
    MaxItems, RefreshTimeout,
    MaxWall      \* bound on the clock

Items == Channels \X Names

\* A refresh that the coordinator gathers.
Pending == [expected : 0..MaxItems, deadline : Nat, items : SUBSET Items,
            staling : BOOLEAN, committing : Threads \cup {Nil}]

ASSUME CatalogAssumption ==
    /\ Nil \notin SNs \cup Threads \cup Nat \cup Pending
    /\ MaxItems \in Nat /\ RefreshTimeout \in Nat /\ MaxWall \in Nat

VARIABLES
    wall,
    pending, completed, stale,   \* the maps of the coordinator
    catalogs,                    \* video_gb_catalogs, by SN
    device,                      \* video_gb_devices.catalog_state
    channels,                    \* video_gb_channels that are present
    latest,                      \* for the properties: the refresh completed last
    thread                       \* the calls under way

store == <<catalogs, device, channels, latest>>
maps == <<pending, completed, stale>>
catalogVars == <<wall, pending, completed, stale, catalogs, device, channels, latest, thread>>

NoRefresh == [state |-> "none", expected |-> 0, expires |-> 0, failed |-> Nil, items |-> {}]
NoCall == [at |-> "idle", sn |-> Nil, expected |-> 0, time |-> 0, page |-> FALSE,
         deadline |-> 0, items |-> {}, ok |-> FALSE]

Keys(items) == {i[1] : i \in items}
\* validPage, without the conflicting duplicates inside a page.
Pages(expected) ==
    {q \in SUBSET Items : /\ Cardinality(q) = Cardinality(Keys(q))
                          /\ Cardinality(q) <= expected
                          /\ q = {} <=> expected = 0}

Goto(t, to) == thread' = [thread EXCEPT ![t].at = to]
Return(t) == thread' = [thread EXCEPT ![t] = NoCall]
-----------------------------------------------------------------------------
\* Start and AcceptPage: start.

\* Under the mutex: known refreshes are answered, others go to the store.
Start(t, s, expected, page) ==
    /\ thread[t] = NoCall
    /\ thread' = [thread EXCEPT ![t] =
          IF \/ pending[s] # Nil /\ pending[s].expected = expected
             \/ pending[s] = Nil /\ s \notin stale /\ completed[s] = expected
          THEN IF page THEN [NoCall EXCEPT !.at = "page", !.sn = s, !.time = wall] ELSE NoCall
          ELSE IF pending[s] = Nil /\ s \notin stale /\ completed[s] = Nil
          THEN [NoCall EXCEPT !.at = "start", !.sn = s, !.expected = expected,
                            !.time = wall, !.page = page]
          ELSE NoCall]
    /\ UNCHANGED <<wall, maps, store>>

Expired(s) == device' = "stale"

\* Store.StartRefresh, and whether its result arrives.
StartRefresh(t, arrives) ==
    LET s == thread[t].sn
        c == catalogs[s]
        due == thread[t].time + RefreshTimeout
    IN  /\ thread[t].at = "start"
        /\ \/ /\ due <= wall     \* boundedContext, validRefresh
              /\ Return(t) /\ UNCHANGED <<catalogs, device>>
           \/ /\ wall < due /\ c.state = "collecting" /\ wall < c.expires
              /\ IF arrives /\ c.expected = thread[t].expected
                 THEN thread' = [thread EXCEPT ![t] = [@ EXCEPT !.at = "started", !.deadline = c.expires]]
                 ELSE Return(t)
              /\ UNCHANGED <<catalogs, device>>
           \/ /\ wall < due /\ c.state = "collecting" /\ wall >= c.expires
              /\ catalogs' = [catalogs EXCEPT ![s] = [@ EXCEPT !.state = "failed", !.failed = wall]]
              /\ Expired(s)
              /\ Return(t)
           \/ /\ wall < due /\ c.state \in {"complete", "failed"}
              /\ Return(t) /\ UNCHANGED <<catalogs, device>>
           \/ /\ wall < due /\ c.state = "none"
              /\ catalogs' = [catalogs EXCEPT ![s] =
                    [state |-> "collecting", expected |-> thread[t].expected,
                     expires |-> due, failed |-> Nil, items |-> {}]]
              /\ device' = "refreshing"
              /\ IF arrives
                 THEN thread' = [thread EXCEPT ![t] = [@ EXCEPT !.at = "started", !.deadline = due]]
                 ELSE Return(t)
        /\ UNCHANGED <<wall, maps, channels, latest>>

\* Under the mutex again: pending and completed are looked at, stale is not.
Started(t) ==
    LET s == thread[t].sn
    IN  /\ thread[t].at = "started"
        /\ pending' = IF pending[s] = Nil /\ completed[s] = Nil
                      THEN [pending EXCEPT ![s] = [expected |-> thread[t].expected,
                              deadline |-> thread[t].deadline, items |-> {},
                              staling |-> FALSE, committing |-> Nil]]
                      ELSE pending
        /\ thread' = [thread EXCEPT ![t] =
              IF thread[t].page THEN [NoCall EXCEPT !.at = "page", !.sn = s, !.time = thread[t].time]
              ELSE NoCall]
        /\ UNCHANGED <<wall, completed, stale, store>>
-----------------------------------------------------------------------------
\* AcceptPage.

\* What a page adds: all of it, or on a conflict what came before it.
Merges(old, page) ==
    LET fresh == {i \in page : i[1] \notin Keys(old)}
    IN  IF page \ fresh \subseteq old THEN {old \cup fresh} ELSE {old \cup f : f \in SUBSET fresh}
Conflicts(old, page) == \E i \in page : i \notin old /\ i[1] \in Keys(old)

AcceptPage(t, page) ==
    LET s == thread[t].sn
        p == pending[s]
    IN  /\ thread[t].at = "page"
        /\ \/ /\ completed[s] # Nil \/ p = Nil
              /\ Return(t) /\ UNCHANGED pending
           \/ /\ completed[s] = Nil /\ p # Nil
              /\ p.staling \/ p.committing # Nil
              /\ Return(t) /\ UNCHANGED pending
           \/ /\ completed[s] = Nil /\ p # Nil
              /\ ~p.staling /\ p.committing = Nil
              /\ thread[t].time >= p.deadline
              /\ pending' = [pending EXCEPT ![s].staling = TRUE]
              /\ Goto(t, "stale")
           \/ /\ completed[s] = Nil /\ p # Nil
              /\ ~p.staling /\ p.committing = Nil
              /\ thread[t].time < p.deadline
              /\ page \in Pages(p.expected)
              /\ \E merged \in Merges(p.items, page) :
                    IF ~Conflicts(p.items, page) /\ Cardinality(merged) = p.expected
                    THEN /\ pending' = [pending EXCEPT ![s] = [@ EXCEPT !.items = merged, !.committing = t]]
                         /\ thread' = [thread EXCEPT ![t] = [@ EXCEPT !.at = "commit", !.items = merged]]
                    ELSE /\ pending' = [pending EXCEPT ![s].items = merged]
                         /\ Return(t)
        /\ UNCHANGED <<wall, completed, stale, store>>

\* Channels are written, those of the catalog as present, all others as gone.
ChannelsAfter(items) == items

\* Store.ReplaceCatalog.
ReplaceCatalog(t) ==
    LET s == thread[t].sn
        c == catalogs[s]
    IN  /\ thread[t].at = "commit"
        /\ \/ /\ c.state = "collecting" /\ c.expected = Cardinality(thread[t].items)
              /\ thread[t].time < c.expires /\ wall < c.expires
              /\ catalogs' = [catalogs EXCEPT ![s] = [@ EXCEPT !.state = "complete", !.items = thread[t].items]]
              /\ channels' = ChannelsAfter(thread[t].items)
              /\ device' = "ready"
              /\ latest' = s
              /\ \E arrives \in BOOLEAN :
                    thread' = [thread EXCEPT ![t] = [@ EXCEPT !.at = "replaced", !.ok = arrives]]
           \/ /\ Goto(t, "replaced")      \* refused, cancelled or failed
              /\ UNCHANGED store
        /\ UNCHANGED <<wall, maps>>

\* Faulty: the refresh counts as complete whatever the store answered.
ReplacedAnyway(t) ==
    LET s == thread[t].sn
    IN  /\ thread[t].at = "replaced"
        /\ pending' = [pending EXCEPT ![s] = Nil]
        /\ completed' = [completed EXCEPT ![s] = pending[s].expected]
        /\ Return(t)
        /\ UNCHANGED <<wall, stale, store>>

\* The result of the store; the refresh must still be this thread's.
Replaced(t) ==
    LET s == thread[t].sn
        mine == pending[s] # Nil /\ pending[s].committing = t
    IN  /\ thread[t].at = "replaced"
        /\ pending' = IF ~mine THEN pending
                      ELSE IF thread[t].ok THEN [pending EXCEPT ![s] = Nil]
                      ELSE [pending EXCEPT ![s].committing = Nil]
        /\ completed' = IF mine /\ thread[t].ok
                        THEN [completed EXCEPT ![s] = pending[s].expected] ELSE completed
        /\ Return(t)
        /\ UNCHANGED <<wall, stale, store>>
-----------------------------------------------------------------------------
\* Expire and markStale.

Expire(t, s) ==
    /\ thread[t] = NoCall
    /\ pending[s] # Nil
    /\ wall >= pending[s].deadline
    /\ pending[s].committing = Nil /\ ~pending[s].staling
    /\ pending' = [pending EXCEPT ![s].staling = TRUE]
    /\ thread' = [thread EXCEPT ![t] = [NoCall EXCEPT !.at = "stale", !.sn = s, !.time = wall]]
    /\ UNCHANGED <<wall, completed, stale, store>>

\* Faulty: refreshes in any state are failed.
OverdueAny(at) == {s \in SNs : catalogs[s].state # "none" /\ catalogs[s].expires <= at}

\* The refreshes of the device that MarkStale fails.
Overdue(at) == {s \in SNs : catalogs[s].state = "collecting" /\ catalogs[s].expires <= at}

\* Store.MarkStale.
MarkStale(t) ==
    LET at == thread[t].time
    IN  /\ thread[t].at = "stale"
        /\ \/ /\ catalogs' = [s \in SNs |-> IF s \in Overdue(at)
                                THEN [catalogs[s] EXCEPT !.state = "failed", !.failed = at]
                                ELSE catalogs[s]]
              /\ device' = IF \E s \in SNs : catalogs'[s].state = "failed" /\ catalogs'[s].failed = at
                           THEN "stale" ELSE device
              /\ \E arrives \in BOOLEAN :
                    thread' = [thread EXCEPT ![t] = [@ EXCEPT !.at = "staled", !.ok = arrives]]
           \/ Goto(t, "staled") /\ UNCHANGED <<catalogs, device>>
        /\ UNCHANGED <<wall, maps, channels, latest>>

\* The result; on an error the refresh may be tried again.
Staled(t) ==
    LET s == thread[t].sn
    IN  /\ thread[t].at = "staled"
        /\ IF thread[t].ok
           THEN pending' = [pending EXCEPT ![s] = Nil] /\ stale' = stale \cup {s}
           ELSE /\ pending' = IF pending[s] = Nil THEN pending
                              ELSE [pending EXCEPT ![s].staling = FALSE]
                /\ UNCHANGED stale
        /\ Return(t)
        /\ UNCHANGED <<wall, completed, store>>

\* The process restarts: the maps and the calls are gone.
Restart ==
    /\ pending' = [s \in SNs |-> Nil] /\ completed' = [s \in SNs |-> Nil] /\ stale' = {}
    /\ thread' = [t \in Threads |-> NoCall]
    /\ UNCHANGED <<wall, store>>

ClockTick ==
    /\ wall < MaxWall
    /\ wall' = wall + 1
    /\ UNCHANGED <<maps, store, thread>>

CatalogInit ==
    /\ wall = 0
    /\ pending = [s \in SNs |-> Nil] /\ completed = [s \in SNs |-> Nil] /\ stale = {}
    /\ catalogs = [s \in SNs |-> NoRefresh]
    /\ device = "never" /\ channels = {} /\ latest = Nil
    /\ thread = [t \in Threads |-> NoCall]

CatalogNext ==
    \/ ClockTick \/ Restart
    \/ \E t \in Threads :
          \/ \E s \in SNs, n \in 0..MaxItems, page \in BOOLEAN : Start(t, s, n, page)
          \/ \E arrives \in BOOLEAN : StartRefresh(t, arrives)
          \/ Started(t)
          \/ \E q \in UNION {Pages(n) : n \in 0..MaxItems} : AcceptPage(t, q)
          \/ ReplaceCatalog(t) \/ Replaced(t)
          \/ \E s \in SNs : Expire(t, s)
          \/ MarkStale(t) \/ Staled(t)

CatalogSpec == CatalogInit /\ [][CatalogNext]_catalogVars
-----------------------------------------------------------------------------
\* Every variable holds values of its type; no refresh is being committed and
\* given up at once.
CatalogTypeOK ==
    /\ wall \in 0..MaxWall /\ stale \subseteq SNs
    /\ device \in {"never", "refreshing", "ready", "stale"}
    /\ \A s \in SNs :
          /\ catalogs[s].state \in {"none", "collecting", "complete", "failed"}
          /\ completed[s] \in 0..MaxItems \cup {Nil}
          /\ pending[s] # Nil => /\ pending[s].items \subseteq Items
                                  /\ ~(pending[s].staling /\ pending[s].committing # Nil)

\* A refresh ends once: a completed one never fails and a failed one is never
\* completed, whatever calls were under way at the deadline or lost their result.
EndsOnce ==
    [][\A s \in SNs : catalogs[s].state \in {"complete", "failed"} => catalogs'[s] = catalogs[s]]_catalogVars

\* The coordinator calls a refresh complete only if the store has completed it,
\* with the number of channels announced.
CompletedIsStored ==
    \A s \in SNs : completed[s] # Nil =>
       catalogs[s].state = "complete" /\ Cardinality(catalogs[s].items) = completed[s]

\* A refresh the coordinator gave up is over in the store too.
StaleIsOver == \A s \in stale : catalogs[s].state \in {"complete", "failed"}

\* A device is refreshing only while one of its refreshes is collecting, so that
\* the end of the last one is always told (StartRefresh, MarkStale).
RefreshingHasCatalog ==
    device = "refreshing" => \E s \in SNs : catalogs[s].state = "collecting"

\* The channels present are those of the refresh that completed last, never a
\* mixture of two refreshes.
ChannelsAreCatalog == latest # Nil => channels = catalogs[latest].items

\* Coordinator and store agree about every refresh, complete, given up or under
\* way, although a call may fail after its commit and the process may restart.
CatalogsAgree ==
    CatalogTypeOK /\ CompletedIsStored /\ StaleIsOver /\ RefreshingHasCatalog /\ ChannelsAreCatalog
=============================================================================
