# IoLink: TLA+ models, checks and proofs

IoLink is one Go binary, `iolinkd`, over PostgreSQL/TimescaleDB. It accepts MQTT
reports of pond sensors, keeps a shadow of every device, raises alarms, notifies farm
owners through WeChat, and serves an administration API, a mini-program API and an
open API. A video part (cameras, playback sessions, a media worker) is built as
libraries; `cmd/iolinkd` wires the camera configuration but not the media worker.

This directory models the parts in which several actors meet: goroutines of the MQTT
broker, workers that share a table under leases, requests that span two transactions,
and operators who change a device or a camera while it is in use. The modules are
checked with TLC on small instances and, where the result matters most, proved with
TLAPS for every value of the constants.

## 1. Inventory

| Component | State | Operations | What makes it correct |
|---|---|---|---|
| Device access (`internal/access`, `core/deviceauth.go`) | one session per device (client, revision, lastSeen, online, checking) under its own mutex; client to device map | OnConnectAuthenticate, connected, OnPublish, disconnected, sweep, retireClient | one live connection per device; a revoked connection stays revoked; status in the database is followed up until it is right |
| Device status (`core/pipeline.go` storeStatus, `core/service.go`) | `devices.status`, `session_version`, gauge | storeStatus, process start, delete / move / restore | memory, rows and gauge agree through failures and restarts |
| Ingestion (`core/pipeline.go`, `generic_ingestion.go`, `alarm.go`, `internal/ingestion`) | `ingest_messages`, telemetry, `device_shadows`, `alarms` | storeReading, storeGenericReading, evaluate | at most once per message, shadow monotone, one open alarm per rule |
| Notification outbox (`persistence/notifications.go`, `internal/notifications`) | `notification_outbox`: status, attempts, lease | Claim (with sweep), send, Finish | exclusive claims, honest and final outcomes, bounded attempts |
| Video playback (`internal/playback`, `internal/mediapg`) | `video_sessions`, `video_streams`, `jobs` | PreparePlayback, CreatePlayback, StopOwnedPlayback, ClaimJob, RevalidateJob, provider call, FinishJob | no session of an old source, a stop never cuts a viewer, a stop asked for is run, ready means playing |
| Camera configuration (`internal/camera`, `internal/camerapg`) | `cameras.source_version`, enabled, credentials | create, replace, disable, invalidate | a change revokes what the old source served |
| Products (`persistence/products.go`, `core/product_model.go`) | products, model versions, device assignment | publish, assign, backfill | a device's readings match its product's model |
| Farms, ponds, members, tenants (`core/admin_store.go`, `tenant_members.go`, `platform_admin.go`, `persistence/tenant_authorization.go`, `authorization/policy.go`) | rows with permission versions and row locks | create, update, delete, owner and member changes, activation | a write commits under a grant that counts at that moment, in its own tenant |
| Users, sign-in, sessions (`adminapi/auth.go`, `appapi/server.go`, `core/users.go`, `registration.go`) | users, token and permission versions; tokens with their claims | sign in, admit a request, switch tenant, change a password | claims that are admitted were true together; a version never stands for two roles |
| App and console reads (`appapi/handlers.go`, `adminapi/handlers.go`, `core/repos.go`, `app_resource_scope.go`) | none of their own; a request runs several queries | lists, details, histories; confirm an alarm, submit telemetry | nothing of a farm the member cannot see; a submission holds what it read |
| License (`internal/license`, `core/license_*.go`) | imported license, clock high-water mark and latch, counts | observe, reconcile, import, admission | quota never exceeded by concurrent admissions, the mark never falls |
| Open API (`core/open_*.go`, `api_key*.go`, `internal/openapi`) | keys, nonces, token bucket | issue, rotate, revoke, authenticate, consume, read | a nonce is used once, a key counts while it is live, no more than its rate |
| GB/T 28181 (`internal/gb`, `gbpg`, `gbcatalog`, `gbcatalogpg`) | nonce store, registrations, pending / completed / stale refreshes | issue, consume, register, keepalive, Start, AcceptPage, Expire | a nonce registers once, a catalog is replaced as a whole, once per refresh |
| Media HTTP (`internal/mediahttp`, `mediapg/media.go`) | `video_segments` | manifest, segment | what is served was allowed, and is of the token's session |
| In-memory jobs (`internal/mediajobs`) | jobs map under a mutex, a clock read outside it | as the jobs table | same promise as the table |
| Media gateways (`internal/media/*`) | RTP port pairs | Allocate, Release, admission | disjoint pairs |
| Set-up, migration, logging, WeChat client, formats | little or none of their own | | |

How they interact. The broker calls the hooks of `internal/access`; those call
`core.Service` synchronously (`Resolve`, `DeviceRevision`, `HandleEvent`), so a slow
database holds one device's mutex and nothing else. `HandleEvent` writes readings,
shadow, alarms and outbox rows in one transaction; the notification workers read the
outbox. The APIs call `core.Service`; a change of a device raises `session_version`,
which the next `isCurrent` notices. Camera changes invalidate sessions and streams in
their own transaction and leave a stop job; the playback service and the media worker
meet in the jobs table only.

What is hard. Goroutines of two connections of one device in any order; the watchdog
deciding on what it saw a moment ago; a transaction that fails, or that commits and
reports an error; workers slower than their lease, or dead on the last attempt;
provider calls with an unknown outcome; a target read in one transaction and used in
the next. `PROJECT.json` lists each at its line under `hazards`, with the properties
that cover it.

## 2. Plan

Done in this order, most important first:

1. `LeaseQueue` (abstract queue), `VideoPlayback`, `NotificationOutbox`, both shown to
   implement it; `VideoPlaybackProofs`, `NotificationOutboxProofs`.
2. `DeviceSession`, `DeviceSessionProofs`.
3. `Ingestion`: deduplication, shadow, alarm and outbox row of one report, with the row
   locks of PostgreSQL, against moves and product changes.
4. `License`, `OpenApi`, `GbAccess` and `GbCatalog`: admission, keys
   and the GB/T 28181 side.
5. `Tenancy` and `AdminSession`: who may write and who is admitted, through revocations.
6. `Reads`, `MediaAccess`, and `MediaJobs` as a third implementation of `LeaseQueue`.
7. The proofs of section 5: every safety property of every module, and the refinements.

To come: what `PROJECT.json` lists as partly or not modelled. The modules are written for
proofs: no recursive operator, one action per statement, locks as functions of where a
request is.

## 3. Modules

Every module says in its header what an action is and what is simplified. Definitions
keep the source's names where possible; `PROJECT.json` maps each to its lines. A
definition introduced by a comment "Faulty:" is a variant of the next one with a
plausible mistake in it; no specification uses it.

### LeaseQueue

The promise shared by `jobs`, `notification_outbox` and the in-memory jobs: a row is
enqueued once, claimed at most `MaxAttempts` times, leaves a claim settled or waiting, and
never changes once settled. A row may come with attempts made before (`Brought`: none in
the tables, any number `Enqueue` takes in memory). A step moves any set of rows, because one
transaction may (the sweep in `Claim`, the cancellations in `invalidate`).

### VideoPlayback

| State | Code |
|---|---|
| `cameras[c]` | `cameras.source_version`, `enabled` |
| `sessions[s]` | a request between PreparePlayback and CreatePlayback, then its `video_sessions` row |
| `streams[<<c, v>>]` | `video_streams.state`, unique per camera and source version |
| `jobs[key]` | the `jobs` row with that idempotency key |
| `order` | the due rows by `available_at, id` |
| `workers[w]` | where `ProcessMediaJob` is, with the lease it holds |
| `media` | external: what the media server is pulling |

An action is one committed transaction or one provider call. Aborted transactions
change nothing and are left out. Leases and sessions may expire at any moment, which
covers every clock. The claim number stands for the random lease token: within a job
both are unique per claim.

`ClaimJob` takes the first claimable row of `order`; while another worker is in a `ClaimJob`
of its own, which holds a row locked, it may be the next one (`SKIP LOCKED`). A row enters
the order when it is due: a new one at once, one to be retried when its delay is over
(`ComeDue`), in either case behind those already due. The first row may be one that cannot be
decoded (`Decodes`), the stop job of a camera change. Then `ClaimJob` rolls back, which
changes nothing, and the worker finds the same row at its next poll.

### NotificationOutbox

`outbox[r]` is the row, `owner[r]` what the joins of `Claim` find, `workers[w]` the
goroutine in `RunOnce`; `sent` and `lost` are history. `Claim` is the whole
transaction: the sweep of exhausted rows, the candidate, the recipient. The WeChat
sender is external: it answers with any of its error classes, and after a timeout the
message may or may not have arrived.

### DeviceSession

| State | Code |
|---|---|
| `rows[d]` | `devices.disabled_at`, `session_version`, `status` |
| `tenant` | `tenants.active` of the devices' tenant |
| `gauge` | `MetricDevicesOnline` |
| `sessions[d]` | the `session` struct |
| `conns[c]` | a broker client and the goroutine that runs its hooks, with its entry in `deviceOf` |
| `checks[d]` | `session.checking`, with the `now` the sweep captured |
| `lock[d]` | `session.mu`, where it is held across two database operations |

An action is what a goroutine does between two meetings with others. `connected` is
three actions (`Resolve`, `Establish` or `EstablishNothing`, `GoOnline`), because the
database may change between its queries; the mutex is held over the last two. `OnPublish`
is two (`Publish` for the session check, `Report` for the heartbeat). A status
transaction may fail (`faults`) or commit and report an error (`unknowns`). Not
modelled: topics and payloads, a change of `report_interval`, and the connection's own
password, which is either the device's or refused without a trace. `conns[c].since` is the
time a connection became the client of its session, against which an offline decision is
judged; `unknowns` counts the transactions of the last kind.

### Ingestion

| State | Code |
|---|---|
| `device[d]`, `shadow[d]`, `rules[p]` | rows of `devices`, `device_shadows`, `alarm_rules` |
| `ingested[<<d, m>>]` | the row of `ingest_messages`: none, fresh, or old (past 24 hours) |
| `raised`, `confirmed` | alarms per device, pond, product and metric; `raised` also counts outbox rows |
| `rowLock`, `keyLock` | the report that has locked a device row, or inserted or deleted a message row |
| `tx[h]` | a goroutine in `storeReading` or `storeGenericReading` and its uncommitted work |
| `accepted`, `times`, `expired` | history: reports stored, commits and purges of a message |

The two pipelines are one set of actions in two orders, as in the code: `storeReading`
locks the device (`Query`, `Lock`), then deduplicates (`Purge`, `Insert` or `Duplicate`);
`storeGenericReading` does it the other way round. A report takes the lock in two steps:
it reads the row of its snapshot, and when the lock is free PostgreSQL looks at the row
again and returns nothing if it no longer joins (`StillMatches`). `Rollback` stands for
every error, the timeout and the deadlock detector.

### License

`clock`, `maxSeen` and `latched` are the wall clock and the row of `license_clock`; `lic`
the row of `license_state`; `dev`, `cam`, `version` the rows that admissions change;
`req[r]` where a request is. A request observes the clock in its own transaction, then
takes the row of `license_state`, the clock row, decides and commits. An envelope is a
record of its verdicts: signed, of this deployment, its times, its quota.

### OpenApi

`key`, `nonces` and `tenantActive` are rows, `req[r]` a request between arrival, the start of
its transaction and the lock on its key's row; `spent`, how often a key was let in, is history.
Tokens are counted in parts, so that refilling by elapsed time stays in whole numbers. The
resource queries behind a key are not modelled (section 7).

### GbAccess and GbCatalog

`GbAccess`: the bounded nonce store with eviction, REGISTER with its remembered
transactions, keepalives, and the registration rows with their unique peers. `GbCatalog`:
the coordinator's maps of pending, completed and stale refreshes, the calls of the store
that are made outside the mutex and may commit and report an error, deadlines, a restart.

### Tenancy and AdminSession

`Tenancy` has `tenant`, `member`, `farm`, `pond` rows and requests that run statement by
statement: checks before the transaction, the lock on the tenant, the lock on the actor's
membership, the write. Who holds a row lock follows from where the requests are, so a cycle
of waits can be seen (`OnlyUpgradesDeadlock`). `AdminSession` has accounts and seats, each
with its version, programs with a token, and the queries of sign-in and of `authRequired`
one by one. Both keep the memberships for themselves: what one reads of them is what the
other may write, in any order.

### Reads, MediaAccess and MediaJobs

| State | Code |
|---|---|
| `post`, `owned`, `shared` | the member's rows of `tenant_memberships`, `farms.owner_id`, `farm_memberships` |
| `place`, `off`, `mirror`, `readings`, `alarms` | `devices`, `device_shadows`, the readings' tables, `alarms` |
| `call[c]` | a request: its claims, the queries still to run, what it has got |
| `view`, `lens`, `reach`, `clips` | `video_sessions` of one user, the camera, the farm's sharing, `video_segments` |
| `ask[a]` | a request with a media token |
| `task`, `hand`, `clock` | `MemoryStore.jobs`, the workers with the clock they read, the clock |

A reading handler of `Reads` is the list of queries it runs; each is one step on the rows
as they are then, and what it finds decides which follow. `confirmAlarm` is an UPDATE and,
if it finds nothing, a second query; `submitTelemetryV2` is the SELECT ... FOR UPDATE, the
check of the grant, the rows. `seen`, `moved`, `stale`, `kept` and `ok` are history: what
was allowed at some moment of a request. `MediaJobs` splits every operation into the
reading of the clock and the part under the mutex; an entry comes with any number of attempts
`Enqueue` takes (`Starts`), and a worker returns any result `validResult` takes, on its last
attempt too.

The MC modules `MCDeviceOpen`, `MCIngestion`, `MCLicense`, `MCGb` and `MCTenancy` put modules
side by side that share no state, to check them in one run: a variable `part` says which of
them a behaviour is of. `MCOpenApi` and `MCReads` are instances of one module.
`MCVideoPlayback` checks two slices of the behaviours of `VideoPlayback` in one run: `share`
keeps the first source of the camera and has two workers, and a fault or the camera disabled;
`source` has it replaced and one job at a time, each claimed once. The other `part`s have
bounds of their own too, which the headers of the MC modules name.

## 4. Runs

All bounds are constants named in the modules. A property followed by names in parentheses
is their conjunction; one of the invariants of a module includes its type invariant, unless
that is proved (section 5).

| Run | Instance | Shows |
|---|---|---|
| `video` | 1 camera, 2 sessions, 2 workers; slices `share` (1 source version, 2 attempts, 1 fault) and `source` (2 versions) | `LeaseExclusive`, `StopNeverCutsLiveSession`, `SettledStaysSettled`, `JobsAreLeasedQueue` (refinement of `LeaseQueue`); `LiveSessionIsCurrent`: replacing or disabling a camera between the two transactions of a request leaves no open session of the old source |
| `notification_outbox` | 2 rows, 2 workers, 2 attempts, 1 fault, fair | exclusive claims, `SentWasReceived`, `DuplicateNeedsLostLease`, final outcomes, refinement, `NotificationSettles`, no deadlock |
| `device_open` | 1 device, 2 connections, 3 revisions, 1 slot, clock to 1, 1 failed or misreported transaction or restart; 2 keys, 2 nonces, 2 requests, clock to 2 | `OnlineIsWatched`, `SingleSession`, `GaugeNeverLow`, `RevokedStaysRevoked`; `KeysAndNoncesHold` (`NonceKept`, `AcceptedWhileLive`), `RetryIsHonest` (`RetryAfterIsEnough`); no deadlock |
| `ingestion` | 1 device, 2 handlers, 1 message id, 2 ponds, a water and a generic product, 3 reports, 2 changes; 2 playback sessions, 1 media request, 2 source versions | `RowsAreSingle` (`StoredOncePerRow`, `OneOpenAlarm`), `ShadowIsLatest`, `StoresUnderBinding`; `ServedAgrees` (`ServedWasAllowed`, `SegmentOfItsSession`) |
| `license` | 2 requests, 2 devices, 4 licences, clock to 3, 1 password change; 1 read request, 2 farms with a pond each, 1 device, 3 changes and alarms, 2 of each at most | `AdmissionHolds` (`QuotaHolds`, `VideoUnderLicense`, `ImportByCurrentAdmin`), `ClockHolds` (`ClockNotRewound`, `LatchIsDurable`), `StatusIsHonest` (`StatusAgreesWithAdmission`); `AnswersAgree` (`ScopedAnswersWereVisible`, `ConfirmNeverLost`, `StatusIsWorst`), `SubmitHoldsItsReads` |
| `gb` | 2 devices, 2 peers, 2 requests, a nonce store of 1; 2 coordinator calls, 2 refreshes, 2 channels; 2 workers, 1 job, 2 attempts, clock to 3 | `RegistrationsAgree` (`OneRegisterPerNonce`, `OneDevicePerPeer`), `KeepaliveOfItsPeer`; `CatalogsAgree` (`CompletedIsStored`, `StaleIsOver`, `RefreshingHasCatalog`, `ChannelsAreCatalog`), `EndsOnce`; `LeasesAgree` (`LeaseIsExclusive`), `MemoryIsLeasedQueue` (refinement of `LeaseQueue`, `ResultOfLastClaim`) |
| `tenancy` | 2 requests, 3 users, 2 tenants, 2 farms, 1 pond; 2 programs, 2 persons, 2 changes | `WritesStandOnGrants` (`WriteUnderGrant`, `PlatformWriteUnderToken`, `NoOrphanPond`, `OnlyUpgradesDeadlock`), `WritesStayInTenant` (`NewOwnerIsMember`, `OneTenantPerWrite`); `ClaimsAgree` (`VersionNamesRole`, `AdmittedWasCurrent`) |

Five runs check a sentence of the repository that the code does not keep; TLC finds a
behaviour that shows it, told in section 6.

| Run | Instance | Does not hold |
|---|---|---|
| `video_ready` | 1 camera, 2 sessions, 2 workers, 1 version, no fault | `ReadySessionHasMedia` |
| `video_stop` | 1 camera, 2 sessions, 1 worker, 2 versions, no fault, fair | `StopIntentIsTaken` |
| `device_offline` | 1 device, 2 connections, no change, no fault, clock to 1 | `OfflineIsJustified` |
| `open_rate` | 1 key, 2 requests, clock to 1 | `RateHolds` |
| `own_ponds` | 1 request, 2 farms, 1 device, 2 changes | `OwnPondsOnly` |

What a property leaves out on purpose, in addition to what its comment says:
`OnlineIsWatched` is about behaviours in which no status transaction committed and reported an
error; that the watchdog then really ends the session needs fairness and is not checked.
`GaugeNeverLow` lets the gauge fall short by the number of such transactions and is one half
of agreement (section 6). `WriteUnderGrant` covers role and permission version, which tenant
writes compare, not the password. `OnlyUpgradesDeadlock` knows cycles of two requests and
excepts the one of two `CreateFarm`. `NoOrphanPond` is what the foreign key is for; the row
locks decide who waits for it. `SetFarmMember` with the role of owner is not covered by
`NewOwnerIsMember`. `ScopedAnswersWereVisible` is about queries with a scope of their own.

Why the bounds are enough. Two sessions and two workers are the least with which one
can overtake another; two source versions give an old one and a current one; two
attempts give a retry and a last attempt; one fault gives every single crash or lost
lease at every point. Two connections compete for one device; with `Grace` 1 a session
can be refreshed or expire; two revisions let a device be disabled and restored.
Two overlapping reports and a third one give a duplicate after a rollback, a purge by
another report and commits in either order; two changes give a move and back, or a
change of product and of its kind. Two
administrative requests are the least that can wait for each other; a change before and one
after a query are what `Reads` needs to show a farm that was visible only between them; a
farm seen and one not seen are enough for a query that has lost its scope. Clocks reach one
tick past the longest life they are compared with. The slices of `video` separate what needs
two workers from what needs two sources; with both at once the instance is too large, and
the theorems cover the rest. What depends on larger numbers is in the theorems, which hold
for all of them. Symmetry is used for sessions, workers, connections, handlers, requests,
keys, nonces and farms, which the specifications treat alike, and in no run with a liveness
property.

`CHECK_DEADLOCK FALSE` stands in the video runs: when every session of the small set is
used and every job settled, nothing is left to do; in `ingestion`, where devices may
stop sending; in `license`, `own_ponds` and `tenancy`, where the bounded number of requests,
alarms and changes is used up, and in `tenancy` the deadlock of section 6 is among the states
reached. The other runs check deadlock.

Fairness. It is assumed in two runs. In `notification_outbox` the workers poll in a loop
(`Worker.Run`), so polling and delivering are weakly fair and claiming a row that is again and
again available is strongly fair, since rows are taken in their order; the expiry of a lease is
time. In `video_stop` likewise: the workers poll, retries come due, leases expire. Operators,
viewers, devices, peers and crashes owe nothing. The counterexample of `video_stop` stutters
although the worker is fair, because its `ClaimJob` rolls back at every poll.

Every property has a mutant in `PROJECT.json`: a plausible mistake in a mapped
definition under which TLC finds the property violated (those of the last table, which are
violated as it is, excepted). A conjunction has the mutant of one of its parts. The type
invariants of `VideoPlayback`, `NotificationOutbox` and `DeviceSession` are proved and
therefore in no run.

## 5. Proofs

Each theorem holds for every value of the constants, so for any number of cameras, sessions,
workers, rows, devices, connections, keys, tenants, requests and for any bounds. Every proof
has the same shape: an inductive invariant, that it holds initially, one lemma per action (or
group of actions) that it is kept, and the property from it. What the invariants add to the
properties is mostly one idea: what a request, worker or connection that has read something
still knows at the point where it is, and which lock keeps it true.

`VideoPlaybackProofs`: `TypeCorrect`, `SessionsAreCurrent`, `ClaimsAreExclusive`,
`StopIsFenced`, `SettledIsFinal`, `JobsRefineQueue`.
- The invariant adds what a worker knows at each point of `ProcessMediaJob` (its claim number
  is at most the job's, equal if the lease is live), what each session state says about its
  camera version, and that a fenced stop has set its stream to `stopping`, which
  `ensureStream` does not join.

`NotificationOutboxProofs`: `TypeCorrect`, `ClaimsAreExclusive`, `SentIsHonest`,
`OutcomesAreFinal`, `OutboxRefinesQueue`, `DuplicatesArePaidFor`.
- The invariant relates a worker's claim to the row's attempts; a result in hand says whether
  the message was received.
- `DuplicatesArePaidFor` counts: messages received of a row, plus the workers that may still
  send one although they lost their claim, are at most the lost claims, and one more while the
  last claim or a recorded success accounts for it (`CountInv`).

`DeviceSessionProofs`: `TypeCorrect`, `OnlineDevicesAreWatched`, `OneSessionPerDevice`,
`GaugeIsNeverLow`, `RevocationIsFinal`.
- The invariant says what a connection knows at each point of its life, that the holder of a
  mutex is the session's client and remembers the only other connection not yet on its way
  out, and that a session's revision never runs ahead of the device's. `SingleSession` is not
  inductive without the second; `RevokedStaysRevoked` needs the third, and that only a
  connection without a device can become the client of a session.
- `GaugeIsNeverLow` counts: the devices stored as online are at most the gauge and the status
  transactions that committed and reported an error, whatever else failed.

`LicenseProofs`: `StatusIsHonestHolds`, `AdmissionHoldsAlways`, `ClockHoldsAlways`.
- One request at a time has the lock of `license_state`, or several cameras share it; so the
  licence, a free place and the latch are at commit what they were at the check. The count of
  enabled devices goes up by at most one and never by two requests at once.

`IngestionProofs`: `RowsAreSingleAlways`, `ShadowIsLatestAlways`, `StoresUnderBindingAlways`.
- A transaction that has the device's row knows its pond and product; one that has inserted
  its marker knows that no other has; one about to commit holds the merge of the shadow as it
  is. Merging is shown to keep the latest stamp of every metric in whatever order reports come.

`OpenApiProofs`: `RetryIsHonestAlways`, `KeysAndNoncesHoldAlways`.
- No refill time lies in the future and a locked key is live. `RetryIsHonestAlways` says what a
  throttled request is told; how often a key is let in is `RateHolds`, which is false. Rounding
  up in Retry-After is a lemma about division.

`MediaProofs`: `LeasesAgreeAlways`, `MemoryRefinesQueue`, `ServedAgreesAlways`,
`RegistrationsAgreeAlways`, `KeepaliveOfItsPeerAlways`, `CatalogsAgreeAlways`,
`EndsOnceAlways`.
- Jobs: the lease of the last claim is in the entry until its worker lets go, and every earlier
  one still in hand has run out, although clocks are read outside the mutex. `MemoryRefinesQueue`
  has entries that come with attempts made and retries after the last one: an entry out of
  attempts counts as settled, because nothing changes it any more, whatever its label.
- Served media: the state of a session a request has read is final except that it may end; one
  that is open when its manifest is written was open, and current, when its rights were
  looked at.
- Registrations: a nonce has one record in `entries` or `used`, and a call that consumed it is
  the only one that did; the size of the store is kept by counting.
- Catalogs: coordinator and store may differ only about a refresh that a call has in hand;
  two calls never commit the same one, nor give it up (`Alone`).

`TenancyProofs`: `ClaimsAgreeAlways`, `WritesStandOnGrantsAlways`, `WritesStayInTenantAlways`,
`AnswersHold`, `SubmissionsHold`.
- `AdminSession`: the version of a membership only grows and names its role, so a version
  read earlier vouches for what was true since.
- `Tenancy`: from its check to its commit a request holds the locks under which the versions
  in its token still say the same; which locks two requests can hold together (`Apart`) gives
  the freedom from deadlock but for `CreateFarm`. Versions stay within their bound because
  each change uses up a request.
- `Reads`: every question a handler has still to ask is one whose answer may be shown, or a
  question before it will show that (`TodoOK`); what a query with a scope of its own found is of a
  farm visible at some moment since the request arrived (`GotOK`). That both loops over the alarms find the worst
  open one, however long the list, is an induction: the library's theorems of induction take
  an operator, which no installed prover can instantiate, so it is done by the least number
  for which it fails (`Steps`, from the well-foundedness of `<`).

Assumptions, each a named `ASSUME` of the module that declares the constants; TLC evaluates
all of them in the runs. Bounds are natural numbers (positive where a zero would leave
nothing: `Grace`, `Slots`, `MaxAttempts`, `LeaseTime`, the first source version). `None`,
`Nil`, `Void`, `Gone` and `Absent` stand for NULL or a missing row and are no member of the
sets they are joined with. Sets that are counted or listed are finite: devices, clients,
ponds. Tables given as functions are functions (`SiteOf`, `Schema`), and a few members are
there: the first pond and product, a pond, a user who is no administrator, the support role.
A burst is at least one request, which `ConfigureOpenRateLimit` insists on. No theorem has a hypothesis beyond
these assumptions.

Only model-checked: what needs fairness (`NotificationSettles`), the absence of deadlock in
the runs that check it, which is about `ENABLED`, and the five counterexamples.

## 6. Observations

What was met while modelling: where the code does something else than a line of the
repository says, or something a reader may not expect. The models do what the code does.

Video.
- A start result obtained before an intervening stop marks a later session ready although the
  server has no stream (`mediapg/job_finish.go:99`), while `docs/design/M7a-video.md:73` has
  start and stop serialized on the stream (`video_ready`). The row is locked in the
  transactions, not over the provider's call; with two workers the stop fits in between.
- The stop job that a camera change writes (`camerapg/invalidation.go:31`) has no `session_id`,
  and `invalidation.go:9` calls it a persistent stop intent. `decodeJob` rejects it
  (`job_finish.go:170`); `ClaimJob` rolls back, the row stays first by `available_at, id`, and
  every job behind it waits for ever (`video_stop`), against `M7a-video.md:44`. Two workers get
  past one such row only while the other has it locked.
- The stop job's idempotency key is the stream id, so the second stop of a restarted stream
  writes no job, and the stream stays `stopping`, which `ensureStream` refuses for ever
  (`mediapg/store.go:228`; `M7a-video.md:44` promises a stop intent).
- A job abandoned on its sixth claim stays `running`, since `ClaimJob` wants `attempts < 6`
  and nothing else settles it; `M7a-video.md:75` promises a final `failed`.

Devices.
- A client whose device is disabled between `Resolve` and `DeviceRevision` is not retired
  (`access.go:260`), although `access.go:241` explains why it must be.
- A report of a connection that was replaced after `isCurrent` looks its session up again and
  sets `lastSeen` of the successor to its own earlier time (`access.go:186`). A sweep then finds
  the session silent and sets a device offline that has just connected (`device_offline`),
  against `docs/ACCEPTANCE.md:34` and `:37`.
- Moving or deleting an online device leaves the gauge one too high (`admin_store.go:976`); a
  status transaction that commits and reports an error leaves it too low, and a later one may
  take it below zero (`pipeline.go:196`). `docs/ACCEPTANCE.md:37` wants it to agree with the
  database; `GaugeNeverLow` bounds the second by the number of such transactions.
- An online status that committed and reported an error leaves `session.online` false, the
  later disconnect is skipped (`access.go:213`) and the row stays online until the device comes
  back. That a departure is recorded in the end is therefore not claimed.
- A report past `isCurrent` when its device is moved is stored under the new pond, since
  `storeReading` does not look at `session_version`; `docs/PLAN-DETAILS.md:28` lets the device
  write there after it has reconnected.

Open API and GB/T 28181.
- A request that waited for its key's row sets `rate_last_refill` back to its own arrival
  (`open_auth.go:167-175`, `open_rate.go:18`), so that time is credited twice and more than the
  "60 requests per minute and burst 10" of `docs/api/open-openapi.yaml:5` passes (`open_rate`).
- An expired GB registration keeps its peer in the unique index until it is replaced. The GB
  services are not wired in `cmd/iolinkd`.

Tenants, users and what they see.
- `CreateFarm` upserts the owner's membership while it shares the tenant's and the actor's
  rows; two at once can wait for each other, and PostgreSQL aborts one (a 500).
  `OnlyUpgradesDeadlock` says that no other cycle exists.
- `SetFarmMember` checks the tenant membership before it has the lock. The owner given in
  `CreateFarm` gets no row of `farm_memberships`: the app shows the farm, the console's list
  does not. `ErrConflict` of `createFarm` and `setFarmOwner` becomes a 500.
- Tenant writes compare role and permission version in the transaction but not the token
  version; platform writes do. A sign-in that verified the old password may get the new
  token version; the upgrade of a legacy hash overwrites a password changed meanwhile; two
  concurrent changes of a password both verify the old one.
- `appapi/handlers.go:18` says that every query is scoped by the user. `Latest` is scoped by
  the tenant only: when a device moves between the check of its farm and `Latest`, a reading
  of a farm the user cannot see is shown (`own_ponds`). The console goes by the role of the
  claims during a request. `ScopedAnswersWereVisible` covers neither, and says so.
- `adminapi/latest.go` pages by offset over a list that may change between pages.

Not wired. The in-memory job store is used by tests only, which finish a job as retryable on
its last attempt (`store_test.go:205`): the store takes that (`store.go:174`), and the entry
stays labelled retryable though nobody may claim it, as its own review says
(`docs/evidence/M7a/2026-10-11-media-jobs/final-code-review.md:40`). Nothing allocates RTP ports
yet; `Allocator.Release` frees a pair for whoever has it, so a second release would free it for
its new owner (`media/rtp/ports.go:86`).

## 7. Not modelled

Products and their model versions (a device's published model is taken as given), set-up and
migration, log and backup files, the WeChat client beyond its outcomes, RTP ports, routing,
decoding, formats, cryptography, the queries of the open API (each one read-only statement),
the web clients and the tools: no state of their own, or
none that two actors share while the service runs. Within modelled parts: audit rows, metrics
other than the gauge, camera credentials, alarm rules as the console edits them, names and
pages, statistics, and database isolation below the statement (the modelled statements lock
the rows they decide on, except where a header says otherwise).
