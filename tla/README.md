# Goodman in TLA+

A verification project for Goodman: a runtime monitor that learns what each
version of each package does at run time, and raises an alert when a version
does something new. It holds TLA+ modules for parts of the system, the
configurations under which TLC checks them on small instances, and proofs TLAPS
checks for every instance.

## 1. The system

    kernel (bpf) --> sensor: loader, attribution --> transport/spool
                                                        |  POST /v1/events
                     collector replica(s): ingest API --+
                        |  fingerprint engine --> table fingerprints
                        |  diff engine        --> table alerts
                        |  enforcement manager (memory) <-- block-rule behaviors
                        |  notifier, event stream
                        |  maintenance loops (one leader): retention, digests, refresh
                     sensor <-- GET enforcement state -- collector
                     operator: alert status, baseline export/import, enforcement switch

| component | state | operations | what it talks to |
|---|---|---|---|
| Fingerprint engine (`internal/fingerprint`) | none of its own | group the events of a batch, merge a group into a row, promote the row | the store, one transaction per row |
| Fingerprint store (`store/fingerprints.go`) | table `fingerprints` | `MergeFingerprint`, `LatestBaseline`, `ImportFingerprint`, listings | advisory and row locks of PostgreSQL; the single connection of SQLite |
| Diff engine (`internal/diff`) | none | `React` (triggers 0, 1, 2), `emit`, `ReactDenied` | both tables |
| Alert store (`store/alerts.go`) | table `alerts` | `UpsertAlert`, `SetAlertStatus`, `SetAlertBlocked`, `FindUnblockedAlertByBehavior`, `PruneResolvedAlerts` | row locks |
| Ingest API (`internal/api`) | none between requests | `handleIngest` → `processEvents`; alert status; imports | everything above, notifier, manager |
| Sensor transport (`cmd/sensor/transport.go`, `internal/spool`) | channel, buffer, spool | batch, flush, post, spool on failure, retry, evict, last flush | the ingest API |
| Enforcement manager (`internal/enforce`, `store/enforcement.go`) | rules, block-rule behaviors seen, revision, switch; the last two persisted | `SetRules`, `RecordBehavior`, `SetEnabled`, `StateForSensor`, heartbeat | store; polled by sensors |
| Sensor enforcement (`cmd/sensor/enforcement.go`, `loader/enforcement.go`, `loader/lsm.go`) | applied revision, scope, kernel maps, deadline | poll, reconcile, scope refresh | manager, kernel maps |
| Kernel program (`bpf/goodman.bpf.c`) | watched pids, verdict maps, deadline, ring buffer, drop counters | LSM hooks, fork, exit, reserve and submit events, render destinations | loader |
| Watched pids and reader (`loader/watch.go`, `cmd/sensor/runtime.go`) | mirror of the watched map | refresh, watch, unwatch, read events | kernel maps, attribution |
| Attribution (`internal/attribute`) | per-pid symbol tables, thread contexts, version caches | `Attribute`, `Forget`, flush | `/proc` |
| Notifier, stream (`internal/notify`, `api/stream.go`) | bounded queue; stream clients | notify, deliver with retries, drain | web hooks |
| Maintenance (`cmd/collector/maintenance.go`, `store/leader.go`) | leader lock | retention, digests, reachability refresh | all tables |
| Reachability (`internal/report`, `store/reachability.go`) | reports and snapshots | upload, refresh, prune | OSV, store |
| Coverage, admission | maps in memory | aggregate, decide | sensors, Kubernetes |
| Store set-up (`store/store.go`) | schema version | open, migrate under a lock | database |
| CLI, dashboard, demo | none | view and print | HTTP API |

### What is hard

Every `POST /v1/events` is a goroutine; replicas of the collector share one
PostgreSQL database, so handlers interleave at every statement. A batch is
processed in three phases - merge all groups, react to all updates, react to all
kernel denies - and each phase is many transactions, while nothing but the
merges decides whether the sensor gets its 200. The client gives up after ten
seconds and sends again; replicas die. Alerts have an identity that is computed
from what they say, so several handlers raise the same alert, while operators,
denies and the retention loop work on the same row. Imports write rows that
merges are reading.

Enforcement is spread over three programs. The collector compiles verdicts in
memory and persists only a switch and a revision, outside its mutex. A sensor
polls that state, and two of its goroutines rewrite four kernel maps, one key at
a time, while LSM hooks read them without any lock. Either side may restart, an
answer may be as old as the client's timeout, a map may be full; the only thing
that must not go wrong is to deny what nobody decided to deny, and the kill
switch must work when nothing else does.

Events pass five queues on their way: the kernel's ring buffer, which is read in
the order of reservation, the reader's hand, a channel that is never waited for,
the sender's buffer and the spool. Each may be full, and the sender waits up to
ten seconds for a collector while the others fill. Which processes are traced
is decided twice: by fork and exit in the context of a task, and by a goroutine
that compares an old scan of `/proc` with a mirror of its own; Linux gives pids
out again meanwhile, and threads have ids from the same numbers.

Replicas of the collector start at once and migrate the same database, take
turns in loops only one may run, under a lock that belongs to a session and not
to the work, and overwrite each other's reachability reports.

`PROJECT.json` lists these places as hazards with the line where each bites.

### What correctness means

- Fingerprints: merges lose nothing and count every event of a batch that was
  delivered once; the row depends on the batches, not on their order; a local
  baseline went through its learning window; baselines stay baselines.
- Drift: a behavior new to a baseline reaches an alert; no alert names what is
  not drift, or what is not stored.
- Alerts: whatever the transactions do, the table behaves as if alerts were
  raised one at a time; no merge loses severity; `blocked` means a deny.
- Delivery: acknowledged means stored; every batch is acknowledged in the end.
- Imports: a file never harms what the cluster learned, and the report is true.
- Enforcement: verdicts follow from rules and behaviors and change with the
  revision; a node replaces one policy by another as a whole or fails open; no
  cgroup is denied what another service did; the kill switch works without any
  further message; a node ends up with what the collector says.
- Event path: while the sensor runs, no event is lost without being counted; its
  end, which no counter shows, costs no more than its memory holds; no event
  overtakes another; the spool loses the oldest events only; memory is bounded;
  what is held is sent.
- Watched pids: no key is left in the map for good, except the one of a thread
  that calls `execve`; runtimes get watched; what is gone is forgotten. (That no key
  outlives its task fails, and that a pid never gets its predecessor's identity.)
- Replicas: migrations run once; one leader at most acts; a stale report is
  put right by a later refresh.
- Destinations: the rendering of an address and a port says what they are.

## 2. Modules

| module | models | kind |
|---|---|---|
| `Model` | the vocabulary of `model/types.go` | constants |
| `Fingerprints` | a row, a group of events, merge, learning window, promotion | operators |
| `Alerts` | an alert, `emit`'s new alert, `mergeIntoAlert`, what retention removes | operators |
| `Learning` | the loop of `mergeEvents`, event by event, inside `ingestGroup` | state machine |
| `DriftPipeline` | collector handlers, both tables, sensors' deliveries, operators, retention, imports, failures | state machine |
| `DriftProperties` | what the pipeline must do | properties |
| `AlertBook` | the abstract table of alerts: raising one is atomic | abstract specification |
| `MCDriftPipeline`, `MCLearning` | instances for TLC | constants |
| `FoldProofs` | what a fold over a finite set gives, in whichever order it is taken | lemmas |
| `LearningProofs` | the loop is the merge, for groups of any length | proofs |
| `DriftProofs` | types; what rows hold and lose; refinement of the book; what becomes of drift | proofs |
| `Verdicts` | operations, verdict compilation, deny keys, what hooks look up | operators |
| `ScopedPolicy` | what the loader promises of the kernel maps: whole policies | abstract specification |
| `EnforceManager` | `enforce.Manager` with its database row, its callers and restarts | state machine |
| `EnforceSensor` | poll loop, scope loop, reconciler, loader, kernel maps, an LSM hook, time | actions |
| `SensorNode` | a node with a collector that may answer anything | state machine |
| `Enforcement` | manager and node, joined by the poll | composition |
| `MCEnforceManager`, `MCSensorNode`, `MCEnforcement` | instances for TLC | constants |
| `EnforcementProofs`, `SensorProofs` | manager, kill switch, composition; node and its refinement | proofs |
| `EventPath` | ring buffer, reader, channel, `sendBatches`, spool, shutdown | state machine |
| `RetryQueue` | what sender and spool promise: a bounded queue that gives up its oldest events, until its process ends and abandons it | abstract specification |
| `WatchedPids` | tasks, the kernel's map of watched pids, `RefreshWatched` with its mirror, attribution state per pid | state machine |
| `Collectors` | replicas around one database: migrations, leader locks, reports, digest | state machine |
| `Destinations` | `put_u8_dec`, `put_u16_dec` and the rendering of addresses | operators |
| `EventPathProofs`, `KernelProofs`, `CollectorProofs` | invariants for all capacities, pids, addresses and replicas; refinement of the queue | proofs |

`EventPath`, `WatchedPids` and `Collectors` are parameterised by sets of model
values only, so their configurations run them directly.

### How DriftPipeline corresponds to the code

The tables are `fps` and `alerts`. `job[h]` is the memory of one `handleIngest`
goroutine: where it is, the groups still to merge (`todo`, a set, since
`Ingest` ranges over a Go map), the row its transaction read, the updates and
denies it has yet to react to, the alert it is raising. One action is one
database transaction, split in two (`Begin...`, `Commit...`) where another
statement can come between its read and its write:

| action | code |
|---|---|
| `Deliver`, `Respond` | `handleIngest`, and the sensor's `flush`/`post` |
| `BeginMerge`, `CommitMerge` | `MergeFingerprint`: lock, read; merge, write, commit |
| `React` | `reactToUpdates` with `diff.Engine.React`: the three triggers |
| `BeginUpsert`, `CommitUpsert`, `RetryUpsert` | `UpsertAlert`: lock and read; update or insert; a unique violation |
| `RecordAlert` | the rest of `reactToUpdates`'s loop body, `recordAlert` |
| `ReactDenied`, `BlockAlert` | `ReactDenied`: find; mark |
| `IngestFails`, `CompareFails`, `FindFails`, `AlertFails` | the error paths: the first ends the request with 500, the others log and go on |
| `ClientTimeout`, `Crash` | the ten-second client; death of a replica |
| `SetAlertStatus`, `AgeAlerts`, `PruneResolvedAlerts`, `BeginImport`, `CommitImport` | operators and the retention loop |

Locks appear as guards. `pg_advisory_xact_lock` is `KeyLocked`; `FOR UPDATE` on
a row that exists is `RowLocked`/`AlertLocked`, and locks nothing where no row
exists, which is where the create race of `UpsertAlert` comes from. SQLite has
one connection, so a transaction keeps everybody else out (`NoTransactionOf`),
and one replica only, which `PipelineAssumption` says. The insert of a second
handler waits in PostgreSQL for the first to commit; the model lets both
transactions be open and the first commit win, which gives the loser the same
unique violation.

An alert's identity is (subject, version it is compared with, version it names
new), what `alertID` hashes. Evidence, rule names and wording are left out; the
severity and the verdict of an alert are kept because merging must not lose
them. What rules match is a constant (`HighRisk`, `AlwaysOn`, `Enforceable`,
`BlockRule`). A kernel deny is a pair (subject, behavior).

`learned`, `drift`, `novel` and `raised` are history: no guard reads them.

### Abstractions to know about

- A batch keeps its identity from delivery to delivery. A real sensor puts
  failed events back in its spool and sends them with newer ones, so a batch
  that failed comes back inside a larger one; for the properties here the
  events that come back are what matters. The spool is in `EventPath`.
- Times are positive numbers; 0 is Go's zero time.
- The retention is days and requests end within a minute (the middleware's
  timeout), so alerts pass the cutoff only while no request runs (`AgeAlerts`).
- One import request runs at a time (`imp`), one row after the other, as
  `handleImportFingerprints` loops; two files at once are not modelled.
- Health checks, listings and exports read and change nothing.

### How Learning corresponds to the code

`stats` is `Fingerprint.Behaviors`, `MergeEvent` the loop body of `mergeEvents`,
`EndGroup` the promotion at the end of `ingestGroup`. `LoopIsMerge` justifies
that `DriftPipeline` merges a group in one step through `Learn`, `Fresh` and
`JustPromoted`; it includes that the statistics add up and that a behavior is
reported fresh once.

### How the enforcement modules correspond to the code

`EnforceManager` has the fields of `Manager` and the row of `enforce_state`.
`call[c]` is the goroutine of a request between two steps: `SetEnabled` stores
the switch first (action `SetEnabled`), changes the memory under the mutex
(`Switch`), and persists the revision after it (`PersistRev`, which
`RecordBehavior` ends with too). `Restart` is `NewManager` and `SetRules`, which
`newCollectorServer` calls; an unreadable row counts as a disabled one.

| action of `EnforceSensor` | code |
|---|---|
| `BeginPoll`, `Answer`, `PollFails`, `Receive` | `enforcePollLoop`'s `poll`, up to the deadline it writes; `handleEnforceState` answers |
| `SetVerdicts`, `SetScopes` | `setVerdicts` and `setScopes`, up to `applyLocked` |
| `Disarm`; `PutVerdicts`, `PutFails`, `DeleteMissing` for each map; `Arm`, `ArmFails` | `ReconcileEnforcement`; the mutex is held from the call to its end (`Unlocked`) |
| `HookEnter`, `HookScope`, `HookLookup`, `HookLookupAnyPort`, `HookGivesUp`, `HookReturn` | the three LSM hooks: deadline, cgroup, key, key with port 0 |
| `Tick` | `CLOCK_MONOTONIC`, against the deadline and the client's timeout |
| `SensorRestart` | maps and programs die with the process, or `ctx.Done` |

An operation is what a process attempts; a behavior is an operation or a vague
one that compiles to no literal and is skipped. The family of a key is part of
the address: `To4` takes an IPv4-mapped address to the IPv4 one, as
`denyAddrKeyFromVerdict` does. `inMaps`, `hook.lawful`, `recorded` and `sinceOn`
are history.

Abstractions: the puts of one map are one step when they all fit, and so are the
deletions of one map and the disarming - the hook sees one key, which is there or
not, and the cgroups are disarmed before, so a finer grain shows it nothing else
(a hook that was armed earlier may see either state, and does). A statement that
is reported as failed but took effect is not a case of its own. There is one
collector: the documents require one replica while enforcement is on. A collector
that is down is a poll that fails. Reading the body and writing the deadline are
one step. The scope loop's errors and the heartbeats of sensors change nothing
that matters here.

### How EventPath corresponds to the code

An event is the number under which a program was to report it. `ring` is the
ring buffer: records in the order of reservation, each submitted (`ready`) or
not, which is what the reader waits for. `hand` is the local variable of
`readEvents`, `channel` its channel, `buffer`, `flight` and `spool` are what
`sendBatches` answers for.

| action | code |
|---|---|
| `Reserve`, `Submit` | `reserve_event` and `emit_deny` on one CPU, with the two counters of drops; `bpf_ringbuf_submit` |
| `Read`, `Send` | the loop of `readEvents`; the `select` with a default that counts |
| `Receive`, `Ticker`, `LastFlush` | the cases of the `select` of `sendBatches`, with `flush` up to the request |
| `PostOk`, `PostFails` | the rest of `flush`: `recordResult`, or `recordFailure` with `Spool.Push` |
| `Cancel`, `Close`, `ReaderReturns` | SIGTERM; `Loader.Close`, with which the ring buffer goes; the end of `readEvents`, which closes the channel |
| `ProcessEnds`, `Killed` | `runSensor` returns once `sendBatches` has; SIGKILL or no memory, at any moment. `Ends`: what ring, hand, channel, buffer, request and spool hold is lost, and no counter tells |

A short record (`decodeRawEvent`) cannot come from these programs and is left
out, as is `--stdout`. When SIGTERM has come, `sendBatches` flushes its buffer once
and returns without a look at the channel; the request of that flush may fail, and
`runSensor` returns all the same. Until it has, the reader goes on. `Close` is one
step: that it wakes the reader before it detaches the programs only lets some more
events into a ring nobody reads. A sensor that starts again is another behavior.
A request that fails may have been ingested all the same: `acked` counts what
the sensor knows of, and redelivery is the subject of `DriftPipeline`.

### How WatchedPids corresponds to the code

`group[t]` is the thread group of task `t`, `who[p]` numbers the processes that
have had pid `p`, `watched` is the kernel's map, `mirror` is `Loader.watched`,
`states[p]` is the entry of `Resolver.pids`: the process whose `/proc` it was
read from.

| action | code |
|---|---|
| `Spawn`, `Rename`, `Exec`, `Reap` | what Linux does, outside the repository: a process starts, sets its title, executes a program, is waited for |
| `Fork`, `CloneThread` | `trace_process_fork`, which fires for threads too; a full map is ignored |
| `Exit` | `trace_process_exit`: the key of a thread, and that of the group when the last task leaves |
| `BeginRefresh`, `ReadComm` | `runtimePIDs`: `ReadDir`, then one `comm` after the other |
| `Watch`, `Unwatch`, `EndRefresh` | `syncWatched`: one step per `Put`, one per `Delete` with `Forget`, for Go ranges over maps in any order |
| `Emit`, `Attribute` | an event of a watched task; `Resolver.state` when it is attributed |

An event here is its pid and the process that had it. Of a state only whose it is
matters: service, perf map and maps are all read from `/proc/<pid>` when the
state is made. A process that has exited is a zombie until it is reaped and its
`/proc` directory has no links to follow, which is `Nobody`.

`Exec` is more than a new name. Linux first ends the other tasks of the group, each
by an `Exit` of its own; if the task that is left is not the leader, it takes the
leader's id and goes on under it. Its own id is gone without an exit, so
`trace_process_exit` is never called for it, and a key that `trace_process_fork` put
for it stays.

### How Collectors corresponds to the code

`boot[r]` is where `store.Open` of a replica is, `executed` counts how often the
statements of a file have taken effect, `holder` is the session holding each
advisory lock, `refresh[r]` and `upload[r]` are the local variables of
`reachabilityLoop` with `RefreshAll` and of `handleReport`.

| action | code |
|---|---|
| `Start`, `LockMigrations`, `CheckMigration`, `CommitMigration`, `Serve` | `Open`, `migrate`, `lockMigrations`, `applyMigration` |
| `Upload`, `SaveLockfile`, `SaveReport`, `UploadFails` | `handleReport` with `persistReport`, two statements |
| `Lead`, `Join`, `SaveRefreshed`, `RefreshFails` | `WithLeader` around `ListLockfiles` and `RefreshAll` |
| `Interval`, `BeginDigest`, `PostDigest` | `digestLoop`: each replica has a ticker of its own |
| `LoseSession`, `Crash` | a connection that breaks while the work goes on; death of a replica |

A migration runs on the very connection that holds its lock, so a lost session
is a failed migration, which ends the process: that is `Crash`. The loops work on
other connections of the pool, so theirs is `LoseSession`. A refresh of many
scopes saves them one by one; there is one scope here. Retention is in
`DriftPipeline`. SQLite needs none of this and has one replica.

### Destinations

Strings are sequences of ASCII codes. `Digits` is the number of rounds of the
loop of `put_u16_dec`; the rest follows the code character by character. It is a
module of pure operators: the theorems of `KernelProofs` say more than a run over a
few addresses.

## 3. Runs

| run | instance | what it shows |
|---|---|---|
| `drift_postgres` | 2 replicas, 2 handlers, 5 batches on 2 versions | no drift lost, rows converge to the sequential result, the alert table implements `AlertBook`, severity, blocked marks, one retry at most, notifier and manager are told |
| `drift_faults` | 2 replicas, 2 handlers, 2 batches, 2 failures of any kind, fairness | acknowledged is stored; alerts are drift; promotion is earned though batches are merged twice; requests end; batches are acknowledged |
| `imports` | SQLite, 1 replica, 2 handlers, 2 halves of a learning window, 2 imports of a 2-row file at any time | an imported baseline stays one; no file takes anything from a row learned here (on PostgreSQL, see `find_import_not_baseline`) |
| `learning` | 2 behaviors, 3 times, groups of up to 2 events, 3 groups | the loop is the merge, with statistics that add up |
| `manager` | 2 callers, 2 services, 3 behaviors, 2 rule files, revisions to 4, 1 restart, failing statements | incremental and full compilation agree; verdicts change with the revision |
| `sensor_node` | 2 cgroups, 2 services, 3 answers in any order, maps for 3 keys and 1 cgroup, 1 restart, a hook | armed cgroups have whole policies, also while maps overflow; denials are explained; nothing is forgotten; `ScopedPolicy` is implemented |
| `enforcement` | 2 services, 1 cgroup that changes hands, revisions to 3, TTL 2, timeout 1, restarts of both; clocks advance, nothing else is fair | the kill switch holds; off is final though no poll ever succeeds again; services are kept apart; a revision hides no change; a node that goes on and whose polls succeed from time to time follows |
| `event_path` | 2 CPUs, a ring for 2 records, a channel for 1, flushes at 2, a spool for 2, 6 events, any request may fail, SIGTERM and SIGKILL at any time, fairness | while the sensor runs every loss is counted, nothing is counted twice, order is kept, the backlog is bounded, sender and spool implement `RetryQueue`, what is held is sent |
| `watched` | 3 pids, 2 processes with threads, a map for 2 keys, fairness of the refresh | no step but the `execve` of a thread leaves a key behind; runtimes get watched; what is gone is forgotten |
| `collectors` | 2 replicas, 2 migrations, 2 uploads, 1 change of fingerprints, 1 crash, failure or lost session, fairness | migrations take effect once and in order; one leader unless a session is lost; the report catches up |
| `find_*` | as small as shows it | the findings below |

The bounds are small and chosen for what must meet. Two handlers are enough for
every race in the code: each lock, transaction and check-then-act has two
parties. Five batches let v1 be learned in two halves, then drift twice at once
on the alert of one version, while v2 arrives with a deny. `MinObs = 2` makes
promotion need two batches or one larger one. `MaxFaults = 2` lets a batch be
delivered three times, or a replica die while the other's statement fails.
`NovelDriftAlerted` holds in `drift_postgres`, where one version is promoted at
a time, and fails in `find_same_batch_blessing`, where two are: the comment
that promises it is true for the one case and not for the other.

In `sensor_node` the three answers go from no verdicts to some to others, and the
scopes from one cgroup to two and from one service to another, so every map
gains, keeps and loses keys; a map for three keys and a cgroup map for one make
`PutFails` and `ArmFails` happen on the way. In `enforcement` a timeout shorter
than TTL lets an answer be stale by one tick, which `KillSwitchHolds` counts in;
`find_late_answer` has them equal, as in the code (ten seconds each). Revisions
up to 3 allow a behavior and two switches, and `manager` has one more.

In `event_path` every queue is full at some time with six events: two in the
ring, one in the reader's hand, one in the channel, two in a request; a spool for
two makes a failed request with a new event evict. `FlushAt` equal to the spool
lets a flush happen by length and by ticker. The memory of this sensor holds eight
events, so that a run of six says nothing of the third part of
`NothingUncounted`, that an end loses no more than that: more events
take TLC too long, and it is the proof of `EventsAreCounted` that shows it. In `watched` three ids let a
process have a thread while another uses the third, and a second process reuse
an id of the first; the map for two keys is full with one process and its thread.
In `collectors` one failure is enough to separate each lock from its work, and
two replicas are both parties of each lock.

The runs of the drift pipeline, of `Learning`, of the manager, and of the last
three modules have `CHECK_DEADLOCK FALSE`: an instance has finitely many batches,
revisions, events, processes and uploads; a sensor ends with its sender, and a
collector without requests may rest. A node never rests, its clock does not.

### Fairness

`FairSpec` has weak fairness of each handler's next step and of the delivery of
each batch. The first is the Go scheduler and the lock queues of PostgreSQL: a
handler whose statement is enabled gets to execute it, and no handler waits for
another's lock while it holds one itself (merges and alerts are separate
transactions). The second is the flush ticker of `sendBatches`. Failures are not
fair and are bounded, so they stop. Strong fairness is not needed: a handler
waiting for an advisory lock may be overtaken only by as many deliveries as
there are batches.

`Enforcement` is run under `TimelySpec`, which has weak fairness of time and of
the client's timeout and of nothing else: the sensor may stop polling, and no poll
need ever succeed. `OffIsFinal` holds under it. What `NodeFollows` needs beyond that
is in its own antecedent: `NodeGoesOn`, weak fairness of the steps of a goroutine that
can run (`BeginPoll`, `Reconcile`) and strong fairness where two loops compete for
the reconciler's mutex, which Go hands to a goroutine that has waited a millisecond
(`SetVerdicts`); and `PollsSucceed`, that infinitely many polls do, for a network on
which every poll fails delivers nothing. No fairness is assumed of the scope loop, which may find the same scopes or new ones for ever:
`NodeFollows` is about behaviors in which the scopes come to rest, and then says
that the node does, too.

`FairSpec` of `EventPath` has weak fairness of programs that have reserved a record,
of the reader, and of the end of each request, which the client's timeout
guarantees; strong fairness of the cases `Receive` and `Ticker`, since `select`
chooses among ready cases at random; and of requests that succeed: a collector
that never answers 200 gets nothing. All of it is of a process that runs (`Running`). That of `WatchedPids` is weak and of the
refresh alone, the ticker of `startProcessWatcher`. That of `Collectors` has strong
fairness of starting (PostgreSQL queues the waiters of a lock) and of the
refresh (its ticker tries again, and nobody holds the lock for ever), and weak
fairness of handlers. Faults are not fair and bounded. No fairness is assumed of
the digest.

### Findings

Two disagreements between the code and what its comments and documents say
are runs of the project:

1. `find_lost_mid_ingest`: a crash between the commit of a merge and the write
   of the alert loses the alert for good.
2. `find_predecessor`: a child that was watched by inheritance alone has never
   been in the mirror, so its attribution state is never dropped, and the process
   that gets its pid next is taken for it. It takes three processes: the runtime, the
   child that inherits its key, is attributed and ends between two scans, and the
   child that gets the same pid. There is a second way to the same state,
   for a pid that was in the mirror: an event still in the ring when `Forget` drops the
   state makes a new one, which nobody will drop.

The others found on the way are kept as configurations; TLC refutes the one
property of each.

| configuration (module) | property | what happens |
|---|---|---|
| `find_same_batch_blessing` (`MCDriftPipeline`) | `NovelDriftAlerted` | two new versions in one batch that both bring a behavior, and both qualify, are compared with each other; none is alerted on |
| `find_import_destroys` | `LearnedIsKept` | a second import drops what local events had added to an imported row |
| `find_import_not_baseline` | `ImportedIsBaseline` | on PostgreSQL an import inside a merge leaves an imported row that is not a baseline |
| `find_import_report` | `ImportReportIsTrue` | an import that lost to a local row reports `imported` |
| `find_blocked_other` | `BlockedListsDenied` | a deny's mark lands on the successor of the alert it was meant for |
| `find_switch_persist` (`MCEnforceManager`) | `SwitchIsPersisted` | two opposite switches at once leave the persisted one different from the one in use |
| `find_restart_forgets` | `RecordedStaysDenied` | a restart of the collector drops all verdicts; known behaviors are not fresh, so they do not come back |
| `find_rev_reused` (`MCEnforcement`) | `SameRevSameVerdicts` | a revision that was not persisted in time is given out twice, and a sensor passes the second verdicts over |
| `find_late_answer` | `LapsesWithinTTL` | a late answer extends the deadline from its arrival: up to TTL and timeout, twice the documented ten seconds |
| `find_full_map` (`MCSensorNode`) | `FittingIsApplied` | a map that cannot hold old and new keys together is never reconciled, because puts come before deletions |
| `find_mapped_address` | `VerdictsBite` | verdicts on IPv4-mapped addresses never match: written as AF_INET, looked up as AF_INET6 |
| `find_mirror_lies` (`WatchedPids`) | `StaysWatched` | a pid of the mirror that is reused by a runtime between two scans stays in the mirror and out of the kernel's map |
| `find_thread_exec` | `ThreadKeysRemoved` | a watched process executes a program from a thread that is not the leader: the thread's id ends without an exit and its key stays in the map until its id is that of a task again |
| `find_digest_doubled` (`Collectors`) | `DigestNotDoubled` | the lock is held while the digest is posted, not for the interval: a second replica posts it again ("digests and webhooks are not doubled", `docs/deployment.md`) |
| `find_report_put_back` | `NewerReportStays` | a refresh that read the old lockfile overwrites the report of a newer upload, until the next refresh |

## 4. Proofs

`tlapm` checks eight modules with proofs for all values of the constants.

### The drift pipeline

Its theorems rest on the assumptions `WindowAssumption` (MinObs positive),
`RuleAssumption` (rules speak of behaviors; always-on rules are high-risk ...)
and `PipelineAssumption` (batches and files have their types; SQLite has one
replica).

- `TypeCorrect`: `Spec => []TypeOK`. `TypeOK` is not inductive: `CommitMerge`
  applies `batch.groups` to the key of the transaction, so the invariant
  `TypeInv` adds `MergesItsBatch`, that a handler merges groups of its batch only.
- Rows. `RowsInv` says that one transaction at a time merges into a row, and that what it
  has read is what the row is when it commits. There is one exception: with PostgreSQL
  a merge that found no row has locked none, and an import may put one there. So the
  proofs know two kinds of row. `Own(k)`, never written by an import: these obey every
  theorem, whatever is imported around them. And all rows under `NoImportRace`, which is
  SQLite's single connection or no imports; `find_import_not_baseline` is the reason for
  that condition. From it `PromotionEarned`, `LocalRowsGrow`, `BaselinesStay`,
  `ImportsAreBaselines`. What a first import added a second one takes away
  (`find_import_destroys`), so that the sums below are about rows that are `Own`, and
  about all rows when `MaxImports = 0`.
- `LearnedInvariant`, and `LearnedIsStored` for `LearnedIsKept`: a row that is `Own` has
  the behaviors this collector observed for it, and no other.
- `BatchesHeldInvariant`, and `AcknowledgedStored`: `Stored(k)` is the set of batches that
  were acknowledged or that some handler has merged into row `k` and is not done with.
  Their behaviors are in the row and their counts add up to no more than its count,
  through failures, crashes and redelivery.
- `ConvergingInvariant`, and `Converges`: while nothing fails, the row equals
  `Promoted(MergedRow(k, Stored(k)))`, the merge of those batches in any order with one
  promotion at the end. It needs `OneAtATime`, that no two handlers have the same batch,
  that merges commute (`MergesCommute`), and that promoting now or later is the same
  (`LearnPromoted`).
- Sums and merges over a set of batches are folds. The library proves nothing about
  folds and its induction theorems take an operator, so `FoldProofs` does without: if
  two definitions of a fold disagreed somewhere, they would on a smallest set
  (`SmallestSubset`), where one step back they agree.
- `UpsertIsAtomic`: `Spec => BookSpec`, the transactions of `UpsertAlert`
  implement the abstract book. The strengthening `BookInv` says that locks
  exclude each other, that a handler without a lock carries the alert as `emit`
  made it, and that the row a handler has locked still is the one it merged
  into. `StepRefines` takes each step to a step of the book or a stutter.
- `SeverityIsKept`: by the refinement, an alert is critical, and would block,
  exactly when one of its behaviors says so.
- `RaceCostsOneRetry`: `Spec => []UpsertSettles`. Five attempts are never used
  up: `SettlesInv` says that a handler on its second attempt finds a row that
  cannot be pruned, since its alert is younger than the request.
- `BlockedMarksDenied`: `DenyInv` keeps track of the denies a handler has left and of the
  alert it found by one, to the mark on a row that may be a successor by then.
- `AlertedDriftIsReal`: `CarriesDrift` says of every update and alert in a handler's
  memory what `AlertedIsDrift` says of the table.
- `DriftAlertedInvariant`, and `DriftIsAlerted` under `NoImportRace`: drift is on the alert
  of its version or some handler carries it. Each step of the carrier takes it on
  (`CarriesOn`): no reaction is skipped, the retry does not give up (`SettlesInv`),
  merging into an alert keeps what was to be raised, and while nothing fails nobody
  stops listening (`QuietInv`), so no context is cancelled.
- `NothingIsKeptBack`, and `NothingUnreported`: of each alert the notifier was told, or a
  handler is about to (`Noted`); each observed behavior with a block rule is known to a
  manager, or in an update (`Tracked`). Behaviors that an import brought into a row are
  not fresh when they are observed, so the managers do not hear of those.
- `NovelAlertedOrBlessed` says without any condition on versions what becomes of a
  behavior that is new to a subject with a baseline: in an idle collector it is on an
  alert, or `Blessed`, which takes three versions, two of them baselines. `NovelInv` adds
  the handlers that still have to compare or to write (`Pending`). So with at most two
  versions of each subject in the batches (`TwoVersions`) nothing is blessed
  (`NovelIsAlerted`), and `find_same_batch_blessing` is what three can do.

### Learning

- `LoopMerges`: `Spec => []LoopIsMerge`, for all windows, sets of behaviors and timestamps
  and groups of any length (`LearningAssumption`: times and bounds are positive). `StatsInv`
  says that the counts of the behaviors add up to the events, that those with a count are
  the known ones, and how their times compare with the row's; `LoopInv` that after each
  event the row is the merge of the events so far into the row at the start, and that the
  fresh ones are listed once each.

### Enforcement

Its theorems rest on `VerdictAssumption` (`To4` maps addresses to addresses, 0 is
a port), `ManagerAssumption`, `SensorAssumption` and `AnswerAssumption` (bounds are
numbers, inputs have their types).

- `ManagerTypeCorrect`, `ExtendedIsCompiled`, `RevisionNamesVerdicts`: the manager's
  types, that extending verdicts by one behavior and compiling all anew agree, and
  that a revision names one set of verdicts while the process lives.
- `KillSwitch`: `Spec => []KillSwitchHolds` of the composition. The strengthening
  `ClockInv` relates the three clocks: while an answer that says on is under way,
  enforcement was on no longer ago than the request is old, and what is left of
  the deadline and the time since enforcement was on together never exceed TTL and
  the timeout.
- `SensorInvariant`: `SensorInv` says where `ReconcileEnforcement` stands - which
  maps are written, that nothing is armed meanwhile - that armed cgroups imply
  one whole policy in the maps, and what a hook under way may still find.
  `Isolation`, `NoUnlawfulDenial` and `NothingForgotten` follow from it.
- `Replacement`: `Spec => ReplacesAtomically`, a node implements `ScopedPolicy`:
  setting scopes or verdicts decides, disarming fails open, arming enforces, all
  other steps stutter because nothing is armed.

- `RevisionFaithful`: `RevInv` says that the revision and the verdicts of an answer
  under way, and of the node, were the manager's together at some time of its first
  process (`WasCurrent`); `CurrentOnce` is the lemma that this stays so, since the
  revision grows when the verdicts change.
- `NodeOfAnyCollector`: `Spec => Sensor!Spec`, where `Sensor` is the module
  `SensorProofs` with the manager's answers for those of any collector. Each step of
  the composition is a step of the node or leaves it alone (`SameHook`,
  `SameReconcile`, `SameLoops`), so everything proved of a node holds here.
- `OwnBehaviorOnly`: `Spec => []DeniesOwnBehavior`. `OwnInv` says of every copy of the
  verdicts - the manager's, the answer's, the node's, the maps' - that each
  service is denied what was recorded of it; `Isolation`, taken over from the
  node, says that an armed cgroup has the keys of one policy.

### Event path, pids, replicas, destinations

The event path's rest on `SizeAssumption` (capacities are positive numbers).

- `EventTypes` proves the types within `IInv`, whose other part, `SenderInv`, says
  where the sender's events are: nothing is in flight between requests, spool and
  buffer are empty during one, the buffer is shorter than `FlushAt`, and a request
  carries at most a full spool and a full buffer.
- `EventsAreCounted`, `EventsInOrder`: the sum and the order over `Held`, the
  concatenation of all the places an event may be in; each action moves events
  from one place to its neighbour, or gives up the first or the last. Only `Close`
  and `Ends` lose events without a trace: `ReaderInv` says that the ring gets nothing
  after the first, `EndIsFinal` that nothing else ends the process, and `HeldFits`
  that what either loses fits into `Capacity`; `LossInv` adds the two up.
- `Bounded` and `QueueIsImplemented`: sender and spool implement `RetryQueue` with
  `spool \o flight \o buffer` for its queue; `PostFails` with a full spool is an
  eviction, every other step of the sensor an arrival, an acknowledgement or a
  stutter.

Those of the replicas rest on `CollectorAssumption`, of the pids on `PidAssumption`.

- `MigrationsRunOnce`: a replica between check and commit holds the lock, so what it
  found not to be applied still is not; files are applied in order.
- `OneReplicaLeads`: whoever is in a loop's body holds its lock or has lost it.
- `NoKeyIsLeft`: `Spec => KeysAreAccounted`, an action property: a key that belongs to
  a task or group that lives, or to the mirror, goes on to, whatever the step, unless a
  thread that is not the leader executes a program (`NextAccounts`, with `ExitAccounts`
  and `ExecAccounts` for the steps that need care); and a new key is one of these
  (`NewKey`). `TaskInv` says that a leader keeps its id while its group has tasks.
- `BytesReadBack`, `PortsReadBack`, `DestinationFits`: the decimal renderings of all
  bytes and words are read back as what they were, without a leading zero, and no
  destination is longer than the buffer, so the masked index never wraps.

### Only model-checked

Of the safety properties of the passing runs, none. What TLC alone checks is temporal
and rests on fairness, that is on ENABLED, which is out of TLAPS's reach:
`RequestsEnd` and `BatchesAcknowledged` of the drift pipeline, `OffIsFinal` and `NodeFollows`
of enforcement, `HeldIsSent` of the event path, `RuntimeGetsWatched` and `GoneIsForgotten` of
the watched pids, `ReportCatchesUp` of the replicas.
The configurations `find_*` are counterexamples; their properties are false, and the
theorems above say under which condition they hold instead, where there is one.

## 5. Not modelled

- The dashboard, the CLI (both clients of the HTTP API without state of their
  own), demo and recordings, Helm charts and scripts, the Kubernetes and OSV
  clients (I/O), the rendering of digests.
- Coverage keeps what each sensor reported last; admission is a pure check of one
  request. Neither has steps that could interleave.
- Attribution proper: symbol tables, canonical paths and package names are
  functions over strings and files of `/proc`. The contexts of threads are read
  and written by one goroutine. The race of the version cache
  (`attribute/package.go`, a file read before a flush and stored after it) needs
  file systems of containers, and would fail the property `find_predecessor` is about.
- The notifier's queue: it drops by design and counts, and no state depends on
  whether a web hook was told. The event stream shows what passes by.
- The cap on the behaviors the manager tracks is modelled, but nothing says what
  should happen beyond it.
- The history of reports and their retention, and parsing of lockfiles.
- Of the C files under `src/bpf`, `vmlinux.h` (generated from a kernel's BTF) and the
  headers of `include/bpf` (libbpf's) are declarations of types and helpers that
  hold no behavior of Goodman: what the programs use of them is in the actions
  that use it. The program itself, `goodman.bpf.c`, is modelled but for walks of the
  user's stack, reads of user memory and the layout of records.
