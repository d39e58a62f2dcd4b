# speedtest-tracker in TLA+

TLA+ specifications of [speedtest-tracker](../src/README.md), a self-hosted
service that runs internet speed tests on a schedule, stores the results in
SQLite, streams progress to a web UI, pushes metrics and logs and sends alerts.
The modules are translated from the Go source; `PROJECT.json` names, for each
definition, the file and lines it stands for. Paths below are relative to
`src/internal/` unless they start with `src/`; `main.go` is
`src/cmd/speedtest-tracker/main.go`.

Contents: 1 the system, 2 the modules, 3 what is checked, 4 what is proved,
5 what the source says and does differently, 6 the plan, 7 what is not modelled.

## 1. The system

One process, many goroutines, one SQLite database with a single write
connection. What each part keeps, what it does, and what makes it correct:

| Part | State | Operations | Correct when |
| --- | --- | --- | --- |
| Runner (`runner/runner.go`) | `runs`, `finalizing`, `closing` under `r.mu`; a bounded job channel and one worker per queue; `enqueueMu` | `Enqueue`, `Cancel`, `cancelOrphan`, `execute`, `runTarget`, `finishQueue`, `Shutdown` | every run ends exactly once, with the status its results justify, whoever gets there first |
| Run and result store (`store/runs.go`, `results.go`, `reap.go`) | the `runs` and `results` tables | `CreateRun`, `SetRunStatus`, `InsertResult`, `ReapOrphanedRuns` | a terminal status is final; "done" means every target has one good row; nothing stays unfinished after a restart |
| Scheduler (`scheduler/scheduler.go`) | `cron`, `entries`, `stopped` under `s.mu`; `reloadMu` | `Reload`, `fire`, `skip`, `Next`, `Stop` | one cron instance lives, and it is the store's; nothing lives after `Stop` |
| Cron specs, overlap (`scheduler/cronspec.go`, `overlap.go`) | none | `ParseSpec`, overlap report | agree with a reference definition |
| Notifier (`notify/`) | a bounded queue, the configuration, `notification_state` rows | `OnResult`, `process`, `handleEval`, `fire`, `recover`, `clearStaleState`, `Close` | alerts follow the results, cooldown and quiet hours hold, no result vanishes uncounted |
| Settings (`settings/settings.go`, `api/settings.go`) | the `settings` table, subscribers | `Tx`, section readers, `Subscribe`, `PUT /settings` | no change is lost between the table and its consumers |
| Live reload and OIDC holder (`main.go`) | debounce timer, provider pointer, retry flag | `watchSettings`, `applyAuth`, `apply`, `retryOIDCBuild` | consumers end up with what is stored |
| SSE (`sse/`) | subscribers with bounded channels | `Subscribe`, `Publish`, `Close` | never blocks the runner, closes once |
| VictoriaMetrics / VictoriaLogs push (`vmpush/`, `vlpush/`) | a ring or buffer, counters | `OnResult` / `Handle`, the delivery loop, `Close` | every batch is pushed, failed or counted as dropped; `Close` returns |
| Targets, queues, revisions (`store/targets.go`, `queues.go`, `target_revisions.go`) | the `targets`, `queues` and `target_revisions` tables | create, update, delete, revert, restore; create, rename, delete a queue | a target's queue exists; what an edit overwrites can be brought back |
| Outage timeline (`store/outages.go`) | none | `Outages` | agrees with a definition by pairs of failures |
| Prune (`prune/`) | last pass | `Once`, `Run` | retention never removes what a run still writes |
| Auth, tokens, sessions, OIDC login (`auth/`, `oidcauth/`, `api/tokens.go`, `api/oidc.go`) | middleware configuration, token and session rows, the touch worker | requests, login, purge | a request is judged by one configuration; touches never block |
| Caches (`ooklaweb/`, `engine/ookla/servers.go`, `iperf3list/`) | server lists, single-flight calls | search, `Invalidate`, `Kick`, `RefreshNow` | waiters are released, an invalidated list is not served for ever |
| Engines (`engine/`) | none | `Run` | external processes; only their outcome matters here |
| HTTP API (`api/`), metrics, migrations, config, web UI | — | validate and forward | — |

Who talks to whom: the API and the scheduler's callbacks call
`Runner.Enqueue`; the runner's workers call engines, write the store, publish to
the SSE hub and hand each result to the notifier and the exporters; the API
commits settings, whose subscriber wakes `watchSettings`, which reconfigures the
scheduler, the engines, the notifier, the exporters, the auth middleware and the
OIDC provider; `main` starts all of them and stops them in a fixed order.

What is hard: the four ways a run can end race each other (`r.mu` is released
before the terminal write); `Enqueue` may fail after some queues already have
the job; `Reload` swaps the cron instance while callbacks and `Stop` run; the
notifier drops the oldest result without a lock and remembers alerts across
restarts; a settings section is read one key at a time while PUTs commit; the
OIDC provider is rebuilt by two goroutines; exporters are closed in the middle
of a retry; a PUT, a token revocation and a target edit check what they read and
write later; logins are in flight while sessions are purged. `PROJECT.json` lists the hazards one
by one, at the line where each bites, with the properties that would catch it.

## 2. The modules

| Module | Stands for | Composes |
| --- | --- | --- |
| `Runner` | the run engine over the runs and results tables | instantiates `RunLifecycle` for the refinement |
| `RunLifecycle` | what those tables promise their readers | |
| `Scheduler` | the scheduler, the handlers that reload it, what it sees of the runner | |
| `Notifier` | the notifier with its queue, worker and alert rows | |
| `LiveSettings` | PUT, subscriber, watcher, OIDC holder and retry loop | |
| `VmPush`, `VlPush` | the VictoriaMetrics writer, the VictoriaLogs shipper | |
| `SseHub` | the event hub and its stream handlers | |
| `ServerSearch` | limiter, cache, single flight and geocoder of the server search | |
| `ServerList`, `Iperf3List` | the two server lists and the settings pump that touches them | |
| `Prune` | the retention job and the deletions it makes | |
| `SettingsDoc` | GET and PUT of the settings document: masks, merge, rules, locks | |
| `Access` | who is admitted, the lockout checks, the tokens | |
| `Sessions` | OIDC login, callback, logout, expiry and the purge | |
| `TokenTouch` | the last-used times of tokens and their worker | |
| `Targets` | targets, queues and the change history | |
| `Overlap`, `Outages` | two algorithms over times, against their definitions | |
| `RunnerProofs`, `RunnerOutcomes`, `RunnerEvents` | theorems about `Runner`: ownership and bookkeeping; outcomes and the refinement; events | each extends the one before |
| `SchedulerProofs`, `NotifierProofs`, `LiveProofs` | theorems about `Scheduler`, `Notifier`, `LiveSettings` | extend those |
| `ServiceProofs`, `StoreProofs` | theorems about the services: exporters, hub, searches, settings document; retention, access, sessions, touches, targets, times | extend `MCServices`, where the properties that two services share are stated |
| `MCRunner`, `MCScheduler`, `MCNotifier`, `MCLiveSettings` | instances for TLC | |
| `MCServices` | the instance of the fourteen modules from `VmPush` on | extends all of them |

Conventions. A variable is a field, a table or a local that is live across a
blocking point; an action is the code between two points where another goroutine
can come in. A critical section of a mutex is one action unless the code blocks
inside it: `enqueueMu` and `reloadMu`, which are held across store calls, are
variables. Every store call is an action of its own and may fail. `X_m`, next to
`X`, is a plausible wrong form of `X` which nothing uses; the mutation checks put
it in the place of `X` and expect the property to fail.

### Runner

The processes are the callers of `Enqueue` and `Cancel`, one worker per queue
and the goroutine that runs `Shutdown`. `dbStatus`, `dbSchedule` and `results`
are the tables and survive a crash; `tracked` is the key set of `r.runs`, `st`
its `runState`s, `chan` the job channels. `Enqueue` is `create` (dedupe and
`CreateRun` under `enqueueMu`), `begin` (registration and the sends under
`r.mu`) and, when a queue is full, the unwinding; `execute` is the chain
`start`, `running`, `loop`, `test`, `recover`, `mark`, `finish` of a worker; the
finalization shared by everybody is `write`, `settle`, `resign`. A `Crash` keeps
the tables and the restart's reaper fails what it finds. Targets of one queue
run in any order (the code's order is that of the request), and `endFinalize`
publishes the event and clears the finalizing mark in one step, which loses
nothing because nobody else can publish for that run.

### Scheduler

The robfig/cron instance is external and modelled by what the code relies on:
`Start` makes an instance live, `Stop` on one that is not live does nothing,
entry ids count from 1 in every instance. Times are left out: a live entry may
fire at any moment. `fire` is three steps (dedupe check, `Enqueue`, skip row), as in
the code.

### Notifier

Time is a counter modulo a small day with a quiet window that ends at midnight,
so the wrap of `quietNow` happens. `OnResult`'s three selects are three actions
of a sender without any lock. `told` is a history variable: what the channels
last said about a target and metric, which is what the recovery and cooldown
properties speak of.

### LiveSettings

A PUT commits and then notifies its changed keys one by one, each as `mark` and
`markWake`; the pump is `pumpWake`, `pumpTake`, `pumpEmit`. The watcher and the
retry loop share `readKey` (one query per key), and `apply` of the OIDC holder
(`applyOther`, `applyUnchanged`, `applyChanged`, `discover`, `storeProvider`,
`clearProvider`), because both run that code, at the same time.

### The services

Fourteen smaller modules, whose operators and variables begin with a prefix of
their own (`Vm`, `Vl`, `Sse`, `Ss`, `Sl`, `I3`, `Pr`, `Doc`, `Ac`, `Sn`, `Tt`,
`Tg`, `Ov`, `Ou`), so that `MCServices` can extend all of them. Each has its
`Init`, `Next`, fairness and properties and could be checked alone. In the
program they run beside one another; what one sees of another (rows that a
runner writes while retention deletes, a settings change that drops a list) is
in the module that needs it, so interleaving the modules would only multiply
their states. A behaviour of `MCServices` therefore follows one service, chosen
from `Focus` in the initial state, and leaves the others at rest in one initial
state.

* `VmPush`. `OnResult` is the sends of a sender inside `enqueueMu`, with the
  worker taking from the ring meanwhile; the worker is `deliver` with its
  backoff, `Close` the stop channel, the cancellation and the drain with
  `deliverBounded`. `vmFailed` counts attempts, as the code does.
* `VlPush`. A line is its number; `vlDiscarded` is a history variable for the
  one loss the code counts nowhere (`vlpush/vlpush.go:369`).
* `SseHub`. Channels are Go channels: a send on a closed one sets `ssePanic`.
* `ServerSearch`. A request walks through limiter, cache, flight, direct search,
  geocoder slot and second search; lists are reduced to thin or plenty.
* `ServerList`, `Iperf3List`. A list is what it was fetched for, which is what
  staleness is about. Reading the feed's setting may fail, in the watcher, which
  then kicks nobody, and in `RefreshNow`, which then finds no feed; `i3Failed`
  notes either.
* `Prune`. A pass reads its settings and its time once and deletes in batches.
* `SettingsDoc`. One key of each kind of rule stands for its section; a secret is
  a pair with the destination it was entered for, so that a leak is visible. The
  secret of the export section has no destination in the code and none here.
  `docAt` stamps the last PUT of each key with the number of commits when it read
  and when it was in, which is what "these two overlapped" means in `DocOverlap`.
* `Access`, `Sessions`, `TokenTouch`. Admission is a predicate of a client and a
  configuration; what is stored and what the middleware runs on are two variables.
  Cryptography, cookies and addresses are identity and membership. `acAt` stamps
  keys and tokens as `docAt` does; a session's row notes the purges behind its
  insert and the rebuilds behind its login's load of the provider (`purges`,
  `builds`); `ttWrites` counts the writes of the worker.
* `Targets`. A handler reads in one step and commits in another; foreign keys are
  modelled as the schema has them, which for `queue_id` is not at all.
* `Overlap`, `Outages`. The loop over fires or rows is the state machine; the
  reference definition quantifies over all pairs of times.

## 3. What is checked

| Run | Instance | Shows |
| --- | --- | --- |
| `runner_core` | 2 runs, 2 targets in 2 queues of capacity 1, 2 clients, a schedule | one owner per run, orphan cancellation only of dead runs, exact pending counts, "done" only when complete, cancellation sticks, one active run per schedule, events agree with the rows and come in order |
| `runner_faults` | 2 runs, 2 targets in one queue, a failing store write, a crash with restart, panics | nothing stranded, at most one row per target, and the refinement of `RunLifecycle` |
| `runner_live` | 2 runs of one target, panics, Shutdown; fairness | every run ends, Shutdown returns and leaves nothing tracked |
| `runner_retry` | one failing write | **violated**: see section 5 |
| `scheduler_reload` | 2 schedules, one with a broken expression, 2 handlers, 2 edits, one failure, a callback | no leaked instance, the settled instance is the store's, `Next` answers for its own schedule, a fire without a row was absorbed by a run that began after its check, or lost to a failure or a deletion |
| `scheduler_stop` | 1 schedule | **violated**: see section 5 |
| `notifier` | 2 senders, queue of 1, 3 results, 3 ticks of a 3-tick day, one failure or crash | alert rows are current, nothing lost uncounted, `Close` drains, recovery follows an alert, cooldown holds |
| `live_settings` | 2 PUTs of 2 requests, 4 keys in 2 sections, channel of 1, one failing query or discovery, shutdown | no change is lost; the watcher leaves the right provider |
| `live_settings_live` | the same without failures; fairness | the consumers converge; the pump goroutine ends |
| `services` | one service at a time, see below | the safety properties of the fourteen service modules |
| `services_live` | eight services, smaller bounds; fairness | what is closed ends, what is asked is answered, what changed is seen |
| `sessions_outlive` | 2 browsers, 3 configurations, 2 logins | **violated**: see section 5 |

A property of a run is often the conjunction of what several named formulas say
about one hazard (`OutcomeHolds`, `EventsAgree`, `OneGoodRow`, `ShutdownSafe`,
`ResultsAccounted`, `AlertProtocol`, and those of the services); each conjunct is
defined and commented by itself. For the services they are:

| Property | Conjuncts |
| --- | --- |
| `VmSafe`, `VlSafe`, `SseSafe` | everything below about the module |
| `CachesSound` | `SsTypeOK`, `SsNoRedundantFetch`, `SsCachedIsComplete`, `SsSlotsApart`, `SsRateKept`, `SlCacheCurrent`, `I3ChangeCarried` |
| `DocSafe` | `DocNoMask`, `DocSecretsStay`, `DocRuleKept`, `DocBinByOperator` |
| `DocPutExact` (action) | `DocKeepsLocked`, `DocEchoNoop` |
| `AccessSafe` | `AcUsable`, `AcNotLockedOut`, `SnOnlyOverlapping`, `TtCoalesced` |
| `TablesAgree` | `TgQueueExists`, `TgHistoryCurrent`, `PrPassComplete` |
| `TimesExact` | `OvFirst`, `OvWarns`, `OuExact` |
| `RowsKept` (action) | `I3NeverWiped`, `PrResultsKept`, `SnEndsOnlyWhenDue`, `TgHistoryKept` |
| `ClosingEnds` (liveness) | `VmStops`, `VlStops`, `SseStreamsEnd`, `TtCloses` |
| `WorkEnds` (liveness) | `SsAnswered`, `SlPumpGoesOn`, `I3ChangeSeen`, `PrPassEnds` |

What they show, by module:

| Module | Instance | Properties |
| --- | --- | --- |
| `VmPush` | 2 senders, ring of 1, 3 results, 2 reconfigurations | every batch is pushed, dropped, refused or still held (`VmAccounted`), the newest is not the one dropped (`VmNewestKept`), `Close` leaves nothing from before it and returns (`VmClosedIsDrained`, `VmStops`) |
| `VlPush` | 2 loggers, queue and batch of 2, 5 lines | exact accounting, lines at most once and in order, `Close` drains and returns (`VlAccounted`, `VlInOrder`, `VlClosedIsDrained`, `VlStops`) |
| `SseHub` | 2 clients, buffer of 1, 3 events | no panic, every loss counted, streams end (`SseNoPanic`, `SseDropsCounted`, `SseStreamsEnd`) |
| `ServerSearch` | 3 requests for 2 postcodes, cache of 1 | no fetch of what a fetch has just brought, only complete answers cached, slots apart, the rate kept, every request answered |
| `ServerList` | 2 requests, 2 invalidations | nothing older than an invalidation is served after it; the pump gets on |
| `Iperf3List` | 2 feeds, 2 changes, 2 API calls, any read of the setting failing | a good list is never wiped; a change is on its way to the loop, and read by it without the daily tick, unless the watcher or the loop has failed to read the setting since |
| `Prune` | 2 runs, a result, 3 days, batch of 1, one failure | results go only by their own retention; a clean pass is complete; a pass ends |
| `SettingsDoc` | a browser and a token client, 2 PUTs | no mask is stored; a channel's secret never goes to another destination (nothing of the kind holds of an export section's secret, which follows any url); a rule between two keys is broken by nothing but an overlap of the last PUTs of these two; binaries are not set by tokens; pinned keys stay, but for the legacy header behind the auth type; an echo of the current document changes nothing but that header |
| `Access` | 2 clients behind 2 proxies, 2 tokens, 3 writes, all of which may overlap | somebody is admitted, unless two revocations, or a revocation and a change of mode, or the mode and what it needs, overlapped; whoever changed the mode on current settings is admitted |
| `Sessions` | 2 browsers, 3 configurations, 2 logins, one failure | once a change is applied without a failure, a session of other settings was inserted after the purge by a login that had loaded the provider before it was replaced; a good session ends only for a reason |
| `TokenTouch` | 2 requests, queue of 1, 4 half minutes | in all at most one write of a token for each minute that has begun, however late the worker; `Close` returns |
| `Targets` | 2 clients, 2 targets, 3 queues, history of 2, 4 writes | the queue of a target exists; the history is current and loses only what is old |
| `Overlap` | 2 schedules, up to 4 fires in 7 times, cap of 3 | the first collision is found, and a warning is given exactly when one is within the window and the cap |
| `Outages` | 2 targets, times 1, 2, 3, 6, gap 2, 3 results, a skipped run, at most 2 incidents returned | incidents are exactly the maximal chains |

Why the bounds are enough to be interesting. Two clients and two queues are the
least that let a Cancel meet an Enqueue that has filled one queue and not the
other, two runs that let one wait behind the other in a full queue. One failing
write and one crash are placed anywhere by TLC; the code keeps no memory of an
earlier failure, so a second brings no new state of the program by itself. Two
edits make two overlapping Reloads. Three results on a queue of one make two
senders meet at a full queue while the worker holds the third. Two PUTs are
enough for a commit between any two reads of a section and for a batch that is
coalesced behind a full channel; the channel has one slot in the model and
sixteen in the code, which only makes the pump block sooner. The services have
two of each actor, queues and caches of one or two, and one more event than fits,
so that every limit is reached; the clock passes the deadline of a login, of a
short session, of a cache entry and of a touch;
gaps and windows are placed so that the times fall before, on and after them.
`services` has 0.9 million states, the sum of those of the services. The
liveness run has smaller bounds, because TLC's check of strong fairness works on
whole graphs; what it needs (a full queue, a retry, a change in the middle of a
refresh) still happens. `MaxTrouble` bounds
failures and crashes of a run together. Symmetry is used for interchangeable runs, clients,
handlers, senders and requests, and never with a liveness property. Deadlock is
not checked: with all bounds used up a system that serves requests rests.

Fairness. `Runner!FairSpec` gives weak fairness to each goroutine's own steps:
the Go scheduler runs what is runnable, and SQLite calls have a busy timeout. A
client that waits for `enqueueMu` gets strong fairness: Go's mutex hands itself
to a waiter that has starved for a millisecond. Engines are not assumed to
return; `EveryRunEnds` has it as a premise (`EngineFairness`: a test that heeds
`Config.TestTimeout`), `ShutdownReturns` has not. `LiveSettings!FairSpec` is weak
fairness of notifying requests, of the pump and of the watcher; queries and the
discovery have timeouts. Nobody is obliged to send a PUT, cancel a run or shut
down. The services state their own: weak fairness of workers and of requests in
flight, each of which has a timeout, and strong fairness where a `select` or a
mutex chooses among what is ready again and again (a closed channel beside a
filled one, an expired context beside a retry, the kick beside the tick, a waiter
for the list's mutex). Endpoints, geocoders and feeds may fail for ever.

## 4. What is proved

With TLAPS, for every value of the constants: any sets of clients, handlers,
queues, targets, runs and schedules, any capacity, size and interval, any number
of edits, failures and crashes. Every safety invariant and every action property
a passing run checks is a theorem, and so is the refinement.

| Module | Theorem | States |
| --- | --- | --- |
| `RunnerProofs` | `TypeCorrect` | `Spec => []TypeOK` |
| | `SingleOwner` | `[]OneOwner`: at most one goroutine owns the end of a run, which is marked finalizing exactly while it is owned, and not tracked |
| | `OrphansAreDead` | `[]OrphanIsDead`: `cancelOrphan` takes no run that is tracked, owned, or between its row and its registration |
| | `PendingIsExact` | `[]PendingMatchesJobs` |
| | `NoRunStranded` | `[]NothingStranded` |
| | `ShutdownIsSafe` | `[]ShutdownSafe` |
| | `NoOverlappingRuns` | `[]OneActivePerSchedule` |
| `RunnerOutcomes` | `OutcomesHold`, `RowsAreGood` | `[]OutcomeHolds`, `[]OneGoodRow` |
| | `Refinement` | `Spec => RefinesLifecycle` |
| `RunnerEvents` | `EventsMatchTables`, `EventsComeInOrder` | `[]EventsAgree`; the action property `EventsInOrder` |
| `SchedulerProofs` | `SchedulerTypes`, `NoInstanceLeaks`, `NextAnswersForItsOwn`, `FiresAreAnswered`, `ScheduleMatchesStore` | `[]TypeOK`, `[]NoLeak`, `[]NextIsOwn`, `[]FireIsAnswered`, `[]SettledMatchesStore` |
| `NotifierProofs` | `NotifierTypes`, `ResultsAreAccounted`, `FiringFollowsResults`, `AlertsAlternate` | `[]TypeOK`, `[]ResultsAccounted`, `[]FiringIsCurrent`; the action property `AlertProtocol` |
| `LiveProofs` | `LiveTypes`, `ChangesArrive`, `ProviderFollows` | `[]TypeOK`, `[]NoChangeLost`, `[]ProviderCurrent` |
| `ServiceProofs` | `NoBatchLost`, `LinesShippedInOrder`, `StreamsAreSound` | `VmSpec => []VmSafe`, `VlSpec => []VlSafe`, `SseSpec => []SseSafe` |
| | `SearchIsSound`, `CachesAreSound` | `SsSpec => []SsSafe`; `SsSpec /\ SlSpec /\ I3Spec => []CachesSound` |
| | `DocumentIsSafe`, `PutsAreExact` | `DocSpec => []DocSafe`; the action property `DocPutExact` |
| `StoreProofs` | `AccessIsSafe` | `AcSpec /\ SnSpec /\ TtSpec => []AccessSafe` |
| | `TablesDoAgree` | `TgSpec /\ PrSpec => []TablesAgree` |
| | `TimesAreExact` | `OvSpec /\ OuSpec => []TimesExact` |
| | `RowsAreKept` | `I3Spec /\ PrSpec /\ SnSpec /\ TgSpec => RowsKept`, an action property |

The theorems about services are about the services' own specifications running
side by side in any interleaving, not about `MCServices!Spec`, in which one of
them moves.

### Assumptions

The named `ASSUME`s of the modules and nothing else. They say that capacities,
batch sizes and limiter parameters are positive and other bounds natural
numbers; that `QueueOf`, `Class`, `Order` and the initial tables have the types
their names suggest; that targets and queues of the runner and skipped runs of
the outage scan are finite; that a result row belongs to one run; and that the
values standing for "none" (`None`, `DocNil`, `DocMask`, `TgNone`, `OuNone`,
...) are none of the values they are told apart from. Each holds of the program
by the types of its fields. TLC evaluates them in every run.

### The invariants

A property is seldom inductive as it stands. What each needed:

* `ClaimInv` (`RunnerProofs`). `OneOwner` and `OrphanIsDead` with: who is inside
  `enqueueMu`'s section holds it; a run between `CreateRun` and registration is
  in neither map; whatever is in a map has a row. One lemma for each way a step
  can touch ownership (`OwnersKept`, `OwnerAdded`, ...), then one step per action.
* `JobInv`. A queue never has two jobs of a run, an unregistered run has none, a
  tracked run has at least one, and no run is created without targets; then
  `finishQueue`'s decrement and `Enqueue`'s unwinding keep the count exact.
* `StopInv`. From the moment `closing` is set nothing is registered, so the list
  of stuck runs that `Shutdown` reads covers all that is tracked.
* `SchedInv` (of `Runner`). Between the dedupe check and the insert no run of the
  schedule becomes active.
* `OutcomeInv` (`RunnerOutcomes`). A dead process tracks nothing (`DownInv`);
  tracked and owned rows are open (`LiveInv`); a run not started has no row
  (`StartInv`); the owner of a cancelled run writes "canceled" (`CancelInv`); a
  target that waits or is in flight has no row (`ResInv`); while nothing has
  failed, the targets of the queues that are finished have their good row
  (`DoneInv`), which is what the last queue relies on when it writes "done". The
  refinement takes its step simulation from the same invariant: the initial
  state maps to the initial state, and each action to a step of `RunLifecycle`
  or a stutter.
* `SaidInv`, `TrueInv`, `CurInv`, `CountInv` (`RunnerEvents`). What has been
  published about a run, that an owner publishes what it has written, which
  target a worker has in hand, and that the done count of a run that may still
  succeed is the number of targets no queue has yet to count.
* `SchedInv` (of `Scheduler`). `reloadMu`'s holder (`Mutex`); no more instances
  than edits (`Counted`), so that a new one is unlike all others; entries stay
  what they were (`Instances`); the old instance of a Reload is not the current
  one (`Kept`); what a callback captured (`Fired`); and, at every place a Reload
  can be, that what it has read or built is the store's unless another Reload is
  to come (`Current`).
* `NotifierInv`. The account of the queue with the senders that hold a result
  (`Queued`), types of rows and locals (`Stored`, `Working`), the alert row of
  each metric in the middle of an evaluation (`Account`, `FailedBreach`), and
  that a row with a time is an alert that was sent then, while a message is on
  its way as well (`Mentioned`).
* `LiveInv`. Where a change can be on its way: a request's list, the pending set,
  the pump, the channel, or a section being read for a key not read yet
  (`Delivered`); and what a rebuild in progress is built from (`Provided`).
* `VmInv`, `VlInv`. Only a holder of `enqueueMu` has a batch in hand, one at a
  time; queue, buffer and hand of the shipper rise together in line numbers.
* `SseInv`. A subscribed channel is open, one that is closed is no new stream's,
  and what is due, waiting or got are published events, so that the missed ones
  can be counted.
* `SsInv`, `SlInv`. Who stored an entry is past its store, and a failed step of a
  flight is remembered until then; a request holds a geocoder slot while it
  sleeps; what the limiter let through since any moment, with the tokens left,
  fits into the burst and the time that has passed; a fetch holds the list's
  mutex and belongs to the current generation.
* `DocInv`. The stored document has no masks and each secret is of its host; a
  document a client holds has only masks; a PUT between reads and commit writes
  what is fit to be stored, whatever is committed before it, and a rule its own
  values break is broken with a key that was written since it read, so that their
  stamps overlap (`DocCommitKeepsRules`). An echo is resolved
  entry by entry, look-alike Apprise URLs included (`DocEchoURLs`).
* `AcInv`, `SnInv`, `TtInv`. What a change was checked against is what is
  stored, but for the keys and tokens stamped later than its read; a cookie
  names its own browser's session, every row was written after the last purge,
  and a provider a login or a row has from after the last rebuild is the one in
  place; the writes of a token that were made, are queued or about to be queued
  fit into the minutes up to the time that was noted for it.
* `TgInv`. The versions kept of a target are the last `TgKeep` of an unbroken
  numbering, and a request in flight names a target with a history.
* `PrInv`, `I3Inv`. Nothing is left before the cutoff of a phase that is over; a
  list to be stored was read from a feed; a change that was not read is in a
  notification, a kick or a read to come, or has met a failure.
* `OvInv`. No firing the walk has left behind is near to one ahead.
* `OuInv`. The incidents returned are whole, the open one may only grow, and each
  failure that has been read lies in one of them. Chains of failures that overlap
  are one chain (`OuChain`, `OuCut`, `OuUnique`), so there is one answer.

Definitions were written so that they can be reasoned about: what the code does
in a loop over two lists is stated by rank (`EntriesOf` in `Scheduler`,
`DocHit` in `SettingsDoc`) instead of by recursion.

### Only model-checked

Liveness (`EveryRunEnds`, `ShutdownReturns`, `Converges`, `PumpExits`,
`ClosingEnds`, `WorkEnds`): fairness and
`ENABLED` are outside this prover. That the three `violation` runs fail. That the
invariants are not vacuous: the mutation checks, one for every property of a
passing run, each find the property violated by a changed definition.

## 5. Where the code and its comments differ

Each is a run that TLC refutes, with the quoted line in `PROJECT.json`.

* `runner_retry`: `setRunStatus` says it retries a failed write once. Outside
  tests the second attempt is never made (`err` is still set when the guard is
  evaluated again), so one failed write strands the row until the next restart
  or orphan cancellation.
* `scheduler_stop`: `reloadMu` is said to keep a Reload from resurrecting a cron
  after `Stop`. `Stop` does not take it, and a Reload between its swap and
  `next.Start()` starts an instance nobody stops: the trace goes on until `Stop` has
  returned and the Reload is over, with the new instance live.
* `sessions_outlive`: the watcher deletes all sessions on a change of the auth
  settings, "so nobody stays logged in under a config that no longer admits them".
  A callback that loaded the old provider inserts its session after the deletion,
  under the old settings' allow list, and the middleware honours it until it
  expires. `SnOnlyOverlapping` says that no other session survives.

Smaller observations, met while modelling and not stated as runs:

* with `notify_always` and alerts on failure both on, a failed result inside the
  cooldown of the failure alert gets neither alert nor summary
  (`notify/notifier.go:230-235` says a summary for every result);
* a successful result of an engine that did not measure a direction clears that
  metric's firing state;
* `deleteTarget` reloads nothing, so a schedule whose last target went keeps its
  cron entry, with the deleted id, until the next Reload;
* `Scheduler.Stop` waits for the callbacks of the current instance, not for those
  of one a Reload has replaced;
* `main.go:439` says schedules without a timezone follow the general setting;
  `api/schedules.go:67-68` and `scheduler/cronspec.go:37-38` use UTC, as the
  repository's README says;
* a fire that passed the dedupe check is absorbed without a skipped row by a run
  another caller creates before its `Enqueue`, although
  `scheduler/scheduler.go:121-124` says that anything that prevents the run from
  being queued is recorded; `FireIsAnswered` allows this and nothing else;
* a key pinned by the environment is said to be refused by the API
  (`settings/env.go:52-55`), but a PUT of `vm_auth_type` also clears
  `vm_auth_header`, which the lock check does not count as written
  (`api/settings.go:531-536`, `753-755`); `DocKeepsLocked` has it as its one
  exception;
* a changed feed "takes effect immediately rather than on the next 24h tick"
  (`main.go:365-369`), unless reading the engines section fails in the watcher,
  which goes on without a kick, or in `URLFunc`, whose empty answer is taken for a
  disabled feed; the change then does wait for the tick;
* the OIDC retry loop may store a provider after the watcher has cleared it for
  another mode (`main.go:164-165`, `219`), and `ensureOIDCRetry` (`main.go:260`)
  does nothing while an ending loop has not yet cleared its flag;
  `ProviderCurrent` is stated for what the watcher alone rebuilt;
* when the Reload after a timezone change fails, the notifier keeps its old quiet
  hours (`main.go:441`), with a log line;
* two overlapping PUTs can break the rule that an enabled exporter has a URL
  (`api/settings.go:1543-1545`); two overlapping revocations can leave no token
  (`api/tokens.go:82-84`): `DocRuleKept` and `AcUsable` say which overlaps do, and
  that nothing else does;
* the secret of an export section stays stored when a PUT changes its url
  (`api/settings.go:516-541`), while a channel's does not
  (`api/settings.go:1219-1224`);
* sending the settings document back clears a legacy auth header
  (`api/settings.go:522-536`; the comment there explains why);
* in forward mode with `allow_tokens`, a stale bearer token denies a request the
  proxy header alone would admit;
* a touch that met a full queue is not tried again for a minute;
* `ServerList.bin` is fixed at construction, and `Invalidate` waits on a mutex
  that is held while `speedtest -L` runs, and the settings pump with it;
* a refresh of the iperf3 list that read an older URL may overwrite the list of a
  newer one; `RefreshNow` reads the time and the count separately;
* a geocoder request may start late, so that two starts can be closer than their
  slots; a panic in a search is passed on and ends the process;
* a restore that read a deletion's snapshot before another restore, edit and
  deletion inserts the older one; the history keeps both
  (`api/revisions.go:141-144`);
* `targets.queue_id` has no foreign key: only the joined read-back in the
  transaction notices a queue that was deleted after validation;
* the overlap warning does not see collisions behind the 2000th fire
  (`scheduler/overlap.go:13`);
* a panic of a result sink inside the deferred recovery of `execute` ends the
  process; the model has it as a crash.

## 6. The plan

Done: `Runner` with `RunLifecycle`, `Scheduler`, `Notifier`, `LiveSettings`, the
fourteen services, and a theorem for every safety and action property that a
passing run checks. To come:

1. The rotation cursor (`runner/rotate.go`) in `Runner`, and the order in which
   `main` stops its parts as one model.
2. Abstract specifications: a lossy counted queue that the notifier's queue and
   the exporters' ring both implement, and a register that its readers reach in
   the end, for the settings; the refinements proved as that of `RunLifecycle`.

## 7. What is not modelled, and why

Measurements and output parsers of the engines, message texts, encodings of
metrics and log lines, HTTP requests to channels and exporters, listing, export
and statistics queries, metrics exposition, and the endpoints that send a test
message: they compute or do I/O and keep no state others rely on. The cron
library is external: a schedule is when it fires. Migrations, environment
configuration and the seeding of defaults run before anything is concurrent.
The web UI is a client. The cryptography of the OIDC login is out of a model
checker's reach. Progress events of a running test carry no state. The other
unmodelled parts are in the plan.
