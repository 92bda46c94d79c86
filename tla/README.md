# Houndarr in TLA+

Houndarr is a self-hosted scheduler (Python, asyncio, SQLite). It asks Sonarr, Radarr,
Lidarr, Readarr and Whisparr instances (the "*arr"s) for the records they still want, and
sends them a few search commands per cycle: slowly, politely and without repeating itself.
This directory models its engine, its database's upgrades, the life of its process and the
stateful parts of its web application, model-checks them on small instances with TLC and proves
their central invariants with TLAPS for every value of the constants.

Paths below are relative to `src/houndarr/` of the repository unless they start elsewhere.

## 1. Inventory

### Components, their state and their operations

| Component | Source | State | Operations | What makes it correct |
|---|---|---|---|---|
| Task supervisor | `engine/supervisor.py` | `_tasks`, `_manual_runs`, `_prime_tasks`, `_snapshot_task`, `_run_locks`, `_manual_error_open`, `_last_cycle_end` | `start`, `stop`, `start_instance_task`, `stop_instance_task`, `reconcile_instance`, `trigger_run_now`; the loop, run-now, prime and sweep tasks | one loop per enabled instance and none for others; cycles of an instance exclude each other; locks never leak; nothing runs after `stop` |
| Reconnect state machine | `engine/retry.py` | `ReconnectState.in_retry`, local to a loop | `run_with_reconnect` | one error row and one recovery row per outage |
| Search cycle | `engine/search_loop.py` | offsets, the random decks, per-pass sets, the download queue cached for a cycle | gates, missing, cutoff and upgrade pass, dispatch and record | the hourly cap; one search per item a cycle; earned retries; honest log rows; no starvation |
| Candidates, pass configuration | `engine/candidates.py`, `engine/config/search_pass.py` | none | build a candidate | data |
| Adapters | `engine/adapters/` | none | adapt records, dispatch, upgrade pool, reconcile sets | the id a search stamps is the id the reconcile set holds |
| HTTP clients | `clients/` | none | pages, totals, queue, commands, ping | typed failures |
| Cooldowns | `repositories/cooldowns.py`, `services/cooldown.py` | `cooldowns` table, two LRU throttles | upsert, "is on cooldown", throttle | an active row blocks every pass |
| Cooldown reconcile | `services/cooldown_reconcile.py` | `cooldowns` table | delete rows of items that left the lists | no row of a wanted item is lost, stale rows drain |
| Search log | `repositories/search_log.py` | `search_log` table | insert, hourly count, gate queries, purge, clear | the rows the engine reads back mean what they say |
| Instances | `repositories/instances.py`, `services/instances.py`, `services/instance_submit.py` | `instances` table | create, update, delete, toggle, offsets, snapshot | connection columns enter together, as they were verified |
| Instance routes | `routes/settings/instances.py`, `routes/api/status.py` | none | one coroutine per request | the registry follows the table |
| Time window | `services/time_window.py` | none | validate, parse, "is within" | midnight wrap |
| Dashboard | `services/metrics.py`, `services/widget_metrics.py` | aggregate cache, 20 s | gather, expire, invalidate | shows no older state than promised; a card does not contradict itself |
| Log page | `services/log_query.py`, `routes/api/logs.py` | none on the server; cursor and page in the browser | query, "Load older", head poll | no row is left out |
| Admin, lifespan, retention | `services/admin.py`, `app.py`, `bootstrap.py` | `app.state`, the key file | factory reset, clear logs, reset policy, start and stop of the process, daily purge | nothing runs on a wiped database; every reset and kill ends in a serving process |
| Database, migrations | `database.py` | the file, a connection pool, `schema_version` | schema, 21 migrations, self-heal | a kill in a migration run is harmless |
| Update check | `services/update_check.py` | seven settings rows | poll, check now, toggle | the ETag never certifies settings that lag behind |
| Changelog | `services/changelog.py` | a last-seen version | show | data |
| Authentication | `auth/` | session secret, attempt windows, setup flag | login, setup, middleware, sweep | out of scope |
| Settings, validation, pages, assets, packaging | `config.py`, `services/*_validation.py`, `routes/pages.py`, `templates/`, `charts/` | none or key-value rows | parse, validate and render | only validated forms are written |

### How they interact

* The process is one asyncio loop. Code between two awaits is atomic; every database call,
  HTTP call, sleep and lock acquisition is an await at which any other task may run or a
  cancellation may arrive.
* HTTP requests change the `instances` table and then call the supervisor
  (`reconcile_instance`, `stop_instance_task`, `trigger_run_now`) and drop the dashboard's cache;
  nothing serialises two requests about the same instance.
* Each enabled instance has a loop task that runs a search cycle, sleeps and repeats. Run-now
  tasks, snapshot primes and the ten-minute sweep take the same per-instance lock; the sweep
  also reconciles the cooldown rows against the *arr's lists.
* A cycle reads the *arr's lists page by page, reads cooldowns and old log rows to decide, and
  writes cooldowns, log rows and offsets. The dashboard's "offline" banner is derived from the
  newest log row of an instance, so error rows must be answered by recovery rows.
* `Supervisor.stop` is called at process exit, when the server has finished its requests, and
  by a factory reset, which is itself a request and runs beside others; the reset then deletes
  the database and the key, makes them anew and starts the loops again.
* A start makes the schema, purges old log rows, climbs the ladder of migrations from the stored
  version, stamps it and heals what a cut ladder left.

### What is hard

Interleaved requests over stale reads; cancellation at every await; two channels that report
and answer one outage; a lock shared by four kinds of task; a count read once and used over
many dispatches; a parent (season, artist, author) reached through many records, pages and
lists; old log rows that drive new searches; three steps per dispatch that may be cut apart;
offsets and decks that must not starve anybody; DDL that is durable at once next to DML that
waits for a commit; a reset that fails half-way; a cache entry dropped while it is being made;
settings written one by one under an ETag that vouches for all of them. `PROJECT.json` lists each
hazard at its line with the properties that guard it, or the reason none does.

## 2. Modules

| Module | Lines of code it models | Role |
|---|---|---|
| `Supervisor` | `engine/supervisor.py`, `engine/retry.py`, the handlers of `routes/settings/instances.py` and `routes/api/status.py`, the enabled column of `services/instance_submit.py` and `repositories/instances.py` | tasks, locks, requests, outages, shutdown, crashes |
| `SearchCycle` | `engine/search_loop.py`, the queries of `repositories/search_log.py` and `repositories/cooldowns.py` it decides by, the page request of `clients/base.py` | one cycle of one instance with time and the *arr moving around it |
| `UpgradeRotation` | `fetch_upgrade_pool` of `engine/adapters/sonarr.py` (its twin in `whisparr_v2.py`), `_run_upgrade_pass` of `engine/search_loop.py`, the read-then-lock order of `engine/supervisor.py`, the offsets in `services/instance_submit.py` and `services/admin.py` | the upgrade rotation of one instance across cycles |
| `CooldownReconcile` | `services/cooldown_reconcile.py`, `_refresh_one_snapshot`, `fetch_reconcile_sets` of every adapter, `paginate_wanted` | the cooldown rows against the *arr's lists |
| `SchemaUpgrade` | the promise of `database.py` | the abstract specification: converted once and together |
| `Migrations` | `database.py`, the order of calls in `app.py` | the start of the database, statement by statement, under kills; implements `SchemaUpgrade` |
| `Process` | `app.py`, `services/admin.py`, `routes/admin.py`, `bootstrap.py`, `crypto.py`, the pool of `database.py` | lifespan, key, loops, factory reset |
| `Dashboard` | `services/metrics.py`, `services/widget_metrics.py`, `routes/api/status.py`, `routes/api/widget.py` | the aggregate cache against the writes it must follow |
| `LogFeed` | `services/log_query.py`, `routes/api/logs.py`, `templates/partials/log_rows.html`, the writers of `repositories/search_log.py` | the log page while rows come and go |
| `UpdateCheck` | `services/update_check.py`, `routes/update_check.py`, `set_setting` | overlapping checks, one commit at a time |
| `InstanceForms` | `services/instance_submit.py`, `services/instance_validation.py`, `services/url_validation.py`, the text of `services/time_window.py`, `repositories/instances.py`, the handlers of `routes/settings/instances.py` | the forms of an instance while the *arr and other requests change things |
| `MCSupervisor`, `MCReconnect`, `MCSearchCycle`, `MCUpgradeRotation`, `MCCooldownReconcile` | none | constants, views, constraints and symmetry for TLC |
| `MCBoot`, `MCWeb` | none | models that share no variable, side by side in one run |
| `*Proofs` | none | inductive invariants and theorems |

`SearchCycle` rests on `Supervisor`: the theorem `CyclesExclude` is what allows it to have one
cycle at a time. `Supervisor` in turn sees a cycle as "some rows, then an outcome".
`UpgradeRotation` looks at the upgrade pass alone but over many cycles, and keeps what the other
two leave out: the row a cycle goes by was read before its task waited for the lock.
`CooldownReconcile` has the other task of that lock, the refresh, and takes a search as what it
stamps. `Process` sees `Supervisor` as one of three loops and `Migrations` as two steps; what they
are made of is in those modules.
### Supervisor: state and actions against the code

* `sched`, `manual`, `primes`, `lock`, `manualErrorOpen` are `_tasks`, `_manual_runs`,
  `_prime_tasks`, the holders of `_run_locks` and `_manual_error_open`. `inRetry` is
  `ReconnectState.in_retry` of each loop. `row` is the enabled column; `newest` the kind of the
  newest `search_log` row.
* A task is a slot with a program point `pc`, the instance it works on and a `cancelled` flag.
  `cancel()` sets the flag; `CancelDelivered` is the exception at the await. A task is `done`
  until `Reap` runs its done callbacks, so a registry may hold a finished task.
* A row write is two steps (`WriteRow`, then the resumption): SQLite's thread commits before the
  coroutine runs again, and a cancellation may fall in between.
* A request is a handler with a program point `hpc`; `hseen` is the row it read and `hwait` the
  task `stop_instance_task` awaits. Toggle, update, delete, create and run-now follow the code's
  awaits one by one.
* `Boot`, `StopBegin`, `StopPrimes`, `StopTasks`, `StopEnd`, `ProcessEnds` are the life of a
  supervisor; `ProcessEnds` before `stopped` is a kill.
* `owed` is a history variable: the error rows not yet answered, per channel.

### SearchCycle: state and actions against the code

* A pass is a record: its kind, the page it is on, the slots left on it, how much it has
  searched and scanned, the hourly count it goes by, the ids it has seen (`items`, `groups`),
  the parents cleared by the release gate and the rows it defers.
* Clocks are abstracted to the questions the code asks: is a cooldown active for a kind
  (`cool`), how many searched rows are younger than an hour (`recent`), is a row inside a window
  (`graced`, `hot`), has an interval passed (`rested`). The environment moves them.
* One action per decision: `Duplicate`, `Blocked`, `PassOver`, `StopAtCap`, `Choose` for a
  record, then `FetchQueue`, `AlreadyQueued` or `Send`, `Rejected` or `Accepted`, `Record`,
  `Log`. Between any two the world moves, and `CycleDies` may end the cycle.
* The random deck is a set of pages still to draw; popping a shuffled list takes any of them.
  A shuffled page offers any slot left.
* `sent`, `owed`, `gateRows`, `queueRows` and `deck.seen` are history variables that only
  properties read.

### UpgradeRotation: state and actions against the code

* `stored` is the row (`upgrade_enabled` and the two offsets), `seen[w]` the row worker `w` read in
  `_instance_loop` or `_run_manual_once`; `line` is the `asyncio.Lock`: its owner, then the waiters
  in the order they came. `ReadRow` is the read and the request for the lock.
* A cycle is `FetchPool` (the series window), `EmptyPool` or `AdvanceSeries`, then `SkipRepeat`,
  `TakeEpisode` and `CapReached` for the episodes of the rotated pool, then `PersistItem`. The
  window wraps; a library smaller than the window brings some series, and their episodes, twice.
* `NextItem` is the item offset a cycle leaves: the stored one modulo the pool at hand, plus what was
  counted, modulo the pool again. The pool is the window's, so its length changes from cycle to cycle.
* The series offset is unbounded in the code and only ever used modulo the library's size, so the
  model keeps it modulo `OffsetModulus`, a multiple of every library size of the run.
* A save is `StartSave` (the row it reads), a connection test, then `FinishSave` or `FailSave`;
  `ResetPolicy` is one write. `GiveUp` is a cancellation or a cycle that ends early, `Restart` a
  kill.
* `behind` and `tainted` are history variables: upgrades were turned off while cycles were in line;
  somebody with a row from before that wrote after it. The code lets both happen: two overlapping
  workers then keep two rotations a step apart until nobody is in line, and a cycle writes its
  offsets over a reset. The properties say what holds outside those windows.

### CooldownReconcile: state and actions against the code

* `rows` is the `cooldowns` table of one instance, a row a pair of search kind and id; `StampId` and
  `Synthetic` are the ids the adapters stamp, negative for a season, artist or author. `Adapters`
  holds what tells the six adapters apart.
* `pc`, `inst`, `page`, `got` and `seen` are the refresh: `Begin` reads the row, `Acquire` takes the
  lock, `FetchPage` asks for a page of a wanted list, `Exclude`, `Library`, `GetSeries` and `Episodes`
  collect the upgrade candidates as the adapter does, `Reconcile` deletes in one transaction.
* `SkipSeries` is the failure the adapters of series swallow, `FetchFails` every other one,
  `GiveUp` a failing snapshot, a failing write or a cancellation.
* `calm` and `failed` are history variables: nothing moved, and a request failed, in this refresh.

### Migrations, SchemaUpgrade, Process: state and actions against the code

* `disk` and `work` are the committed database and the one the connection sees, `open` whether a
  transaction is open: Python's sqlite3 opens one before DML and before nothing else, so DDL is
  durable at once or waits for the commit. `fk` is `PRAGMA foreign_keys`, which does nothing in a
  transaction. `Script(v)` is migration v as a sequence of statements, `at` the one about to run;
  `Fail` is a statement that raises and ends the process.
* A column is a pair of the version that added it and a number; the rows the conversions touch are
  `hours` with their unit, `app`, `type`, `kind` and `log`.
* In `Process`, `life` is where `app.py`'s lifespan is, `reset[r]` where a factory reset is,
  `alive[k]` who started the running tasks of kind `k` and `state[k]` the one `app.state` names;
  `file`, `pool`, `keyFile`, `key` and `rows` are the database file, what the pool is open on, the
  key on disk and in memory, and the keys that encrypt the rows. `Busy` marks stretches of code
  without an await, which only a kill can cut.

### Dashboard, LogFeed, UpdateCheck, InstanceForms: state and actions against the code

* `Dashboard`: `history` is what happened to `search_log`, so a query is a function of a length of it
  (`WindowMetrics(v, i)`), and a gather is the sequence of lengths its queries saw. `entry` is the
  async-lru cache, whose entry is there while it is being made; `Cleared` is `cache_clear`, `Break` a
  query that raises, `Expire` the timer, which drops whatever its key holds by then. A poll that
  waits for a gather keeps waiting for it when the entry is dropped.
* `LogFeed`: `rows` is `search_log`; `feed` is what a browser has: the filter, the cursor, the rows on
  the page. `Page` is the query with its regrouping by cycle: the cursor comes from the row that is
  last after it.
* `UpdateCheck`: `settings` are the rows of the settings table, `check[c]` a request between two of
  its commits, `left` the settings it still writes. `mixed` is a history variable: two checks that
  held different releases wrote at the same time, and none has written a release alone since.
* `InstanceForms`: `request[q]` is what a handler holds across its probe (the form, the key it looked
  up, the enabled value it read); `Tried` is what the probe tries, `Written` what the save writes.
  Validators are predicates on a form; the forms of the run are a valid one and one for each check
  that may refuse it.

## 3. Runs

| Run | Question | Bounds |
|---|---|---|
| `sup_serial` | With requests one at a time, do the tasks match the table, and does an orderly exit leave nothing? | one instance, two loops, one handler; every kind of request; deadlock checked |
| `sup_races` | Can two requests interleaved at every await produce two loops, two run-now tasks, or two cycles of an instance? | two handlers, two slots a kind; the sweep asleep and no error rows (both irrelevant to the registry: the primes do what the sweep does) |
| `sup_faults` | Is every error row on a card written once an outage and remembered by somebody who will answer it, and which of that survives failing database calls and kills anywhere? | one loop, two racing run-now requests, both fault switches on |
| `sup_live` | Does a deleted instance go quiet, and does every waiter get its lock? | create racing delete, two handlers, fair |
| `sc_release` | Release gate, retries, the download queue: one search of the season a cycle, honest rows, earned retries | a season of two episodes, one list, both triggers, batch and cap two, failing dispatches |
| `sc_passes` | Three passes over lists that share records: the cap, one search a cycle, no page twice | a season on two pages of the missing list and in the upgrade pool, a record in the missing and the cutoff list; batch and cap two for the missing kind and one for the others; kills, failures, a shrinking list |
| `sc_order` | In order, is every record searched again and again? | pages of one record in order, one of them filtered and one released late; an upgrade pool of two over a scan budget of one; fair |
| `up_rotation` | With cycles that queue up with rows of their own, saves, failures and a changing library: do the offsets only move on, does a reset stick, and does every series and episode get its turn? | two workers, one saving request, libraries of six, three and two series, window three, batch one, scan budget two, a pool of up to three episodes; two events (failures, kills, saves, library changes) in all; fair |
| `boot` | Is a database of any release converted once and together, and does the program come up, wherever it is killed? Does a factory reset leave one set of loops and readable rows? | twelve stored versions and a fresh file, two cooldown rows, two kills, one use of the program; two resets, three keys, two exits, one request; fair |
| `recon` | Does a refresh keep every row a search would write now, in every adapter and mode, and do stale rows drain? | three items of two series, page size one, one row at a time, five adapters (Readarr's is Lidarr's), two events; fair |
| `recon_failure` | Finding, section 6 | as `recon`, one event |
| `web` | Is the dashboard as new as promised and consistent, does the log page leave no row out, does the ETag certify what is stored, does a save write what was verified? | see below |

Why these bounds suffice: instances do not share state in the supervisor except the sweep's
work list, so one instance shows every race; a race on a registry entry needs the old task, the
new one and two requests. In a cycle a parent needs two records, a page boundary two pages, a
cap one search. In `sc_passes` a missing pass reads the hourly count once and may dispatch
twice, so a search it forgets to count breaks `CapHolds`; a pass over its batch, cap and page limit
occurs there as well. `OncePerCycle` has two runs: slots handed back by the queue check, retries that
override a cooldown and failing dispatches occur in `sc_release`; several pages, later passes over
the same record or season, and kills in `sc_passes`. Slots of a kind are interchangeable in the
code (tasks have no identity beyond their entry), hence the symmetry; the view of the control runs leaves out the search log, which no guard reads.

`sc_order` assumes what the documentation assumes: cooldowns outlast a round through the list
(`ShortCooldown = FALSE`). With `cooldown_days = 0` the first batch stays eligible for ever.

In `up_rotation` six series and a step of five are coprime, so the rotation goes through all six
offsets although the window of three is shorter than the step; three of them just fit the window, and
with two left it holds series twice. Two episodes belong to series 1 and one to series 4, so that each
window holds one: without that the rotation may stop (section 6). The scan budget of two is below the
pool of three, so an item offset that stays where it is starves an episode. `EveryEpisodeSearched` speaks of a library of the window's size, whose pool is
the same in every cycle: with pools that differ an episode may starve (`SmallPoolHidesTail`). The
type invariant of this module is proved (section 4). An overlap
of two workers, a save between read and write, and a fault need two events at most. Cooldowns end
only when every episode had its turn (`CooldownsEnd`): at least seven days pass meanwhile.

`sup_faults` has no toggles and no `stop`: a cancellation between the commit of a
recovery row and the discard of its flag writes that row twice, which is harmless and excluded.
Its history variable `calm` (`MCReconnect`) tells the behaviours without a kill or a failing
database call from the others: `OfflineHasPairer`, `OneErrorPerOutage` and `SuccessAnswersError`
speak of the former, `RecoveryAnswersError` and `LockHasLiveOwner` of all.

`boot` starts at the versions on both sides of every migration that rebuilds a table or rewrites
rows; a second kill falls into the start after the first, which is where half-made tables and
half-converted rows show. `recon` needs two episodes of a season, a special, and a second page;
one row at a time is enough because rows are judged one by one.

In `web`, one instance, one poll at a time, two gathers and two changes of the log show every order
of write, invalidation, gather and question; the second gather is the one a poll after the write
must begin. The log page has four rows of two interleaved cycles and a system row, a clock of three,
page sizes one and two with a chunk of one, so that pages are cut inside a cycle and between rows of
one timestamp. The update check has two overlapping checks, two releases, two days and one end of
the process. The forms have two requests, two ids, three submits, twelve forms and six states of the
*arr.

### Fairness

`Supervisor!Fairness`: the event loop runs every ready callback, database calls return and HTTP
calls have timeouts, so each task and request takes its next step (weak fairness per task and
per handler). `asyncio.Lock` wakes its waiters in order, so a waiter cannot be overtaken for
ever: strong fairness of `Acquire` only. Nothing makes requests arrive. `SearchCycle!Fairness`:
the loop sleeps and starts again (weak fairness of the cycle), released records are eventually
released, hours pass and cooldowns end. Kills and failures are never fair.
`UpgradeRotation!Fairness`: the owner of the lock takes its steps, each worker comes back for
another cycle, a save returns from its connection test, and cooldowns end.
`CooldownReconcile!FairSpec`: a cycle ends, the sweep wakes every ten minutes and takes its steps,
and, the lock being served in order, a refresh that waits gets it between two cycles (strong
fairness of its `Acquire`). `BootSpec`: statements run, the orchestrator restarts the container, the
lifespan and a reset take their steps. The models of the web application have no liveness property:
what they promise is about answers that are given.


## 4. Proofs

`SupervisorProofs` proves, for any number of instances, tasks and requests and any failure
switches, from the assumptions `TasksDistinct` and `SwitchesOK`:

* `TypeCorrect` (`TypeOK`), `CyclesExclude` (`CycleExclusion`), `LocksAreOwned`
  (`LockHasLiveOwner`), `OneOfAKind` (`OneTaskOfAKind`).
* The inductive invariant adds `Held` (a task inside a lock is its recorded owner: mutual
  exclusion itself says nothing of the owner), `Registered` (an uncancelled loop or run-now task
  is the registered one of its instance, so two of them are equal) and `DownIsEmpty` (no task
  survives the process, which `Boot` needs).
* `StopLeavesNothing` (`StoppedIsQuiet`) supposes what its run supposes: stop() is called by the
  exit of the process only, after the web server has finished its requests, and a cancelled task
  unwinds within the ten seconds it is given. Without the first a request adds a task after the
  registries were read; without the second stop() leaves the task behind on purpose.
* `OneAtATimeDisables` (`DisabledHasNone`) supposes one request at a time (`OneRequest`), and
  `OneAtATimeEnables` (`EnabledHasLoop`) that no database call raises besides: both fail of
  overlapping toggles (section 6), and a loop whose row cannot be read ends for good. Their
  invariants follow a request through its steps: whom it has cancelled and still waits for
  (`Disabling`), and which instances it has yet to start (`Enabling`).
* `RecoveriesAnswer` (`RecoveryAnswersError`), `OutagesAreRemembered` (`OfflineHasPairer`),
  `ErrorsAreNotRepeated` (`OneErrorPerOutage`) and `SuccessesAnswer` (`SuccessAnswersError`) suppose
  that requests create, save and run instances but do not cancel a task or delete a row, and that
  the process ends by being killed only (`OnlyAdds`). A toggle or a delete that cancels a cycle
  between the commit of a recovery row and the fall of the flag leaves the flag up, and the next
  success writes a second recovery row: TLC finds it with either kind of request. `Remembered` says
  what the flag and a loop's streak stand for in the log; `Answerable`, which needs `calm`, that what
  is unanswered in the log is remembered by one of them. A row is written in one step and the memory
  of it changed in the next, so both speak of the places in between (`paired`, `infoWritten`). Mutual
  exclusion and one loop per instance, proved above, are what rules out a second writer.

`SearchCycleProofs` proves, for any lists, groups, settings, failures and interleavings, from
`ItemsOK` and `SettingsOK`:

* `CycleTypes` (`TypeOK`), `CapIsKept` (`CapHolds`), `GateRowsAreHonest` (`GateRowHonest`),
  `PagesReadOnce` (`NoPageTwice`, an action property), and `PageFitsBudget`: whatever the batch
  size, a page fits the scan budget, which is the assumption `SettingsOK` makes of the two.
* The inductive invariant adds `HourCounted` (the count a pass goes by is never behind the log,
  and a record in hand is below the cap), `RowsOfItems` (before the flush only items have gate
  rows, and only parents are cleared), `DrawnOnce` (the deck is disjoint from the pages seen, and
  the page in hand is in neither), and `PassStage` (an upgrade pass has a pool).
* `SearchedOnce` (`OncePerCycle`) and `QueueRowsAreHonest` (`QueueRowHonest`) suppose that the cutoff
  kind cools down like the missing one: with a cutoff cooldown of zero days the cutoff pass searches
  again what the missing pass of the same cycle has just searched. `Marks` and `SentOnce` say that
  what a cycle has sent is cooling down, or is marked as handled in the pass at hand, at each place
  between the command and the cooldown's write; `QueuedOnce` that a parent with a queue row is not
  among them.
* `RetriesAreEarned` (`RetryEarned`, an action property) supposes no kill: one between the acceptance
  of a command and its row leaves the older row the newest, and the next cycle retries on it.
  `RetriesWaitForGrace` (`RetryAfterGrace`) needs no such hypothesis. Both rest on `GraceHeld`: who
  is released to retry has no open grace row left; `Armed` says where the row that earned it is.

`UpgradeRotationProofs` proves, for any library, episodes, window, batch, budget, workers, saves
and number of faults, from `LibraryOK`, `PolicyOK` and `BoundsOK`:

* `TypeCorrect` (`TypeOK`, with `PoolInHand`: whoever divides by the size of a pool has one),
  `ResetHolds` (`ResetSticks`) and `OffsetMovesOn` (`NeverStepsBack`).
* `OffsetMovesOn` is not inductive by itself, since a late writer computes the offset from an old
  row. Its invariant (`LineOnce`, `RowsInOrder`) looks at those in line who have yet to write: the
  row of each holds the stored series offset or the one a step before it, and those who hold the
  stored one stand behind those who do not. The lock's first-come order is what keeps this.
* `WindowCovers`: for any number of series, a window of at least five shows each place of the
  library at some step of the rotation from any offset. `NarrowWindowSkips`: with a window below
  five and a number of series divisible by five, a rotation that starts at zero never shows some of
  them. Both use the module's `InSlice`, `InWrap` and `SeriesStep`, and three lemmas on `\div` and
  `%`.
* `SmallPoolHidesTail`: after a cycle with a pool of `small` episodes, every place the next cycle looks
  at in a pool of at least `small + Budget` lies below `small + Budget - 1`, whatever offset had been
  reached before.

`DashboardProofs` proves, for any instances, polls and actions and any number of events and
gathers, from `DashboardBounds`:

* `TypeCorrect` (`DashTypeOK`) and `AnswersAreFresh` (`AnswersFresh`): an answer has seen what
  the last invalidation before its question owes.
* The property speaks of answers, and an answer comes from a gather that may have begun for
  somebody else. The inductive invariant says what the cache keeps in between: the gather of an
  entry has seen whatever its last invalidation owes (`EntriesFresh`), and the gather a poll holds
  has seen what that poll is owed (`PollsFresh`), even after the entry was dropped under it.
* `CardsAgree` (`CountsAgree`): the two aggregates of a gather count the log as of two moments in
  order (`GathersOrdered`), and what is in the window at the first is in the log at the second unless
  rows were deleted in between, by counting finite sets.
* `NoRowIsSkipped` (`LogFeed`'s `NoGap`), for any page size, filters, rows, purges and clears. The
  page a click brings holds every matching row that is newer than its cut (`FetchComplete`,
  `PageComplete`), and the cursor, taken from the last row after regrouping, is the timestamp of a
  row of that page (`LastShownIn`, `PageOK`): it may repeat rows but not pass over any, except those
  that share the timestamp of a cut.

`UpdateCheckProofs` proves, for any number of overlapping checks, releases, days and ends of the
process, from `UpdateCheckAssumption`:

* `TypeCorrect` (`UpdateTypeOK`) and `EtagIsHonest` (`EtagCertifies`).
* The inductive invariant is about what is still to be written: the ETag is the last of a
  release's settings (`Shape`); when a check is alone, or nothing is mixed up, all who hold a
  release hold the same one, what they have written of it still stands, and the ETag on record is
  not newer (`Clean`). When the ETag's turn comes, nothing else is left, so the settings hold that
  release (`Certified`). That the ETag comes last is what the argument rests on.

`ProcessProofs` proves of `Process`, for any resets, failures, kills and starts, from `BoundsOK`
and `ResetsOK`:

* `KeysReadRows` (`RowsReadable`) and `LoopsAreReset` (`LoopsFollowReset`).
* Both are about moments between two requests, so the invariant follows one reset alone (`Alone`):
  which loops it has stopped at each stage, that the rows are gone before the key is, and that the
  new key is the one on disk before the loops start. `Outside` keeps requests and resets inside a
  serving process, which is why a kill leaves nothing but the files to reason about.

and of `Migrations`, for any cooldowns, kills, failures and searches, from `VersionsOK`:

* `NoCooldownIsLost` (`CooldownsKept`). A rebuild of `instances` drops the table the cooldowns refer
  to, and deletes them all if foreign keys are enforced at that statement. The invariant (`Prepared`)
  goes back from there: foreign keys are off at the drop since the statement that switches them off
  ran outside a transaction, and no transaction was open since the one before it was a commit. It
  holds along every script (`ScriptsAreNotEmpty` and the lemmas on each version's statements), and
  `Places` says which statement a start may stand at.
* `UpgradesAreAtomic` (`AtomicUpgrade`): the statements implement `SchemaUpgrade`. A killed start leaves
  the converted rows of the statements that ran outside a transaction and none of the others, so the
  invariant (`UpgradeInv`) has to tell from the database alone which rows are converted. `Way` reads it
  from what is left of the old schema (the delay's column, the version each table's CHECK dates from);
  `Past` says it of the scripts that ran, by position; `Shape` lists the statements that touch rows and
  where they stand. `Linked`, `Level` and `Pending` relate the open transaction to the committed rows:
  the fill-in of the kinds waits for its commit only at the first two statements of V15, so it is
  committed before the version is. Each step is then a step of the abstract specification (`CommitIs`,
  `ConversionIs`, `ForgetIs`, `SearchIs`) or leaves its rows alone (`RowsAre`).

`InstanceFormsProofs` proves, for any requests, instances and forms:

* `PairsAreVerified` (`VerifiedPair`, an action property). A handler that is about to write holds a
  form that passed validation and a connection that was probed (`Handling`), and rows keep their
  shape (`Table`), so that a toggle is seen to change the switch and nothing else.

`CooldownReconcileProofs` proves, for any library, adapters, settings, page size and events, from
`ItemsAssumption` and `BoundsAssumption`:

* `TypeCorrect` (`TypeOK`) and `WantedAreKept` (`WantedRowsStay`, an action property).
* The invariant says how much an undisturbed refresh has read at each place (`Collected`): a list up
  to the page to come, or as a whole. Places number a list without gaps (`PlacesNumber`, by counting),
  so a page that is short is the last (`ShortPageIsLast`). `SetsVouch` then compares, adapter by
  adapter, the ids a search stamps with the ids the sets hold.

TLC checks the invariants before they are proved. Only model-checked are:

* liveness, which is beyond the prover: `DisabledGoesQuiet`, `WaitersServed`,
  `EveryRecordSearched`, `EverySeriesServed`, `EveryEpisodeSearched`, `DriftDrains`, `ComesUp`,
  `ComesBack`.

## 5. Mutants

Every property of a passing run has a mutant: a plausible bug (a dropped `await`, a callback
that ignores the newer task, a cap off by one, a row written at once, an ETag written first)
defined beside the code's definition and marked "Mutant". Replacing the definition by it makes
TLC find the property violated, so no property is vacuous.

## 6. Findings

The run `recon_failure` shows one: the sweep deletes the upgrade cooldowns of the episodes of a
series whose request failed, because the adapter logs the failure and goes on
(`engine/adapters/sonarr.py:270`), while the sweep's comment says a failed fetch leaves the rows
alone (`engine/supervisor.py:517-521`).

Met while modelling, each traced in the source; the models contain the behaviour and the
properties say what holds around it.

Supervisor and its requests:

* Two overlapping toggles may leave an enabled instance without a loop: the one that starts finds
  the task the other is about to cancel (`engine/supervisor.py:215`, `:273`). Hence
  `EnabledHasLoop` is checked of serial requests.
* A toggle during a factory reset starts a loop and a prime that `stop()` has already passed over
  (`engine/supervisor.py:172`; `StoppedIsQuiet` fails with `StopKinds = {"reset"}`).
* A loop replaced during an outage forgets its open error row, and with an empty backlog the card
  stays offline (`engine/supervisor.py:323`; `SuccessAnswersError` fails with toggles). A crash
  inside an outage writes its error row twice. A failing database call ends a loop for good.
* A settings save racing a toggle writes the old enabled value back.

Search and upgrade:

* In random order the page drawn when a page ends is lost if the pass stops there
  (`engine/search_loop.py:1360`), so pages are not "visited exactly once per round" (`:98-99`).
* The series offset advances only when the window's pool is not empty
  (`engine/search_loop.py:1455`): a window with nothing to upgrade is fetched again by every later
  cycle and the rest of the library is not reached, although "the whole library cycles through over
  time" (`website/docs/reference/instance-settings.md:279-281`,
  `tests/mock_arr/probe_upgrade_coverage.py:14-16`). A window below five skips
  series for good when five divides their number (`NarrowWindowSkips`).
* The item offset is reduced modulo the pool of the cycle at hand (`engine/search_loop.py:1507`, `:1600`),
  and the window brings a different pool each time. Where every other window has a small pool, the tail
  of a large one above the scan budget is never looked at (`SmallPoolHidesTail`), although the rotation
  is kept "so coverage is guaranteed over time" (`engine/search_loop.py:1488-1490`).
* A save during a cycle has its page-offset reset overwritten. The documentation says offsets are
  still written in random order (`website/docs/reference/instance-settings.md:300`), but the item
  and page offsets are not.

Reconcile:

* An item that leaves a page already read shifts a wanted one from the next page onto it, out of
  the refresh's sight (`calm` excludes it). Turning upgrades off deletes upgrade rows, though the adapter says none can
  exist in that state; switching the mode deletes the rows of the other mode; lists that are all
  empty are never drained; `paginate_wanted` stops at 200 pages and the sweep still deletes what it
  did not see, though the module means to "act conservatively"
  (`engine/adapters/_common.py:103-123`); the synthetic ids of seasons from 1000 on collide.

Database and process:

* After a migration that rebuilds a table, the closing `PRAGMA foreign_keys=ON` runs inside an open
  transaction and does nothing: the connection serves with foreign keys off until a restart
  (`database.py:207-208`).
* A database older than version 6 killed after `CREATE TABLE instances_new`, in the unguarded
  `ALTER`s of version 6 or after the first commit of version 10 never starts again; `ComesUp` speaks
  of versions from 6 on and of starts nobody kills (`Restartable`). A ladder cut after the rename of version 16
  adds columns again (harmless). A fresh file has no version-14 marker, so its second start runs
  the back-fill once.
* After a factory reset the shutdown stops the supervisor of the old lifespan (`app.py:182-190`);
  the new loops run past `close_all_pools`. A poll during the reset reopens a pool on the file about
  to be unlinked. A create request that holds the old key inserts a row nobody can decrypt, and the
  next start raises. A kill between making and writing the key file leaves an empty key, though
  `crypto.py` means to "write it atomically".

Web application:

* "Load older" repeats rows, because the cursor is the last row after regrouping, and leaves out
  rows that share the cursor's timestamp; `purge_old_logs` compares `T` timestamps with a cutoff
  that has a space, so rows of the cutoff day stay a day longer.
* The queries of a gather are not one snapshot (`services/metrics.py:417-420`): a banner may show
  an error with no consecutive failures, and a clear between two queries a window above the
  lifetime count.
* Overlapping update checks can hide a release behind a 304 (`mixed`). `type_mismatch_message`
  accepts an application that calls itself "whisparr" for any selected type but Whisparr's.
  `create_instance` asserts the row it inserted, which a delete in between removes. A save with an
  unchanged key writes back the key it read before its probe.

## 7. Not modelled

* The changelog page, authentication, the pages, templates, browser scripts, charts and packaging:
  input and output, or one row of state.
* `is_within_window` itself (the gate is one of the reasons a cycle is skipped), the throttles of
  skip and info rows, tag resolution (a fixed set), jitter (unused), encryption beyond which key a
  row needs, the parsing and wording of settings.
* `_last_cycle_end`, `_snapshot_fail_warned` and the snapshot columns, which only the dashboard's
  text reads; `gather_cooldown_data`'s breakdown.
* A log cleared under a running cycle: the cap and the retry rules then read an emptier log.

Components without a module are listed in `PROJECT.json` with the reason.

## 8. Plan

1. Done: `Supervisor`, `SearchCycle`, `UpgradeRotation`, `CooldownReconcile`, `Migrations` with
   `SchemaUpgrade`, `Process`, `Dashboard`, `LogFeed`, `UpdateCheck`, `InstanceForms`; their runs;
   the proofs of section 4.
2. Model next: a log cleared under a cycle, the skip-log throttle, the time window
   against a reference definition over all minutes, attempt windows and the session secret.
3. Abstract specifications: `Pacing` (an instance is searched by one worker at a time and at most
   `Cap` times an hour) implemented by `Supervisor` and `SearchCycle`; `Outage` (online, offline,
   answered) implemented by the reconnect part of `Supervisor`.
4. Theorems: the failure-free half of `FailureKeepsRows` for the adapters that raise.
