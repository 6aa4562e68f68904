# Verification of the test harness

TLA+ models of the harness in `src/`: a central process (FastAPI application,
scheduler and SQLite database) that runs the tests of a catalog of apps, in
process or on remote workers, keeps the state of each test and alerts about its
changes. TLC checks the models on small instances; TLAPS proves the most
important results for all values of the constants. Paths below are relative to
`src/`.

## 1. Inventory

### Processes, threads and shared state

* The **central process** has one asyncio event loop. A handler runs alone from
  one `await` to the next. Most handlers never wait between the first check and
  the last write.
* Its **scheduler** (`AsyncIOScheduler`) starts coroutines on the loop and plain
  functions on a thread pool. The reaper and the retention job are plain
  functions: their transactions fall between any two transactions of a handler.
* All state that survives is in **SQLite**. Each database call is a transaction
  of its own (`harness/db/*`); an operation of several calls can be cut between
  two of them by a crash, an exception ("database is locked") or the thread pool.
* **Workers** are separate processes that poll the central over HTTP, hold a few
  task slots and keep undelivered results in a file.

### Components

| Component | Code | State | Operations | What makes it correct |
|---|---|---|---|---|
| Runner registry | `harness/db/_runners.py`, `web/routes/runner.py`, `web/routes/admin_runners.py` | `runners` rows, API keys | register, heartbeat, drain, resume, delete; keys die | a name serves one live key; drains stick |
| Dispatch and job queue | `harness/worker_dispatch.py`, `harness/db/_runner_jobs.py` | `runner_jobs`, `runs`, the queued-job event | queue, poll, long poll, requeue, delete | one holder per job; oldest first; only bound runners get jobs |
| Stuck-job reaper | `reap_stuck_jobs` | the list it has read | scan, requeue, fail | the retry budget; no job is stranded |
| Results ingestion | `runner_results`, `ingest_runner_results` | `test_results`, `app_state`, `runs` | accept, record, finish, complete | recorded once; the job's end and the run's agree |
| Remote worker | `worker/worker.py` | task slots, outbox file | receive, execute, submit, buffer, replay, restart | no result is lost; the file is bounded and moves on |
| Run execution | `harness/runner.py` | `runs`, `app_state`, alerts to send | start, record, finish | runs end; alerts tell the state |
| Alerts, maintenance windows, stale check | `harness/alerts.py`, `harness/maintenance.py`, `harness/staleness.py` | windows, `stale_alerts` | dispatch, suppress, find stale apps | each transition told once and in order; silence is noticed |
| Scheduling, triggers, TLS verifier | `harness/auto_scheduler.py`, `web/main.py`, `web/routes/api.py`, `harness/tls_verifier.py` | cron jobs with the app definitions of the start | fire, trigger | overlap checks |
| Retention | `harness/retention.py` | -- | prune | what it deletes has ended; runs and results go by times of their own |
| Test execution | `harness/runner.py`, `worker/worker.py` (`execute_job`), `harness/api.py`, `harness/browser.py`, `harness/tls_engine.py`, `harness/config.py` | captured values, results | resolve, execute, retry, capture | both executors give one verdict; no reference is left open |
| Users and sessions | `web/auth.py`, `web/routes/{auth,users}.py`, `harness/db/_users.py` | `users`, session versions, cookies | sign in three ways, edit, delete, sign out | a revoked right ends; a row has one identity |
| Lockout and limiter | `harness/auth_manager.py`, `web/ratelimit.py` | failure counts and locks in `users`, failures by address in memory | fail, lock, forget | a lock is earned and expires; the table is bounded |
| API keys | `web/routes/api_keys.py`, `harness/db/_api_keys.py`, `require_worker` | `api_keys` | create, revoke, authenticate | a key never outlives its owner or exceeds the scopes it was given |
| App catalog | `harness/app_manager.py`, `harness/loader.py`, `harness/auto_scheduler.py`, `web/routes/api.py` | YAML files, the loaded list, the scheduler's copies | create, update, archive, restore, delete, reload, start | what is loaded is what is on the disk, and what runs |
| Notification groups | `harness/db/_notification_groups.py`, `harness/alerts.py` | groups, members | create, update, delete, address a mail | an alert reaches its own groups, and somebody while one is left |
| Secrets store | `harness/secrets_store.py` | key file, `secrets` | first boot, set, rotate | one key, whoever boots first |
| Version comparison, exports, dashboards, proxy, certificates, logging | the rest of `harness/` and `web/` | -- | input, output, rendering | not modelled |

`PROJECT.json` has the same list with the status of each, and the hazards: the
lines where an order nobody tested, a crash or a stale read would bite, with the
properties that watch them.

### What is hard here

* The reaper decides by rows it read earlier, while handlers complete, requeue
  and delete the same jobs.
* A long poll keeps what it read before it waited: the runner's status, version
  and tags.
* Results arrive twice, late, or after the job went to someone else; an ingest
  is several transactions and may be cut short.
* A worker's replay reads its file, waits for the network and writes the file,
  while other tasks append to it. An append that cannot read the file goes on as
  if it were empty, and overwrites it.
* Retention deletes results by the worker's clock and runs by the central's, so
  that a replay may bring results that are old when they arrive.
* The overlap check of the run triggers sees only `running` runs, and the TLS
  verifier does not make it, so runs of one app overlap and update the same
  `app_state` rows.
* State and alert are decided together, but alerts are sent after the run has
  ended, and may be silenced or lost in between.
* An edit of a user is two transactions, the row and then the revocation of its
  sessions. A deletion authenticates before it waits for its body.
* An identity at GitHub is a number, while the login changes hands.
* The failures of an account stay when its lock ends. The limiter of addresses
  has a table of its own that is full some day.
* The scheduler keeps the definitions and secrets of the start, the loaded list
  those of the last reload that succeeded, and a write truncates its file first.
* Central and worker execute a test with two programs that are meant to be one.
* Text left in a window's row by an earlier type of the window is still read.

## 2. Plan

Done, in the order of importance:

1. `RunnerRegistry`, `WorkerDispatch`, with `JobLedger` as the abstract
   specification of the queue; proofs in `WorkerDispatchProofs` and
   `WorkerDispatchRefinement`.
2. `WorkerOutbox`; proofs in `WorkerOutboxProofs`.
3. `RunAlerts`; proofs in `AlertRoutingProofs`.
4. `Accounts`, `LoginGuard`, `ApiKeys`: who may use the console; proofs in
   `AccountsProofs` and `AccessProofs`.
5. `AppCatalog`: files, loaded list, scheduler; proofs in `ServerFileProofs`.
6. `SecretKeyFile`: the first boots; proof in `ServerFileProofs`.
7. `TestExecution`: the tests of a run, by the central and by a worker; proofs in
   `TestExecutionProofs`.
8. `MaintenanceWindows` and `NotificationGroups`: when alerts are silenced and
   where they go; proofs in `AlertRoutingProofs`.
9. Writes of the outbox file that are cut short, in `WorkerOutbox`, its proofs
   included.

Next:

10. The composition of `Accounts` with `ApiKeys`, so that the standing of a key's
    owner is a function of the row instead of an environment.

## 3. Modules

| Module | Models | Extends |
|---|---|---|
| `RunnerRegistry` | runner rows, keys, the handlers that change them | |
| `WorkerDispatch` | jobs, runs, handlers, long polls, reaper, crash | `RunnerRegistry` |
| `JobLedger` | abstract: what the queue promises | |
| `WorkerOutbox` | one worker: slots, file, replay, restart | |
| `RunAlerts` | runs of one app and environment, alerts, stale check | |
| `TestExecution` | the tests of a run, executed by the central and by a worker | |
| `MaintenanceWindows` | rows of windows, their routes, whether one is open | |
| `NotificationGroups` | groups, and the recipients of an alert's mail | |
| `Accounts` | users, sessions, sign-in by three providers, user management | |
| `LoginGuard` | lock of an account, limiter of addresses | |
| `ApiKeys` | keys, scopes, what a request with a key may do | |
| `AppCatalog` | definitions on disk, the loaded list, the scheduler's jobs | |
| `SecretKeyFile` | first boots that publish the key file | |
| `MCWorkerDispatch`, `MCWorkerOutbox`, `MCRunAlerts` | instances for TLC | the module they are named for |
| `MCWorker` | instance of both halves of a worker | `WorkerOutbox`, `TestExecution` |
| `MCAlertRouting` | instance of what decides about alerts | `RunAlerts`, `MaintenanceWindows`, `NotificationGroups` |
| `MCConsole` | instance of what the console rests on | `Accounts`, `LoginGuard`, `ApiKeys`, `AppCatalog`, `SecretKeyFile` |
| `WorkerDispatchProofs`, `WorkerDispatchRefinement`, `WorkerOutboxProofs`, `TestExecutionProofs`, `AccountsProofs` | theorems | the module they are named for |
| `AlertRoutingProofs` | theorems | `RunAlerts`, `MaintenanceWindows`, `NotificationGroups` |
| `AccessProofs` | theorems | `LoginGuard`, `ApiKeys` |
| `ServerFileProofs` | theorems | `AppCatalog`, `SecretKeyFile` |

`MCWorker`, `MCAlertRouting` and `MCConsole` put modules into one run that share
no state. A behaviour moves one of them, the one that `part` names, while the
others stay as they start: this is their disjoint union, not their product.

### `RunnerRegistry` and `WorkerDispatch`

`WorkerDispatch` extends the registry, since the two share the event loop and
deleting a runner requeues its jobs in one transaction.

* `registered`, `bound`, `tags`, `version`, `status`, `health` are the columns
  of `runners`. `liveKeys` is the set of keys that `require_worker` accepts.
  `adminDrain` is a history variable.
* `state`, `target`, `owner`, `retries`, `queuedAt` are columns of
  `runner_jobs`; `aged` says that `assigned_at` is older than the timeout.
  `run`, `finished` and `recorded` are the run's status, whether `finished_at`
  is set, and how many payloads of results it has. A run belongs to one job, so
  both have the job as index. `pruned` is a history variable: the jobs whose
  results retention has deleted.
* `pc`, `cur`, `failing` are the handler that is between two transactions. There
  is one at most, for the loop does not switch handlers without an `await`.
  `polls` are the long polls that wait, with what they read before.
* `reaping` and `asRead` are the reaper's list and the retry counts in it.

An action is a handler, or one transaction of a handler with several. `Poll` is
a poll that finds work; one that finds none changes nothing. `LongPollWait`,
`LongPollWake` and `LongPollEnd` are the loop of `GET /jobs`. `ResultsAccept`
and the four `Ingest...` actions are `POST /results`. `ReaperScan`, `ReaperFail`
and `ReaperRequeue` are the reaper's transactions: the first chooses by age, the
others by the row as it was read, with the guards their UPDATE statements have.
`Crash` ends the process, `HandlerRaises` ends a handler whose transaction fails.

A payload is recorded in one action although it is one transaction per test. A
crash among them leaves a partial payload, which the next one follows; the count
of payloads is what `ResultsOnce` speaks of.

`Prune` is the retention job. It deletes a run by the run's `finished_at` and
results by their own, which the worker has set: the one may go without the other,
and the results of a job that is still assigned may go too.

### `WorkerOutbox`

`step`, `work` and `snap` are the slots: what a task does, its payload, and the
lines it read before its replay. `outbox` is the file. `central` and `attempt`
are as much of the central as a worker can tell: a job is waiting, held by this
worker or settled. `attempt` tells the payloads of a job apart; the JSON does
not carry it. `MaybeTakes` is the lost answer: the central may or may not have
taken the payload. `ReplayAnswered` writes back the lines read before the POST,
which is what the code does. `owed` is a history variable.

Every write of the file truncates it first. `WriteCutShort` is a kill or a full
disk in the middle: the file keeps some first lines of the new text and perhaps a
`TornLine`, which a later replay drops when it comes to the head. What the cut
loses, in this line or behind it, is no longer owed. A kill ends all slots; a full disk ends one.
`WriteRefused` is a write that does not get as far as truncating the file.

`ReadsFail` says whether reading the file may raise an `OSError`. If so, an append
starts from no lines and overwrites what it could not read (`SubmitUnread`), and a
flush replays nothing (`FlushUnread`).

### `RunAlerts`

One app in one environment; `app_state` rows of different apps never meet.
`status` is the run's column, `by` and `stage` the coroutine that drives it and
how far it has come. `busy` and `todo` are the stretch of code between two waits
in which results are stored one after the other. `alerts` is `alerts_to_send`,
`state` is `app_state.state`. `paged` (tests whose last alert was FAIL) and
`spoiled` (tests with a transition nobody was told of in order) are history
variables. `last`, `dedup` and `staleDue` are what the stale check looks at.

`Begin` is `run_app` up to its first wait, with the setup error and the exception
that leaves the run `running`. `RecordTest` and `EndRun` are the second half,
which `ingest_runner_results` repeats for a worker's payload. The triggers differ
in their guards, and only in these: `TriggerTls` has no overlap check.
`ApproveBaseline` is the approval of a screenshot, which sets a test to passing
without a word to the channels.

### `TestExecution`

One definition (`app`) and one world are followed by two executors at once, so
that their reports can be compared. The world answers each attempt of each test
by each engine, and both executors get the same answer. `fate`, `tries`, `result`
and `captures` are per executor: what becomes of the run, the attempts made, the
verdicts, the captured names. `Judged` is an engine: what it makes of an answer, with the SLO threshold
and the captures. The differences of the code are kept: a worker has no `tls`
engine and runs such tests as availability tests; it retries an exception, which
the central reports at once; a value is resolved twice where the tests run one
after the other.

### `MaintenanceWindows` and `NotificationGroups`

`windows` are the rows, with all columns whatever the type, because the update
route changes only what it is sent and `is_in_maintenance` looks at columns
before it looks at types. `Open` is that function, branch by branch; the property
compares it with `Said`, which is written from what a window's type promises.
Time is slots of a day in a short week. `groups` are the rows of groups; the list
in an app's definition is quantified over, since nothing keeps it in step.
`Configured` are the values that `alerts.email.to` may have; the empty one is among
them, for no validation asks for a recipient.

### `Accounts`

`status` and `row` are the table `users`; an id is used once. `cookies` are signed
cookies that have not expired; they carry the session version of the row, and, as
history, the role, the password and the identity they were issued for. `edit` is an
edit of a user between its two transactions (`UpdateUser`, `RevokeSessions`);
`pending` are deletions that wait for their body. `unsynced` and `cut` are history:
accounts whose role the directory changed, and accounts whose edit a crash cut in
two. Folding of names is a constant, so that `Ann` and `ann` can be two rows.

### `LoginGuard`, `ApiKeys`

`fails` and `lockedUntil` are columns of `users`; `events` is the table of the
limiter, with `lastFail` and `recent` as the history that the properties compare
them with. `ApiKeys` has the rows of keys and takes the accounts as an environment:
`standing` is what the owner's row lets it do at the moment, and it changes at any
time. `revoking` are requests that wait for their body.

### `AppCatalog`, `SecretKeyFile`

`active` and `archived` are the two directories, `loaded` is `_apps` with the
secrets resolved into it, `jobs` is what the scheduler's closures hold. `Tear` is
a write that truncated its file and left what `load_apps` rejects. `Startable` says when the
server comes up at all: a file that is no mapping, or a schedule without a name,
keeps it down until someone mends the disk (`Repair`). `TriggerDays` is the
translation of a day-of-week field, compared with cron's own meaning, `CronDays`.
`SecretKeyFile` has a step for each system call of `_load_or_create_key`, with
and without hard links, and boots that die at any of them.

## 4. Runs

| Run | Instance | Distinct states | Question |
|---|---|---|---|
| `failover` | 2 runners, 1 key, 1 tagged job, 1 retry, 1 delete, 1 manual requeue, 1 crash or exception, 1 long poll | 965 thousand | do tables, handlers and reaper stay consistent, and implement the ledger? |
| `handout` | 1 runner name, 2 keys of 2 users, drains, health, versions, 1 delete, 1 long poll | 110 thousand | who may get a job? |
| `dispatch_live` | 1 runner, 2 jobs, 1 retry, capacity 1 | 209 thousand | does every job settle? |
| `outbox` | 2 slots, 2 jobs, file of 2 lines, 2 hand-outs, reads that may fail; 8 apps of up to 3 tests, 1 retry | 127 thousand | what can the file lose, does it move on? do central and worker judge alike? |
| `alerts` | 2 runs, 1 test, 1 crash or exception; 1 window in 4 days of 2 slots; 2 groups with 3 names, recipients configured or not | 122 thousand | do alerts tell the state, do runs end, is silence noticed? is a window open when it says? who gets the mail? |
| `console` | 2 of 3 accounts, 3 identities; 2 failures, 3 addresses; 1 key; 2 apps, 2 edits; 3 boots | 528 thousand | do rights end when they should? are locks earned? is the loaded catalog the one on the disk? is there one key? |
| `admin_drain` | violation | | a worker's recovery lifts an admin's drain |
| `drained_poll` | violation | | a waiting long poll hands a job to a drained runner |
| `reaper_overrules` | violation | | the reaper fails a job whose results were just accepted |
| `outbox_lost_append` | violation | | a replay overwrites a result buffered meanwhile |
| `outbox_stale_replay` | violation | | a payload of an earlier hand-out settles the current one |
| `silent_failure` | violation | | a test that raises an exception fails without an alert |

Each violation run checks one property that the documentation, or a comment,
states of the program, and ends with the trace of how the code breaks it;
`PROJECT.json` quotes the line.

### Properties

`WorkerDispatch`:
* `RetryBudget`: no interleaving requeues a job more than `max_retries` times,
  and a failed job has used them all.
* `OwnerConsistent`: an assigned job's runner exists; a queued job has none.
* `ResultsOnce`: payloads recorded are at most one, plus one for each requeue by
  an operator and each crash or exception.
* `CompletedHasResults`: a job that ended has its results, until retention deletes
  the results themselves; that of its run is no excuse.
* `RunFollowsJob`: with no crash, a job and its run tell the same story.
* `HandoutAuthorized`: a job, which carries secrets, goes only to a runner bound
  to a key that is live at that moment, and a pinned one to its own runner.
* `ImplementsLedger`: the tables implement `JobLedger`.
* `AssignmentEnds`, `ServedJobSettles`: no assignment lasts for ever, and a
  queued job that could be served again and again settles.

`WorkerOutbox`: `LostOnlyUnread` (an entry is lost by a write that is complete in
two ways only: a replay writes back what it had read before the entry came, or an
append could not read the file) and `EntriesLeave` (no entry, torn ones included,
blocks the file). `BufferedKept`, which the guide promises, is false with two slots
or with a read that fails; it is proved for one slot whose reads never fail. Both
violations of the outbox are found with reads that never fail.

`RunAlerts`: `PagerTellsState` (the last alert handed out about a test agrees
with `app_state` when nothing is on its way, but for the exceptions that
`spoiled` names), `RunsEnd`, `SilenceIsAlerted`.

`TestExecution`:
* `VerdictIsEarned`: a test passes if and only if its last attempt did, and fails
  only after all of them.
* `ReferencesResolve`: an engine never meets a name that no earlier test of the
  run has captured.
* `WorkerAgrees`: before the same world both executors report the same, except in
  the three cases that the comment at the definition names.

`MaintenanceWindows`: `WindowsKeepTime` (a window is open when it says and only
then, with two exceptions) and `WindowsKeepToTheirTarget`. The exceptions are what
the code does: the admin form sends its hidden weekly fields with every window
(`web/templates/admin_maintenance.html:77-92`), so that a cron window made there
silences Sundays as well (`Leftover`); and an occurrence of a weekly window that
lasts into a third day closes at the end of the second (`TooLong`).

`NotificationGroups`: `AlertsReachTheirGroups` (whatever became of the groups since
an app was written, its mail goes to the whole of each group that is left and can be
told apart by name, and to nobody else; if none is left it goes to whom the
configuration names). That may be nobody: with groups only, the deletion of an app's
last group silences its mail without an error.

`Accounts`:
* `CookieCarriesRights`: a usable session has the role and the password of the row,
  unless the directory changed the role since or a crash cut an edit in two: these
  two are what the code does, and no property catches them.
* `RevokedStaysRevoked`: no reactivation, edit or new row revives a session.
* `SetupStaysClosed`: the table empties, which opens `/setup` again, only by two
  deletions that crossed; these it permits.
* `OneIdentity`: one GitHub identity per row, one row per identity.

`LoginGuard`: `LockFollowsFailures` (a lock is set exactly when the failures since
the last success earned it; since they are not reset when it ends, one more locks
again), `LimiterCounts` and `LimiterBounded`.

`ApiKeys`: `WorkIsEarned` (jobs, with their secrets, go to a key only if its owner
had a worker role both when it was made and now), `DeadKeysStayDead`.

`AppCatalog`:
* `CatalogFresh`: the loaded list is what the disk and the secrets say.
* `RunsAreCurrent`: what a user's run starts with is what the disk has; of a scheduled
  run this is known only until something changes, for its job keeps the definitions
  of the server's start.
* `JobsOnTheirDays`: the translated field fires on cron's days, for a plain range
  that does not wrap. Fields with a step, and ranges that the scheduler rejects or
  that reach Sunday from both ends, are translated as in the code and promise nothing.
* `DefinitionsKept`: no file is moved onto another or has its definition in both
  places. It speaks of files: apps whose names share a slug share one, and a PUT of
  one overwrites the other. A torn file is permitted, and is what `CatalogFresh`
  exempts.

`SecretKeyFile`: `OneKey`.

### Bounds

Crashes, deletions, manual requeues, long polls and retries are bounded by
constants that are named in the modules and appear in the guards. One of each
is enough for the hazards: each needs a second actor between two transactions
of a first, and none needs the same rare event twice. One job is enough for
`failover`, because no invariant relates two jobs and no action but a claim and
a deletion touches two; the claim of several is exercised by `dispatch_live`
(order and capacity) and its invariants are proved for any number. Two runs and
one test are enough for `alerts`: alerts of different tests share nothing. The
outbox has two slots, the least with which a replay and an append overlap, and
two lines, the least with which an eviction and a tail differ. A settled job that
has left no trace in the worker is used again (`NewJob`), so that the run covers
endless work. In `failover` the two runners are symmetric: they have the same key
and tag, and its properties are about safety.

`TestExecution` has apps chosen so that each branch of the executors is taken:
captures with and without a retry, overlapping tests and sequential ones, a secret
whose value looks like a reference, each engine, and a definition that fails before
its first test. A name is captured and used by at most three tests; a fourth would
meet no other case, since a reference looks at the earlier tests one by one.
`MaintenanceWindows` has a week of four days so that an occurrence can end on the
next day, after it, and in the next week. One window is enough: `InMaintenance` is
the disjunction over windows.

`console` has two rows of the three providers at a time, one cookie each, one
revocation each and one pending deletion per caller, which is what the crossing of
two deletions, of an edit and a crash, and of two logins of one name take. Two
failures lock; three addresses compete for two places in the limiter; six ticks
are three windows. Two definitions may be written, in two files. Two names that
share a file are allowed by the module and not in the instance. Three boots are
one more than a race needs.

Deadlock is not checked where the bounds let the system stop: once they are
used up and all jobs are settled nothing is left to do, and a run of tests or a set
of boots ends. `alerts` checks it.

### Fairness

The modules about tests, windows, groups and the console state no fairness: their
properties are invariants and action properties.

* `WorkerDispatch!Fairness`: time passes for an assigned job, the scheduler
  starts the reaper every minute, the loop finishes the handler it is in, and a
  worker that is up polls in a loop. The last is strong fairness: the loop may
  be busy whenever the poll arrives, but not always. Nothing is assumed of
  submissions, long polls, admins, retention or crashes, so `AssignmentEnds`
  holds of workers that die or never answer.
* `WorkerOutbox!Fairness`: a task that executes or posts ends, for tests and
  POSTs have timeouts. Nothing is assumed of restarts or of the central;
  `EntriesLeave` has as premise that replays are answered again and again.
* `RunAlerts!Fairness`: the loop runs each ready coroutine, the stale check is
  started every hour, time passes. `RunsEnd` has as premise that no process died
  and no exception escaped: no code repairs a run left `running`, and
  `is_run_active` then blocks the app's cron job. `SilenceIsAlerted` has as
  premise that no window stays active and that retention leaves the app's last
  complete run.

## 5. Proofs

All theorems hold for every value of the constants under the named assumptions
of the modules; the assumptions are evaluated by TLC in each run. They say that
null values are not members of the sets they are added to, that bounds are
natural numbers, that capacity and file size are positive, that runner names
and tags are different things, and that a row has one provider. Nothing is assumed
of `ReadsFail` but that it is a Boolean, nor of the recipients that the configuration
names. Two that the
proofs about tests use: `NotAsked`, which marks an attempt that nobody has made,
is not itself an answer, and an app has at most `MaxTests` tests with at most
`MaxTries` attempts each, for any such numbers.

* `TypeCorrect`, `OutboxTypeCorrect`, `AlertsTypeCorrect`, `AccountsTypeCorrect`:
  type correctness; the second includes the bound of the outbox file.
* `RetryBudgetHolds`. `RetryBudget` is not inductive, for the reaper decides by
  the count it read. `RetryInv` adds that this count is the current one for every
  job on its list: only the reaper moves the count, one job at a time, and it
  takes the job off the list in the same step.
* `OwnerHolds`. `OwnerInv` adds that a job being queued has no state yet and no
  owner, and that a job whose results are being ingested, or that the reaper has
  listed, has one; otherwise completing or requeueing it would make a job out of
  nothing.
* `ResultsOnceHolds`. `ResultsInv` adds that a job that may still be handed out
  has one payload less than a settled one, unless the handler has just recorded
  one, and so has a job whose ingest has yet to record. An ingest cut short is
  paid for by the crash or exception that cut it.
* `CompletedHasResultsHolds`. `CompletedInv` adds that the job whose handler is
  past the recording step has results, or retention deleted them.
* `RunFollowsJobHolds`. `StoryInv` adds that the run of a job which is being queued
  is queued, and that the run has its outcome before the ingest completes the job,
  unless the reaper has ended it or retention has deleted it in between.
* `LedgerRefinement`: every step of `WorkerDispatch` is a step of `JobLedger` or
  leaves it unchanged. `HandoutsAuthorized` is an action property, proved from
  the guards of the three actions that hand out.
* `LostOnlyUnreadHolds`, from lemmas on what appending, evicting and writing back
  do to the lines of a file. With one slot a replay's copy is the file (`FreshInv`):
  `OneSlotLosesOnlyUnread` says that such a worker loses an entry only to an append
  that could not read the file, and `OneSlotKeepsBuffered` that it keeps all,
  assuming `~ReadsFail` (`OwedIsBuffered`).
* `PagerTellsStateHolds`. `StageInv` says that an alert waits only in a run that
  is recording or alerting. `AlertInv` says, of a test that is not spoiled, that
  at most one alert about it is on its way and agrees with the state, and that
  without one the last alert handed out does.
* `VerdictIsEarnedHolds`, `ReferencesResolveHolds`, `WorkerAgreesHolds`, from
  `ExecInv`. `AttemptsInv` says of every attempt made that it has an answer, that
  each but the last asked for another, and that the last gave the result.
  `OrderInv` says that a sequential executor goes through the tests in order, that
  its captures are what the tests before have left, written without reference to
  `captures` (a name is captured if some ended test had it and no later one blanked
  it), and that a test is attempted only if its references were ready. `EndInv`
  keeps why a report is lost: the test that stumbled, or the first that raised.
  `WorkerAgrees` then follows without an induction along the tests: whatever test
  both have ended, they ended with the same answer (`SameVerdict`), so that the
  references of the test after those are open for both or for neither
  (`SameReady`), and `EndInv` names the test to look at.
* `WindowsKeepTimeHolds`, `WindowsKeepToTheirTargetHolds`. The state only needs
  types (`WindowsTypeOK`): what is hard is the arithmetic of `Open`. The code looks
  at this week's occurrence of a weekly window and at that of the day before; the
  lemmas show, for any lengths of day and week, that no other can be open unless
  it lasts into a third day.
* `AlertsReachTheirGroupsHolds`, from `GroupsInv`: a row has a name and a member.
  That a group which is left is reached does not need the configured recipients.
* `CookieCarriesRightsHolds`, `RevokedStaysRevokedHolds`, `SetupStaysClosedHolds`,
  `OneIdentityHolds`. `CookieOK` is the heart of `AccountInv`: a session's version
  is at most the row's, and while it is the row's, and no edit has yet to revoke it,
  the row is active with the session's role and password. So an unusable session is
  of a deleted row or of an older version, and `Aged` says that neither comes back.
  `LinksOK` says that no two rows have one link; `EditOK` that the edit under way
  is of a row that is there.
* `LimiterCountsHolds`, `LimiterBoundedHolds`, for any limits and any number of
  addresses. `LimitInv` says that a deque is in order and has nothing from the
  future, that the failures an address is held to are its young ones whenever it
  was pruned last, and that the addresses with a deque are finitely many and at most
  `MaxKeys`. The lemmas are about deques: in order, the loop of `_prune` removes
  exactly what has expired (`ExpiredCounts`), pruning twice is pruning once
  (`YoungYoung`), a failure counted now disturbs no other (`YoungAppend`).
  `RoomMade` is about a full table: what makes room touches nothing of the address
  that is hit. `RetryIsEnough` is the arithmetic of `Retry-After`.
* `LockFollowsFailuresHolds`, inductive with the types. `WorkIsEarnedHolds` and
  `DeadKeysStayDeadHolds`: `WorkIsEarned` speaks of the owner's role of the moment;
  `KeyInv` says of the scopes alone that a key no worker role asked for has none
  that lets it work, whoever its owner is by now.
* `CatalogFreshHolds`, `RunsAreCurrentHolds`, `JobsOnTheirDaysHolds`,
  `DefinitionsKeptHolds`, for any names, files and schedules. `CatalogInv` says what
  the loaded list and the jobs may hold, of which edit each file is, and that no
  definition is in two places.
* `OneKeyHolds`, for any number of boots. Its invariant says that a key which one
  boot has is in the file, and that a file without hard links is filled by the boot
  that created it.

Each property, and each of the invariants `ExecInv` and `LimitInv`, was
model-checked before it was proved. Every invariant and action property of the
passing runs is stated by a theorem. Only model-checked:

* the liveness properties `AssignmentEnds`, `ServedJobSettles`, `EntriesLeave`,
  `RunsEnd` and `SilenceIsAlerted`: the provers have no rule for fairness or
  `ENABLED`;
* the violations, which are single behaviours;
* that the answers of the world in the instance reach every branch of the engines:
  the theorems hold for any answers, the run shows that each case occurs.

## 6. Not modelled

* A second central process on the same database. The binding UPDATE of
  `/register` is conditional for its sake; the rest of the code assumes one.
* Role changes and deactivation of a key's owner while a long poll waits: `ApiKeys`
  has the changes and `WorkerDispatch` the poll, and they are not composed.
* The worker's heartbeat loop and its probe of the volume; several workers, which
  share nothing but the central.
* The engines' sessions with a browser (recorder, Edge, journey studio), and the
  comparison of screenshots, which is never reached: only a failed test has one.
  Web vitals pass when they are not available, as in the code.
* Failures of an alert channel: the code logs them and never retries, so "handed
  out" is the last thing the model says of an alert. The run webhook.
* How many STALE alerts an app gets: a run that ends in error clears the dedup
  row and does not count as a run, so the check may alert every hour.
* Reloads of the catalog that fail for another reason than a torn file (the
  database or the disk cannot be read, `web/routes/api.py:176-179` and its like
  ignore the exception): the list in memory is then stale until the next request
  that changes an app. A torn file that still parses as a definition.
* Properties about what retention leaves of an active run: `harness/retention.py`
  says that it preserves active runs, and `Prune` may delete the results they have
  so far, as the code does. No run states the claim.
* The comparison of versions (a constant of `RunnerRegistry`), cron fields other than
  the day of the week, and time zones, which are the library's.
* The validation of an app's fields, the reading and redaction of `config.yaml`,
  rotation of the secrets' key (an offline program), passwords, tokens and CSRF.
* Dashboards, exports, analytics, proxy, certificates, logging: no state that
  other components depend on.
