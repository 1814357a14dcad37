# Verification of the VPS Backup Manager

TLA+ models of `server/` (the Windows backup service, Go) with the TLC
configurations that check them and TLAPS proofs about them. Of the desktop client
(`apps/client`, Dart) the connection to the service and the copy of the settings
are modelled.

## 1. The system

The service runs backup jobs: it connects to a server over SSH, runs the job's
scripts, makes a tar archive there, downloads and verifies it, removes it from
the server and deletes old local archives. Jobs are started by a schedule, by
the detection of missed runs at startup, or by a user through the client, which
talks to the service over a named pipe. Configuration, history and job locks
are in one SQLite database.

### Components

| Component | State | Operations | Correct when |
|---|---|---|---|
| Backup engine (`internal/backup`) | the run in memory, its steps, the cleanup registry, the files | the stages of `execute`, cancellation, the drain of cleanup actions | its outcome is true, cleanup runs exactly once, retention only after success, the run ends if the server answers |
| Service lifecycle (`cmd/vpsbackupservice`) | phase of the process, wait group | recovery at startup, shutdown | nothing of a dead process blocks a job or stays RUNNING; a shutdown ends |
| Run handlers and registry (`internal/ipc`) | cancel functions by run | start, cancel, cancel all | what runs can be told to stop |
| Job locks, runs, steps (`internal/store`) | tables | single statements | one run per job; no row is taken from a run in progress |
| Dispatcher and missed-run detection (`internal/scheduler`) | baseline per job, counters | tick, start, release, detection | limits are kept, each occurrence is served, none twice |
| Next-run computation | none | `NextRun` | the first occurrence after a time |
| Local retention (`internal/retention`) | files, `archive_name` column | `Apply` | keeps what the policy says, loses track of nothing while the destination stays |
| Stale remote archives (`staleremote.go`) | none | scan | not wired into the service |
| SSH dialer, host keys, client (`internal/remote`) | connection | dial with retries, run, download | bounded attempts, a credential goes to confirmed hosts only and is offered once |
| Servers and credentials (`internal/secrets`, `servers.go`) | rows, encrypted blobs | create, update, delete, test, confirm host key | no row names a missing credential; trusted keys are confirmed keys; no job without its server |
| Event hub and sessions (`internal/ipc`) | subscriber queues, one session per connection | accept, subscribe, read, answer, publish, push | bounded queues, a client that missed no event shows what is stored, the sessions of clients that have gone end |
| Jobs (`jobs.go`, `jobs_children.go`) | five tables per job | create, update, delete, enable, load | an edit is whole or absent, a deletion spares a locked job and its history, requests end on the one connection |
| Settings | one row | get, set, event | clients show what is stored |
| Migrations | schema version | apply | each version once, also over a crash |
| Notifications, logging, data directory | none | output | pure I/O |
| Desktop client | pending requests, timer, connection, providers | requests, reconnect, events | an answer reaches its request, one connection at a time, it reconnects |

### How they interact

* A run is one goroutine. It shares the database with everything else, its
  context with the registry (manual runs) or with the service (scheduled runs),
  and reports through synchronous event sinks, one of which counts the wait
  group of the shutdown.
* The poll loop, the missed-run detection and the workers of dispatched runs
  share the dispatcher's baselines and counters under a mutex; the detection
  runs beside the loop for as long as its catch-up runs take.
* Requests of several sessions are handled at once. A handler reads a whole
  server row, may wait for a file or a handshake, and writes the whole row back;
  the secret of a server is a file beside the database, outside any transaction.
* Client and service talk over a named pipe, one line per message. Responses and
  events are written by two goroutines of a session; requests count their ids up
  over all connections, and a request that timed out may still be executed.
* All statements share one database connection, which a transaction keeps.
* The only thing that keeps two runs of a job apart is the primary key of
  `job_locks`. Only the database and
  the files survive a crash.
* Hard behaviours: cancellation between any two blocking calls; deferred calls
  in reverse order; statements that fail because the context was cancelled; a
  handler and a goroutine that own one run record; a shutdown that races a
  start; crashes during a run, during recovery and during retention; time that
  passes between reading the clock and using it.

## 2. Modules

| Module | Models |
|---|---|
| `RunEngine` | one run, from `beginRun` to the release of the lock |
| `RunContract` | what one run promises to the rest; `RunEngine` implements it |
| `Service` | many runs, startup and recovery, handlers, shutdown, crashes, the lock and run tables |
| `Dispatcher` | poll loop, limits, missed-run detection, pause, restarts |
| `Retention` | the archives of one job over many runs |
| `Servers` | server rows, secrets, trusted host keys, their handlers, and the connections of tests, confirmations and runs |
| `Store` | the database connection, transactions and queries of jobs, migrations, job handlers |
| `Ipc` | the client's connection and requests, sessions, event hub, settings |
| `Calendar` | `NextRun` over months, leap years and daylight saving time |
| `*Proofs` | theorems about the module of that name, checked by TLAPS |
| `MC*` | instances for TLC |

The modules are layers of one system. `Service` has a whole `RunEngine` run in
its action `Execute` and keeps the statements before and after it; `Dispatcher`
has a run as beginning and end; `Retention` has the stages of a run as those
outcomes that matter to its archives, and has the `ApplyRetention` of `RunEngine`
as its statements and file operations; `Servers` has its `Connect` as the
attempts of `Dial`; `Store` has the single actions `DeleteJob` and `Acquire` of
`Service` as transactions and statements; `Calendar` computes what `Dispatcher`
takes as the constant `Sched`.

### RunEngine

The control is the pair (`stage`, `pc`): the stage function, and the place in it
(`start` creates the step row, `work`, `record` writes its end). `idx` and
`attempt` are the loop variables. `TransportRun` is what an SSH command may
return, including an error after the command was started. `DbWrite` is a
statement on the context the code passes at that place: it fails if that
context is done, else it may fail by itself up to `MaxFaults` times.
`DbWriteDetached` is one on `context.WithoutCancel`. `Cancel` may happen between
any two steps. The drain of the cleanup registry has its own context, whose
deadline is `BudgetExpires`. Archives and files are reduced to absent, partial,
matching or not matching; output, messages, sizes and the text of commands are
left out. Preflight has the outcome of its remote checks, of the measurements
(unknown ones only warn) and of the local destination. `AwaitsPeer`
names the places where the goroutine waits for the server. `ran`, `good` and
`reached` are history variables.

### Service

`pc[r]` is the goroutine of run `r`, `call[r]` the `runs.start` handler that is
still busy with it; the two race as they do in the code. `svc` is the phase of
the process; startup and shutdown are one action per statement or call.
`ProcessGone` is what a crash or an exit does: everything but the database is
lost. Steps, logs and the toast sink are left out.

### Dispatcher

Time is counted in units of the schedules' resolution, the calendar is the set
of occurrences of each schedule (`Sched`), and `NextRun` is defined over it,
with the zero time that cron returns for an expression that never comes due.
`tick...` is the poll loop, `det...` the detection, `wpc` and `wjob` the
goroutines of `runAndRelease`. A tick reads settings and jobs in one step: the
code reads them one after the other and does nothing in between. The jobs of a
tick and of a detection are taken in any order. `firedAt`, `blind` and `quiet`
are history variables.

### Retention

`disk` maps a directory and the local time in a file name to the run that wrote
the file; `LocalTime` is the calendar, in which two start times may show the same
local time. `dirOf` is the local destination in the job each run has loaded;
`jobs.update` may have changed it since the run before, so it is any of `Dirs`.
A run writes to its own directory (`Path`) and looks for the archives of all
earlier runs there, too (`removePath`), as `Apply` joins their names to the
destination of the job it was given. The limits are constants of an instance;
that they are edited between runs is left out.
`named` is the set of rows with an archive name. `Apply` is `ListArchived`,
then `RemoveFile` and `ClearRow` per archive, newest first. A failure of the step
row of the stage has the same effect as a failing `ListArchived`. `hit` is
history: runs a crash, a cancellation or a fault touched.

### Servers

`live` and `rows` are the `servers` table, `secrets` the directory of secret files
(`torn`: truncated by a write that did not end), `jobs` the `server_id` of each job,
`hostKey` what a host presents at the moment. `pc[p]` is the statement, file
operation or handshake that session or run `p` makes next, `req[p]` its request
and `snap[p]` its copy of the row, which may be old by the time it is used.
`Abort` may end a handler before any of its steps: it stands for every error
return, for validation of fields, cancellation and crashes, so the properties of
this module hold wherever a handler stops. Identifiers are drawn once (`issued`),
as those of `NewID` are random. `dialOnce` is the set of what one TCP dial and
handshake can give; a handshake that breaks before the key exchange has the code
of an authentication failure and an empty key, as in the code. `asked`, `seen`,
`sent` and `sends` are history variables: what the user confirmed, which keys the
handshakes of confirmations met, which hosts a credential was offered to, and
how often by a request.

### Store

A thread (a session, or `Main` during startup) works off a program, the sequence
of the statements that the code makes; `conn` is the thread whose transaction has
the connection, `tx` what it sees and `db` what is committed. Every row is
represented by the number of the edit that wrote it, numbered in the order in
which transactions begin, so that a mixture of edits shows. The queries of
`loadJobs`, `BeginTx` and the reading of versions go to the pool and wait for the
connection even if the thread itself holds it. `Accepted` has the constraints of
the schema and the checks of the code. Sources and scripts are one row each, the
enabled flag is left to `Dispatcher`, the reference to a server to `Servers`.

### Ipc

`link[k]` is a connection: whether the client has it open, what its session does
(`sess`), the lines under way in either direction and the channel of published
events. The lines between `update` and `Publish` of `handleSettingsSet` are two
steps, and other clients' sessions are kept as those two steps (`OtherUpdate`,
`OtherPublish`). A value of the settings is the number of its write. On the client's
side each callback of the event loop is a step. `StopService` is the end of the process,
orderly or not. A pipe is unbounded: a full one delays a writer, which the
model has anyway. `executed`, `calm` and `whole` are history variables.

### Calendar

Instants and the wall clock are counted in slots of the day; a zone is a set of
summers, the intervals of instants in which its clock is one slot ahead. The day a
month begins with is computed from its year and a table, as in package time, and
not from the month before, so that months can be reasoned about without
induction. `Date` and `CronNext` stand for `time.Date` and the cron library, by
what the code asks of them; the search of the library gives up after five years
(`NeverDue`). Times beyond the window are not told apart. The state walks a
schedule as `considerJob` does: a tick comes at most `MaxDelay` after an occurrence
and becomes the next baseline. `NextIsFirst` compares `NextRun` with what the
schedule means (`MeantFor`), which is defined without it.

## 3. Runs

| Run | Shows |
|---|---|
| `run_engine` | nine job configurations, a cancellation anywhere, a failing write: `NoFalseSuccess`, `RetentionOnlyAfterSuccess`, `CleanupExactlyOnce`, `RecoveryTruthful`, `HistoryTruthful` (a verified run fails only by a script; unless the database failed, an archive left on the server is reported and every step is closed), `RunEnds` (a run is over and has given back its lock if the server does not leave it waiting for ever), and that the engine implements `RunContract` |
| `service` | two jobs, two runs, a crash, a failing statement, deletions, shutdowns: `OneRunPerJob`, `DeleteSparesActive`, `WaitGroupExact` |
| `service_recovery` | two runs of one job over a crash, restarts and a failing statement: `NothingLeftBehind` (no lock of a dead process, no RUNNING row without a run), `ShutdownEnds`, `CrashedRunsRecovered` |
| `dispatcher` | two jobs on one server, a restart, a request, a fault, one job to catch up and one to skip: `ServerLimitKept`, `BacklogCollapses` |
| `dispatcher_live` | two jobs on two servers under a global limit of one: `GlobalLimitKept`, `DueIsServed` (unless other jobs are started again and again), `MissedRunCaughtUp` |
| `retention` | four runs, a destination that may change between them, both limits, a fault, a crash, cancellations, clocks that go back: `OwnArchiveSurvives`, `PolicyEnforced`, `NoForgottenFile` (but for archives in a destination the job has left) |
| `servers` | two sessions or runs at a time, four requests, two servers, a host that changes its key, a job: `TrustConfirmed`, `OfferedToConfirmed`, `CredentialsResolve`, `JobsHaveServers`, `OfferedOnce` |
| `store` | two sessions, one job, two edits, two migrations, a failing statement, a crash: `AggregateWhole`, `LoadsForward`, `MigrationsRestartable`, `DeletionSafe`, `RequestsEnd` |
| `ipc` | three requests, a write of another client, two stops (service or client), time-outs: `RequestsAnswered`, `OneConnection`, `InSyncWhenCalm`, `Reconnects`, `SessionsEnd` |
| `calendar` | 15 months, all kinds of schedules, four zones: `NextIsFirst`, `EveryMonth` |
| `doc_*` | disagreements with a comment or the specification (section 6); each ends with a counterexample |

### Bounds, and why they are enough

* `run_engine`: the configurations cover every condition, both phases, two
  scripts in one phase, a critical script its own condition skips, a health
  check with a retry, and the stop-archive-start job of the documentation. One
  fault at any statement, together with a cancellation, which makes every
  statement on the run's context fail, has a failure hide another.
* `service`: two runs are needed for exclusion, two jobs for a lock that is
  released under the wrong id; runs are interchangeable, so `Runs` is a
  symmetry set (not in the run with liveness).
* `dispatcher`: time 0..2 with schedules {1, 2} and {2} has a backlog of two
  occurrences, a common one, and a restart in between. Workers are
  interchangeable. `dispatcher_live` leaves out restarts and requests, which
  would cut off the promises it is about. Its clock stops, and with it the
  starts of a job that starves another; that they stop is a premise of
  `DueIsServed` all the same, because on a clock that runs they need not
  (section 6).
* `retention`: four runs with `keep_last` 1 and `max_age_days` 2 over six days
  give a run outside both limits, outside one of them, a run that failed in
  between, and a later run that finds what an error left behind. Two directories
  let the destination change and change back. Deadlock is
  off in `dispatcher` and `retention` because their clock is bounded.
* `servers`: four requests are a creation, a confirmation and two more that
  overlap; two servers and two references are needed for one handler to
  touch what belongs to another; one host suffices because a change of its key
  is, to a server, the same as a change of the host. Deadlock is off because
  requests are bounded.

* `store`: two sessions are needed for one to come between the statements of the
  other; two edits for a mixture; two migrations are those that are embedded.
  `MaxFaults` and `MaxCrashes` of one let an error or a crash fall between any two
  statements, and a start after it.
* `ipc`: the event channel holds two, so that it overflows; three requests are a
  load and two writes; two stops let a client lose its connection twice, or be
  disposed after a loss. Two connections suffice because the client has one and
  one may be ending. Deadlock is off because requests are bounded.
* `calendar`: 15 months from January 2024 have the turn of a year, a February
  with 29 and one with 28 days and both changes of the clock. Three slots are
  one before, one at and one after the change. The zones have no summer, one north
  of the equator (east and west of Greenwich, where `time.Date` reads a skipped or
  repeated time differently), and two south of it that reach out of the window.
  Deadlock is off because the window ends.

### Fairness

* `RunEngine`: weak fairness of the goroutine where it does not wait for the
  server, none where it does (`AwaitsPeer`): opening a session and starting a
  command come before the select on the timeout and `<-done` after it
  (`client.go:45`, `:57`, `:69`), the handshake, `sftp.NewClient`, the transfer and
  `Close` have no deadline at all. `RunEnds` has as a premise that none of these
  waits is for ever. Cancellation and the deadline are not fair.
* `Service`: weak fairness of recovery, of the statements around a run, of the
  handler and of a shutdown once begun; the service is registered with automatic
  start. None for `Execute`, which may wait for its server
  without end, for users or crashes.
* `Dispatcher`: weak fairness of the poll loop, the detection and the workers'
  own steps. None for the length of runs, users and the clock; that runs end is
  the premise `RunsEnd` of both liveness properties. `DueIsServed` has a second
  one, that the loop does not start other jobs without end.
* `Store`: weak fairness of startup; strong fairness of the statements of a
  session, because `database/sql` hands a connection that is given back to those
  that wait for it. None for requests, crashes and failures.
* `Ipc`: weak fairness of each session, of its writer of events, of the callbacks
  of the client and of other sessions' publication. None for users, time-outs and
  the service manager; that the service stays up is the premise of `Reconnects`.
  The handlers of the model are those of the settings, which wait for nothing but
  the database. Those that dial (`servers.testConnection`, `servers.confirmHostKey`,
  `jobs.validate`) may wait for a server as a run does, and `SessionsEnd` says
  nothing of a session that is in one of them.

The runs of `run_engine` and `retention` check a type invariant; those of the other
modules with a state are parts of the inductive invariants that are proved
below.

## 4. Proofs

TLAPS proves for every value of the constants:

| Theorem | States |
|---|---|
| `RunEngineProofs!TypeCorrect`, `SuccessIsVerified`, `RetentionIsSafe` | `TypeOK`, `NoFalseSuccess`, `RetentionOnlyAfterSuccess` for any job configurations and any number of faults |
| `RunEngineProofs!EngineImplementsContract` | `ImplementsContract`: every step of the engine is a step of `RunContract` or a stutter |
| `RunEngineProofs!ScriptsRunOnce`, `RecoveryIsTruthful`, `HistoryIsTruthful` | `CleanupExactlyOnce`, `RecoveryTruthful`, `HistoryTruthful` for any number of scripts in any order |
| `ServiceProofs!RunsExclude`, `DeleteIsSafe`, `WaitGroupIsExact`, `RecoveryIsComplete` | `OneRunPerJob`, `DeleteSparesActive`, `WaitGroupExact`, `NothingLeftBehind` for any number of jobs, runs, crashes and faults |
| `DispatcherProofs!ServersAreExclusive`, `GlobalLimitHolds`, `BacklogIsOneRun` | `ServerLimitKept`, `GlobalLimitKept`, `BacklogCollapses` for any jobs, servers, workers and schedules |
| `RetentionProofs!RetentionTypes`, `OwnArchiveIsSafe`, `NothingForgotten`, `LimitsAreEnforced` | `TypeOK`, `OwnArchiveSurvives`, `NoForgottenFile`, `PolicyEnforced` for any policy, calendar, directories, number of runs, faults and crashes; `NothingForgotten` excepts the archives of runs after which the destination has changed, as the property does |
| `ServersProofs!TrustIsConfirmed`, `OnlyConfirmedHosts`, `CredentialsAreThere`, `JobsKeepServers`, `OneOffer` | `TrustConfirmed`, `OfferedToConfirmed`, `CredentialsResolve`, `JobsHaveServers`, `OfferedOnce` for any number of servers, secrets, hosts, keys, sessions and requests |
| `StoreProofs!AggregatesAreWhole`, `LoadsAreForward`, `MigrationsAreRestartable`, `DeletionsAreSafe` | `AggregateWhole`, `LoadsForward`, `MigrationsRestartable` and the action property `DeletionSafe` for any jobs, sessions, number of migrations, edits, failures and crashes |
| `IpcProofs!ConnectionsAreSingle`, `AnswersAreTrue`, `CalmClientsAreInSync` | `OneConnection`, `RequestsAnswered`, `InSyncWhenCalm` for any number of requests, writes of others and stops and any size of the event channels |
| `CalendarProofs!NextRunIsFirst`, `MonthsAreServed` | `NextIsFirst` and the action property `EveryMonth` for any window of months, slots of a day, schedules, delays below a day and time zones |

They rest on the named assumptions of the modules (`JobsAssumption`,
`ServiceAssumption`, `DispatcherAssumption`, `RetentionAssumption`,
`ConstantsDistinct`, `StoreAssumption`, `IpcAssumption`, `CalendarAssumption`,
`ZonesAssumption`): types of the
constants, a finite set of runs or workers because they are counted, at least
one job and one limit of at least one, which `Settings.Validate` ensures, at
least one migration and one place in a channel, and empty values that are not
identifiers, references or keys. `ZonesAssumption` is the one that not every
host meets: the summers of a zone are apart, and the clock is not changed at
midnight. Without it both theorems about `Calendar` are false (section 6).

The inductive invariants; TLC has checked each of them on the instance of its
module before it was proved:

* `RunEngine!IInv` adds to the types what a stage may rely on: where each place
  of control belongs (`Control`), that the stages behind the download have a
  failure, a cancellation or a verified archive behind them, and that nothing
  fails once retention has begun (`Evidence`), and how status, row, event and
  lock go together (`Bookkeeping`). `NoFalseSuccess` alone is not inductive: that
  `finalStatus` finds none of the three flags says something only with
  `Evidence`. The refinement of `RunContract` is proved from it step by step.
* `RunEngine!ScriptInv` says where the two loops and the drain are in the list
  of scripts (`Position`), and from that, for each script, whether it has run
  (`RunCounts`) and is in the registry (`Registration`). That a registered action
  runs once is not a matter of any one of the three places that take it up: the
  registry has to agree with how far each of them has come.
  `HistoryInv` adds who is to blame for a failure after the verification
  (`Blame`), that an archive left behind shows (`Tidiness`), and which step may
  be open (`OneOpenStep`).
* `Service!ServiceInv`: a goroutine past `Acquire` owns the lock of its job and
  the job has a row (`HoldersOwnLock`), and goroutines exist only after recovery
  (`LiveOnlyWhenUp`), so that neither `Release` by job id nor the release of stale
  locks takes a lock from a run. `OneRunPerJob` follows because a lock has one
  holder. `RecoveryInv` says what recovery has still before it: the locks that it
  has not looked at, and from its statement on only rows of its own runs.
* `Dispatcher!LimitInv`: the counters are the cardinalities of the sets of busy
  workers (`CountersExact`) and within bounds (`Uncrowded`).
* `Dispatcher!BacklogInv`: the baseline of a job is not older than its last start,
  whether the poll loop or the detection set it (`BaselinesCover`), except between
  a start and `Advance`, when the loop is busy with this very job. The detection
  keeps that because the occurrence it found missed lies between a start it has
  seen and its own time. With it, `NextRun` from the baseline is new.
* `Retention!RetentionInv`: start times grow with the runs (`RunsInOrder`), so the
  run in progress is first in the list and `keep_last` protects it; where the
  run has looked for what it clears there is no file (`RunControl`), so a row that
  is cleared with its file still elsewhere is of a run that had another
  destination, which is the exception `Moved`; a file of the run in
  progress is verified, so its name is in memory (`FilesVerified`). For
  `PolicyEnforced`, `Purged` has in every state of `Apply` that what is outside the
  limits is still to be done; clearing a row only moves the others forward in the
  list, so what was within the limits stays there (`ShorterList`).
* `ServersProofs!IInv`: `TrustConfirmed` is not inductive because handlers write
  back old copies, so `Trust` says the same of every copy in flight and of the request
  of a confirmation. `CredentialsResolve` needs that a secret belongs to one
  server, in rows and in copies alike (`Owned`), which rests on identifiers being
  drawn once (`Issued`), and that the secret of a copy is there as long as the
  copy may still be written (`Present`): a deletion removes it only once the row
  is gone, and the UPDATE of a row that is gone affects none. `Shape` says which
  requests are where, `Offers` that nothing is offered before the handshake.
* `Store!StoreInv`: a program is known by which statement may follow which
  (`WellFormed`, `Follow`), so that the next statement of a thread tells what its
  transaction has done (`Written`, `Emptied`); the connection is taken exactly
  while a thread has statements of a transaction before it (`Discipline`), so the
  database stands still under one (`Aggregates`, `Numbered`, `Deletions`); the
  version that startup applies is the lowest missing one (`Migrating`).
* `Ipc!IpcInv`: the client knows the only transport that is open (`Transport`); a
  request that no handler has run for is in one place of one connection
  (`Waiting`); what is on its way back answers an executed request under the id
  it was sent with, and ids are not used again by a later connection (`Answers`).
  `Sync` is the state of the one connection while requests do not overlap: at
  most one is under way (`Stage`), a response somebody still waits for has the
  settings as they are (`Told`), and the last event under way has them too, or
  nothing is under way and they are shown (`Shown`).
* `Calendar!CalendarInv`: a monthly job was started last for the occurrence of some
  month, by a tick less than a day later. `EveryMonth` is not inductive without
  the second half: a tick that is late may be in the next month already, and only
  because the day it was late for is then the last of its month is the
  occurrence of the next month still to come (`NextMonthServed`). Under it lie
  lemmas about the calendar (`MonthLength`, `MonthsInOrder`, and that every day is in
  one month, `MonthOfDay`, `OneMonth`), about the clock (`DateFacts`: `time.Date`
  returns an instant of the day asked for, with the time asked for unless the clock
  is changed then) and about the search for a due day (`CronFacts`, from the least
  element of a set of numbers, since nothing recursive is left in the model).

Only model-checked:

* the liveness properties `RunEnds`, `ShutdownEnds`, `CrashedRunsRecovered`,
  `DueIsServed`, `MissedRunCaughtUp`, `RequestsEnd`, `Reconnects`, `SessionsEnd`:
  fairness and ENABLED are outside the prover's reach.

## 5. Not modelled

Listed with the reason in `PROJECT.json`: the Windows APIs (DPAPI, toasts, service
control), JSON framing, logging, validation of fields other than schedules, the
formatting of columns and the screens of the client have no state a property
would be about. The notifications translate a finished run into a toast; the scan
for stale remote archives is not called by the service; job validation makes the
checks of preflight without a run. Providers of the client other than that of the
settings load again after an event and keep no copy of their own.

## 6. Findings

Each is a run that ends with a counterexample.

* `DrainHasConnection`: after a cancellation the connection is closed before the
  guaranteed cleanup actions run, because the deferred calls run in reverse
  order; a service that a PRE script stopped stays stopped.
* `PausedNeverCaughtUp`: while paused, baselines do not advance; resuming starts
  what came due meanwhile.

### Further observations

Behaviour met while modelling that no run is kept for:

* The last update of a cancelled run uses its cancelled context and fails: the end
  of the run is announced and its row stays RUNNING until the next start
  (`engine.go:194`), although the comment at `engine.go:178` has it persisted.
* `keep_last` counts rows with an archive name, and a run names its archive before
  it exists: a few failing runs make retention delete good backups although
  fewer than `keep_last` are there (`retention.go:101`).
* A job may be loaded as a mixture of two edits, because its five queries are not
  one transaction (`jobs.go:298`); `domain/job.go:16` has it "persisted and loaded
  as one unit". A `runs.start` or a tick may run such a job.
* `jobs.update` and `settings.set` write every column from the copy of the client,
  so an older copy takes back what was changed meanwhile, `enabled` included.
* Overlapping writes of the settings may publish in the other order than they
  were stored, and the answer to `settings.get` may arrive after the event of a
  later write: the client then shows old settings until the next event,
  although `settings_providers.dart:14` has them kept in sync. Nothing loads them
  again after a dropped event or a reconnection, which `eventhub.go:9` relies on.
* A request that ended with TIMEOUT or SERVICE_UNAVAILABLE may have been executed.
* A client that is disposed while it connects keeps the connection it then gets.
* When the pipes of a connection are full in both directions, the worker of the
  client and the session may wait for each other; the worker does not read
  while it writes.
* DAILY and WEEKLY jobs do not run on the day the clock skips their hour and run
  twice on the day it repeats it; MONTHLY jobs do neither. Where the clock changes
  at midnight (`ZonesAssumption` excludes it) a monthly job at midnight may start on
  the day before; if that day is the last of a month, `nextMonthly` returns a time
  that is not after the given one, although the comment at `nextrun.go:22` has it
  strictly after, and the job is due at every tick until the month is over.
* `Schedule.Validate` accepts weekdays outside 0..6, which the cron parser refuses;
  `considerJob` ignores the error and the job never runs.
* A cancelled run leaves its archive on the server without an attempt to remove
  it (`runcontext.go:124`); the `.part` file stays when the verification step cannot
  be recorded or the rename fails (`download.go:119`, `:136`).
* A cancellation that comes during the last stages, where it is not looked at
  again, ends as SUCCESS or FAILED.
* `handleRunsStart` reads the status of a record the run's goroutine owns. A run
  that is over by then is taken for a skipped one and cancelled, which can lose
  its last update; a run that ends between the check and `Register` stays in the
  registry.
* Scheduled and catch-up runs are not in the registry: `runs.cancel` answers
  NOT_FOUND for them. The limits count scheduled runs only, neither catch-up nor
  manual ones.
* A crash between `InterruptRunningRuns` and the update of its runs leaves rows that
  are INTERRUPTED with the short text of `runs.go:205` and never get the recovery
  outcome FAILED and the text about it.
* When the local destination of a job is edited, retention looks for the archives
  of its earlier runs in the new directory (`retention.go:80`), finds none, and
  clears their rows as deleted: the files stay in the old directory for good and
  the history has forgotten them, although `retention.go:18` clears a row so that
  "history reflects that no local file remains". This is the exception `Moved` in
  `NoForgottenFile`; without it there is a counterexample.
* There is no queue of due jobs, although the comment at `dispatcher.go:140` has one
  that is blocked "wait in the dispatch queue": a tick looks at the jobs in the
  order of their names. A job that comes first and whose runs outlast its period
  is due whenever there is room and takes it, and another due job waits for ever
  although every run ends. This is the second premise of `DueIsServed`.
* A server that stops answering at the wrong moment keeps a run waiting without
  bound, also with a command timeout configured (see Fairness); the run keeps its
  job lock until the connection breaks or the service is restarted, and cancelling
  it need not help.
* A start for a job deleted in between is recorded as SKIPPED "already running",
  because any constraint error of the lock table counts as that.
* Without the exemption in `BacklogCollapses` there is a counterexample: the
  detection reads the history, the loop starts the job, the detection then sets
  the baseline back and starts a catch-up run, and the next tick starts the job
  again.
* An occurrence between the clock reading of the detection and the first tick is
  handled by neither. A cron expression that comes due in none of the next
  five years (30 February, or 29 February around a century that is no leap year)
  makes its job due at every tick (`nextrun.go:51`); `BacklogCollapses` and `NextIsFirst` leave such
  schedules out, because they have no occurrence to be right about.
* When the clocks go back, a run may replace the archive of an earlier one with
  the same local time, and deleting the older row's archive deletes the newer
  file (the exception in `OwnArchiveSurvives`).
* A `runs.start` request that has loaded its job before the shutdown registers its
  run after `CancelAll` took its snapshot: it is waited for and never told to stop
  (`activeruns.go:53`), although the comment at `wire.go:241` has every active run
  cancelled.
* The comment at `dialer.go:16` says three attempts, the loop makes four. A
  handshake that breaks for any reason but the host key is coded as an
  authentication failure and never retried, although the comment at `dialer.go:130`
  has only rejections as final.
* A create or update that is rejected after `storeCredential` has already written
  the secret: a new one stays without a row, a replaced one is in force. A
  `Replace` that fails has destroyed the old secret (`secrets/store.go:59`). A
  deletion with an old copy of the row may leave a secret without a row.
* `servers.update` and `confirmHostKey` write back the whole row they read, so of
  two that overlap one loses its change.
* A server that is switched from PASSWORD to PRIVATE_KEY keeps its password as
  the passphrase of the key, and no request can clear it.
* `testConnection` reports an empty presented key as a changed one when the
  handshake breaks early; confirming an empty fingerprint at such a moment
  clears the trust.

## 7. Plan

Done, in this order: `RunEngine` with `RunContract`; `Service`; `Dispatcher`;
`Retention`; `Servers` with the dialer; first proofs of each; `Store`; `Ipc`;
`Calendar`.

Proofs since: `RunEngine` implements `RunContract`; the scripts, the recovery
outcome and the history of a run; `NothingLeftBehind`; `BacklogCollapses`;
`PolicyEnforced`; every safety property of `Store`, `Ipc` and `Calendar`. Every
invariant and action property that a passing run checks is now a theorem.

What could follow: what `Service` takes for granted of `Execute`, stated over
`RunContract`.
