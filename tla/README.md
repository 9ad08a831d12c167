# wisp-ops-center: a formal model

TLA+ modules beside the Go code of wisp-ops-center, an operations centre for a
wireless internet provider: it measures customers and access points, scores them,
proposes work orders, tracks them until they are resolved, and runs checks on a
schedule. TLC checks small instances of the modules; TLAPS proves theorems about
them for every value of their constants. Paths below are relative to `src/`.

## The system

Two processes share one PostgreSQL database and never talk to each other directly:

* the **API** (`apps/api`), where every HTTP request is a goroutine that reads and
  writes through the repositories of `internal/*`;
* the **worker** (`apps/worker`), where a loop starts jobs as goroutines.

So all interaction is through rows. Some operations are transactions that lock the
row they decide on, some are single statements, and some are a row of single
statements with decisions in between. Nothing else is shared, except that the
worker's loop, its jobs and `main` share a semaphore, a WaitGroup, a context and the
connection pool.

| Component | State it keeps | Operations | What is hard | What makes it correct |
|---|---|---|---|---|
| **Work orders** `internal/workorders`, `handlers_workorders.go` | `work_orders`, `work_order_events` | Patch, Assign (with auto_start: two transactions), Resolve, Cancel, AppendEvent, creation by promotion | requests racing for one row; stale decisions; stamps that are as old as the transaction's BEGIN; a stop between two transactions | the status moves along the transition table; a closed order stays closed; the timeline explains the row; exactly the resolved orders have a resolution time; nobody waits for ever |
| **Candidates** `internal/scoring/repository.go`, `workorders.PromoteCandidate`, `handlers_scoring.go` | `work_order_candidates` | create with the duplicate and cooldown checks, promote, set status | five statements without a transaction; two promotions at once; a status change during a promotion; a swallowed error | candidate and order point at each other; one order per opening; duplicates only between simultaneous creations |
| **Scheduler loop** `apps/worker` | semaphore, WaitGroup, jobs; reads `scheduled_checks`, inserts `job_runs` | tick, start, run, record, shut down | snapshot of the table against edits; full semaphore; shutdown in every state; a check that stays due | tokens and counts belong to jobs; stopping leaves none behind; a due check is started; a withdrawn one ends |
| Planner and windows `internal/scheduler` (`planner.go`, `maintenance.go`, `engine.go`, `jobs.go`) | none (pure) | CalculateNextRunAt, Validate, IsActive, GuardWindow | month ends, midnight, daylight saving, boundaries | the next run is the first match after now; a window covers the times it names |
| Job runs, run-now `handlers_scheduler*.go`, `scheduler/repository.go` | `job_runs`, `maintenance_windows` | run-now, list, windows | rows that stay `running`; a status the schema refuses | each run reaches a final status |
| Job handlers `apps/worker/internal/*_handler.go` | none | loop over customers or devices | one failure among many, the job timeout | what is saved before the deadline is whole |
| Scoring engine `internal/scoring` (`engine.go`, `diagnosis.go`, `actions.go`, `trend.go`, `ap_degradation.go`, `thresholds.go`) | none (pure) | ScoreCustomer, Classify, ActionFor, AnalyzePeerSet, ScoreAP, ScoreLink, ScoreTower | missing and stale measurements, thresholds in any order, rule priority | score in range, severity in line with it, worse measurements never score better |
| **Hydration and score storage** `hydrator.go`, `scoring/repository.go`, `handlers_scoring.go` | `customer_signal_scores`, the copy in `customers`, `scoring_thresholds` | hydrate, score, save, scoring run, PATCH of thresholds | inputs read one by one while polls, thresholds and other runs change them; query errors taken for missing data; scores that feed the next score | the copy is the newest row; no score is made of half its inputs; the feedback raises no alarm alone |
| **Device control and telemetry** `internal/devicectl`, `internal/telemetry` | `device_poll_results`, `devices.last_poll_*`, five snapshot tables, `device_capabilities`, `audit_logs` | Probe, Poll, for two vendors and four transports | up to ten writes without a transaction, each with the caller's context; two calls at once | a poll without an error has its data; the device shows a call that no later one has followed; capabilities are proved and stay |
| **Adapters** `internal/adapters` | `ssh_known_hosts` | dial, command allowlist, parse | partial answers; trust on first use is read-then-write; an API login and the opening of an ssh session without a deadline | one key per host unless two first contacts raced |
| **Client tests** `internal/apclienttest`, `handlers_apclient.go` | audit entries | one command per request | a command that is cut short looks like one that found nothing | the diagnosis is that of the pings; a test cut short accuses nobody |
| **Credentials** `internal/credentials`, `credentials_binding.go`, the lookups of `devicectl` | encrypted profiles, bindings, the vault's key | create, update, delete, bind, look up | partial updates of secrets; a lookup of up to four reads while operators edit | bindings resolve; a lookup is refused only for a reason; the key id names the key |
| **Migrations** `internal/database` | `schema_migrations`, the schema | apply in order | files with a BEGIN and COMMIT of their own; a crash between file and record; two runners; edited files | what is recorded ran, in order; what ran is recorded |
| Reports, inventory, audit, server, web console | rows, snapshots | queries, single statements, rendering | little control | - |

## Modules

| Module | What it is |
|---|---|
| `WorkOrderStatus` | statuses, priorities and the transition table of `workorders.go` |
| `WorkOrderLifecycle` | abstract specification: an order appears open and moves along the table |
| `WorkOrders` | the transactions on orders and timelines; implements `WorkOrderLifecycle` |
| `Candidates` | creation, promotion and status changes of candidates; its orders follow `WorkOrderLifecycle` |
| `SchedulerLoop` | the worker's loop, jobs and shutdown, and the edits of the table meanwhile |
| `Schedule` | the planner and the maintenance windows on a small calendar, saved by the API's writes |
| `Scoring` | score, severity, diagnosis and action of a customer as operators |
| `ScoreChanges` | how they follow measurements and thresholds that change one at a time |
| `ScoreRuns` | scoring runs over the customers of one access point: hydrate, score, save |
| `DevicePolls` | a probe or a poll from the dial over its writes to the audit entry |
| `Credentials` | devices, profiles and bindings, their edits, and the lookup of what to dial with |
| `HostKeys` | SSH host key policies and the table of known hosts |
| `ClientTests` | a test of a customer's connection, from the request to the diagnosis |
| `Migrations` | the migration runner and the files it applies |
| `MC*` | small instances for TLC |
| `WorkOrdersProofs`, `CandidatesProofs`, `CredentialsProofs`, `MigrationsProofs`, `ClientTestsProofs` | the theorems about the module of that name |
| `SchedulerProofs` | the theorems about `SchedulerLoop` and `Schedule` |
| `ScoringProofs` | the theorems about `Scoring`, `ScoreChanges` and `ScoreRuns` |
| `DeviceProofs` | the theorems about `DevicePolls` and `HostKeys` |

`WorkOrders` and `Candidates` compose through `WorkOrderLifecycle`: the first shows
that racing requests move an order only as the lifecycle allows, the second takes
the lifecycle as the environment that moves the orders it has created. The one
operation on both, `PromoteCandidate`, is in `Candidates` with its lock and
its candidate row, and in `WorkOrders` as the one commit that inserts an order with
its first events. `ScoreRuns` extends `Scoring` and calls its `ScoreCustomer`; its rows come from the polls that
`DevicePolls` describes write by write. `Credentials` ends where `DevicePolls` and `HostKeys` begin: with a
configuration to dial.

Operators whose comment begins with "(Mutant)" are plausible slips of the code beside the
definition they vary. No specification uses them; each shows, when it replaces that
definition, that a property would notice.

### WorkOrders

A request is a process. `Begin` is the handler's `BEGIN`; `LockRow`, `RefuseRow` and
`AppendRow` are what happens when the row is free; `Commit` writes the row and the
events; `AutoStart` begins the second transaction of an assignment; `Abort` is a failed
statement, a client that goes away or a crash, and rolls back. PostgreSQL runs the
transactions in READ COMMITTED, so `SELECT ... FOR UPDATE` returns the row as it is
when the lock is granted, which is what `LockRow` reads. The locked row in `seen`, not the row at
commit time, decides what is written, as in the code, so the model would show a lost
update if the lock were missing (the mutant `AtRowUnlocked` does).

`now()` in PostgreSQL is the start of the transaction; single statements are their own
transaction. `clock` numbers the transactions as they begin, which is all the code ever
compares. A request begins only on an order that exists, because a client learns the id
from a committed row; for the others every operation ends in ErrNotFound and changes
nothing. Left out: title, description, resolution note and updated_at (nothing depends
on them), names that are no status or priority (refused before any write), and the
difference between an empty `assigned_to` and NULL (the code reads both as unassigned).
The table is the one of migration 000007.

### Candidates

`StartCreate`, `CheckOpen`, `CheckPromoted`, `CheckOrder`, `CheckRecent` and `Insert` are the statements of
`CreateWorkOrderCandidate`, each seeing the database of its own moment. `CheckOrderFails` is the status
query's error, which the code drops. `LockCandidate` and `CommitPromote` are `PromoteCandidate`; `ApplySet`
is the one UPDATE of `UpdateCandidateStatus`, which waits for a promotion that holds the row. A `Key` is a
customer with a diagnosis; scores whose severity allows no candidate never start, and neither do candidates
without a customer, which the handler does not create. `now` counts days, the unit of the cooldown. `born`,
`since` and `reopened` are history: no guard reads them.

### SchedulerLoop

`Tick` takes the snapshot, `AddJob` is `wg.Add(1)`, `StartJob` the send on the
semaphore with the `go` statement, `EndTick` the end of the range loop. A goroutine
goes through `Record`, `Handle` and `Leave` (its deferred calls). `Signal`, `CloseDB`,
`Cancel` and `Exit` are `main` returning: deferred calls run last in first out, so the
pool closes before the context is cancelled, and the process may exit while jobs run.
`CreateCheck`, `UpdateCheck`, `DeleteCheck` are the API's writes, `BecomeDue` the clock
passing `next_run_at`. Two things follow the code where one might expect otherwise: the
loop does not look at the context while it waits for the semaphore, and it never writes
`next_run_at`, so a check stays due until somebody edits it. A tick whose listing fails
changes nothing and is a stuttering step.

### Schedule

`CalculateNextRunAt` and `IsActive` are functions of a calendar that keeps what makes them hard: months of
unequal length, and days on which the clocks change. Moments count elapsed hours, as `time.Time` does;
`FirstDay` says where each month begins; `Day`, `Hour`, `OnDay` and `Date` are what package `time` makes of
them, including a day past the end of its month. At an hour that comes twice or not at all `time.Date`
promises only one of two offsets, so those operators give sets, and the properties speak of every member. A
row is written by `Post` and `Patch` and removed by `Delete`; `HourPasses` is the time between. `Save` is
what POST and PATCH have in common: the planner's error is dropped and NULL saved. On POST only `daily`,
`weekly` and `monthly` pass, because the same string goes into `cadence`, whose CHECK in migration 000001
has no other schedule. Nobody calls `GuardWindow`; `IsActive` is reached by the tests only, and is checked
at every moment up to the horizon, before, on and after the days on which the clocks change.

The code accepts any IANA time zone, so the clocks may skip or repeat any hour of a day: an inner one, the
last one, or the first one, as in America/Santiago or America/Havana, where `time.Date` makes of midnight
23:00 of the day before. `ChangeHour` gives the hour of each change. The assumptions on the calendar are
those of a real one: every month is longer than half the longest, the clocks change by one hour, at most
once in two weeks and not on the first day, a day has more than two hours, and what is planned before the
horizon lies in the calendar. Zones that change by half an hour or skip a whole day are outside.

What holds where the clocks do not change is more than what holds where they do, and each property says so:

* `WindowsOpenOnTime` speaks of every moment. It excepts (`Astray`) weekly windows on a present day that
  lacks their hour, and monthly ones whose day the month lacks and is carried to a day that lacks their
  hour: the code projects such a window by way of a day that it does not begin on, and gets an hour, or a
  day, that is not its own.
* `PlannedForFirstMatch` asks that the clocks do not change from the first day the planner looks at to the
  run (`Steady`), and that the day after the run has the hour, since a first hour that is skipped is read on
  the eve. For a monthly run the first day is that of the present month (`LooksFrom`): the planner seeks the
  run in this month first, and where the clocks skip its hour on that day, `AddDate(0, 1, 0)` keeps the hour
  that `time.Date` found instead.
* `PlannedWithinCycle` holds on every day: the wait for a run is bounded, and a monthly run is what
  `time.Date` makes of its day and hour in some month, unless the clocks skip that hour on its day in this
  month or the next.

### Scoring and ScoreChanges

`Scoring` is `ScoreCustomer`, `Classify` and `ActionFor`. A metric is an integer that
grows as the customer gets worse, or NULL; that turns the code's six comparisons,
some with a low and some with a high value as the bad one, into one. The decision tree is a
sequence of rules, the first that applies decides. In `ScoreChanges` a state is what
`HydrateCustomer` would find, with the thresholds and the result, and each step changes one of
them, so that properties can compare two results. The inputs cover the type `Inputs`
rather than what the hydrator fills today: it never sets the disconnects or the
backhaul's load, and its queries of `mikrotik_wireless_clients` and
`ap_client_test_results` name columns that the migrations do not create, so
that in production CCQ, loss, latency and jitter are missing. Not translated: two inputs that nothing sets, the
degradation of the whole access point with its last rule (`diagnosis.go:49-51`) and the age limit of a single
customer (`diagnosis.go:106-108`); the regression behind
the trend (only whether it falls matters to the engine); and `ScoreAP`, `ScoreLink`,
`ScoreTower` and `AnalyzePeerSet`, which nothing calls outside the tests.

### ScoreRuns

A run is `POST calculate-score`, `POST scoring-runs` or the worker's `customer_signal_check`:
`LoadThresholds` reads the thresholds once, then for each customer `HydrateCustomer` reads the newest
reading, `ReadPeers` counts the critical customers of the access point (from the copies in `customers`, so
from earlier scores), `Compute` scores and `SaveCustomerScore` inserts the row and updates the copy in one
transaction. `ContextEnds` is the worker's deadline or a client that goes away: from then on every read
fails and is taken for missing data, and the save fails. `PatchThresholds` starts a PATCH of one or several
keys, which is refused as a whole if one is out of range, and `UpsertThreshold` writes one key of it, or
fails to and goes on, so that runs read between the keys. `PollAccessPoint` is the newest Mimosa poll; the
hydrator takes any row of it (LIMIT 1), whoever the customer is. Its other queries name columns that the
migrations do not create (see Scoring), so their values are missing, here as in production. How old a
reading is is left out: it decides a diagnosis but no severity. `clock` numbers the computations, which is
what `calculated_at` orders; `raced` is history.

`AlarmsHaveASource` is about the feedback: the penalty for degraded peers counts scores that contain it. It
can keep an alarm up (two customers who score 60 alone stay at 48 once 40% are critical), but not
raise the first one. A threshold of 0, which a PATCH accepts, makes every access point degraded and is excepted.

### DevicePolls

A call talks to the device (`Talk` chooses one of the outcomes that the adapter can return: the operators
`ApiPoll`, `SshProbe`, `MimosaPoll` and so on translate the adapters section by section), then `Record`,
`Mirror`, `Insert` row by row, `CapabilitiesUpsert` and `Audit` are the writes, in the code's order for each
vendor and operation. Each write may fail: a failed write stands for an ended context, a timeout and a
database error alike. A crash is a call that takes no more steps, which every safety property allows.
`DeviceHangs` is what has no deadline: the login of the RouterOS API, and over ssh the handshake, the
authentication and the opening of a session, as the timeout of the ssh client ends with the TCP connection.
`earlier`, and `unseen` and `torn` in a call, are history: they say whose effects a property may count on.
Left out: the values of the rows, `vendor_mib_status`, and the status `blocked`, which nothing produces. The
worker's handler for polls gets no payload from the loop and returns an error, so that calls come from the
API.

### Credentials

`device`, `profiles` and `bindings` are rows of one device; every edit is one statement. A ciphertext is the
key that encrypted it, so that it can be opened with that key only; without a key in the environment the
vault is the one that refuses everything and names itself `noop`, and `Restart` changes the key. Two keys
have two ids here: the code folds a key to eight bytes (`credentials.go:194-208`), so that two keys could
share one, but nothing decides by the id. A lookup is `LoadDevice`, `LoadDeviceAgain` (Mimosa reads the row
twice), `LoadCredential` (the best enabled binding with its profile, then decryption) and `LoadUSM` (SNMPv3
reads the profile once more). `Usable` is what the code needs of a profile for a vendor. `calm` and `born`
are history. The protocols of `buildUSM` are looked at when dialling, so that such a failure is one of
`DevicePolls`. Left out are the lookups that are refused because a query failed (`service.go:60-62` and
`113-115`, `snmpv3.go:44-46`), which say nothing about the rows. The purpose `fallback` is stored and read
by nothing.

### HostKeys

`Dial`, `Handshake`, `Get`, `Put` and `Login` of a connection follow `EnforcePolicy`; `ReplaceHost` gives
the host another key. The API's store is the table, an upsert; the worker sets no store, and the adapter
then makes an empty one per connection. `met` and `first` are history: which connections overlapped, and
which made a first contact. An upsert that fails is taken to have written nothing; one that commits and is
nevertheless reported as an error (`hostkey.go:94`) would refuse that connection and leave its key pinned.

### ClientTests

`Request` validates; `Ping` appends what became of one ping; `PingExits` parses the whole text,
`PingIsKilled` what was printed up to any point, `PingIsRefused` the error of a ping that does not start or
finds no network; `ended` is history, which of the three it was. `Hop` and `TraceExits` are the traceroute.
Loss and diagnosis are computed as the parser and `classifyPing` do. The INSERT of the result gives no
`run_id`, which the table requires, and its error is dropped, so that the model has no table of results: the
audit entry is the one trace. A traceroute to a silent target counts as healthy, as in the code.

### Migrations

`Discover`, `ListApplied`, `NextFile`, `Exec` and `Record` are the runner; `Die` stops it anywhere, `Edit`
changes a file. `slipped` is history: the files edited after a run took their checksum and before it read
their text, which are the two reads of `migrations.go:185`; an edit before or after them does not count. A
file is data: its statements, and whether it commits by itself (000006 and 000007 do). PostgreSQL's locks on
tables under change are the guard `Unlocked`: DDL waits for the other runner's transaction. The work order
modules above use the tables of 000007, which the finding below shows cannot be applied on an empty
database; they describe one on which it could.

## Runs

| Run | Instance | Shows |
|---|---|---|
| `work_orders` | 1 order, 2 requests, 4 transactions; 215,121 states | `ResolvedStamp`; `TimelineExplainsRow`; `ClosedIsFrozen`; `ImplementsLifecycle` (refinement); `EveryRequestEnds` (liveness) |
| `candidates` | 2 candidates, 2 orders, 2 requests, 1 key, cooldown 0 or 1 day, 1 day; 1,882,369 states | `PromotedLink`; `OneOrderPerOpening`; `OpenDuplicatesWereRivals` |
| `scheduler_loop` | 2 checks, 2 tokens, 2 goroutines; 186,705 states | types; `SlotsAccounted`; `DrainedWhenStopped`; `EveryDueCheckRuns` and `WithdrawnChecksStop` (liveness) |
| `schedule` | 43 days of 3 hours, 74 schedules, 169 windows; 21,348 states | `WindowsOpenOnTime`; `PlannedForFirstMatch`; `PlannedWithinCycle` |
| `score_changes` | measurements good, borderline, bad or missing; four threshold tables; 62,208 states | types; `LostPointsAreDiagnosed`; `WorseNeverScoresBetter` |
| `score_runs` | 2 customers, 2 runs, 3 scores, 2 readings, PATCHes of two keys; 688,756 states | types; `CacheIsNewest`; `NoScoreIsCutShort`; `AlarmsHaveASource` |
| `device_polls` | 2 calls, 1 station, both vendors, all transports; 907,253 states | `MirrorFollowsCalls`; `SnapshotIsWholeOrTold`; `CapabilitiesAreProven`; `CapabilitiesStay`; `CallsEnd` (liveness) |
| `credentials` | 2 profiles, 2 transports, 1 lookup, 1 vault key or none, 3 bodies; 846,230 states | `BindingsResolve`; `RefusedForAReason`; `DeletedIsNotDialled`; `KeyIdNamesTheKey` |
| `host_keys` | 3 connections, 2 keys; 780,886 states | `OneKeyUnlessRaced`; `PinsAreReplacedByRacesOnly` |
| `client_tests` | up to 5 pings of 3 round trips, 3 hops; 46,572 states | `VerdictMatchesPings`; `CutShortAccusesNobody` |
| `migrations` | 2 runners, 3 files, 3 tables; 275,206 states | `RecordIsOfItsText`; `AppliedIsRecorded`; `RecordedInOrder`; `RecordsStay` |
| `fresh_database` | 1 runner, the same files | `UndisturbedRunsSucceed` is violated |

Types are checked where a value out of its type is a fault of the program: a counter below zero, a score
above 100, a threshold out of range (`TypeOK` of `SchedulerLoop`, `RunsTypeOK` of `ScoreRuns`,
`ChangesTypeOK`). In the other modules the type invariant is proved and not run. `Schedule` and
`ClientTests` state none: their proofs need the bound of the time, and `VerdictInv`, which contains the
types of the log and the request.

**Bounds.** Orders are independent of one another, since every transaction locks one row, so one
order is enough; two requests make every race of two, and four transactions let
a race follow another one (an assignment with auto_start uses two). `MaxTx` ends
behaviours, so that run does not check deadlock. A candidate interacts with others only through its key: two
candidates of one key and two requests make every pair of rivals, and two orders let a
candidate be promoted twice. `MaxNow` of one day lets a cooldown of one day hold and
be switched off. Two checks and two tokens let a check overlap itself and so take both
tokens from the other; `MaxRuns` caps the counted job_runs rows, which no guard of the
code reads. Symmetry is used only where no liveness is checked, over values that are only compared for
equality.

Days of three hours have a first, an inner and a last hour; weeks of three days have a day before, on and
after the one that is asked for; months of four and five days have a last day that some of them lack. The
clocks skip the inner hour of day 8, the first hour of day 14, which begins a month, and the last hour of
day 26, and the last hour of day 20 comes twice; the changes follow each other as closely as the assumptions
allow. `Horizon`, hour 64 on day 21, is after three of them, and runs are planned across the fourth. It ends
behaviours while the planner still has months to plan into (up to day 42), so deadlock is checked: at the
horizon the API can still write. In `score_changes` the packet loss takes a value on each side of both
thresholds; RSSI and SNR are borderline, bad or missing, the others bad or missing, since the engine treats
all metrics alike and the proofs cover every value; the threshold tables are the ordinary one, one with
critical and warning exchanged, one with healthyAt below warningAt and one with healthyAt 95 and warningAt
90, which a PATCH, checking one key at a time, accepts.

Two customers make half of the peers critical, above the 40% that count as degraded; the two readings score
60 and below 50, so that the peers alone can make a difference and a reading alone too; `MaxScores` lets two
runs race and a third computation follow. One PATCH writes two keys that put the ratios of the peers in the
wrong order, the other is refused for one of its two; PATCHes that leave more different tables are too many
states here, and ScoringProofs has every table. Two calls of a device make every race of its writes, and one
station gives the snapshot a row that may be missing; in `device_polls` the calls are used up, so that run
does not check deadlock. Two profiles and two transports give the query for the best binding a choice by
priority and one by transport; one key and none make every change of keys that matters, since a ciphertext
either opens or does not. Three connections let a race be followed by a connection that meets its outcome.
Of five pings, the code's default, none or more than one in twenty is lost; the round trips lie on the sides
of 100 ms and of a deviation of 30 ms. The three files stand for 000001 to 000005, which leave the
transaction to the runner, for 000006, which commits by itself and succeeds, so that it may have run without
its record, and for 000007, which commits by itself and fails on a table of 000001; two runners, each dying
anywhere, make every pair.

**Fairness.** `WorkOrders!FairSpec` has strong fairness for each request's own steps: net/http runs a
request to its end, and PostgreSQL queues the waiters of a row lock, so a waiter that is again and again
next in line gets the row. Failures, clients and new requests have none. `SchedulerLoop!FairSpec` has weak
fairness for the loop, every goroutine (the job's context ends a handler at its timeout) and main's return
once a signal came; the ticker fires again and again and the listing succeeds sooner or later. Signals,
edits and the clock have none. `EveryDueCheckRuns` therefore ends when the check is edited or the worker is
told to stop. `DevicePolls!Spec` has weak fairness for the steps of each call: TCP and TLS connections,
every command that was sent, the SNMP requests and the database answer or are given up. The login of the
RouterOS API and the opening of an ssh session are not (`DeviceHangs`), and `CallsEnd` excepts them. Clients
have none.

## Where code and documents differ

* `fresh_database`: migration 000001 creates a table `work_orders` without `tower_id`; the one of 000007 is
  created only if it is missing, and its index on `tower_id` (`migrations/000007_work_orders_reports.sql:14`
  and on) then fails. `docs/RUNBOOK_PHASE_007.md:12` expects version 7 to be applied.

Read off while modelling, without a run:

* Events are ordered by `created_at`, the time their transaction *began*. A
  request that began first and got the lock second is listed first, although
  `workorders/repository.go:651` promises oldest to newest. In commit order the timeline is right
  (`TimelineExplainsRow`).
* Two simultaneous creations both find no open candidate and both
  insert one (`docs/WORK_ORDER_CANDIDATES.md:37-38` says no new row is created).
  `OpenDuplicatesWereRivals` says that this is the only way, short of a PATCH back to open.
* The loop's comment (`scheduler_loop.go:21-23`) says due rows are marked in
  flight; nothing marks them, and a running check is started again at the next tick.
* 24 hours after an hour of the day on which the clocks go back may be
  the same day, so a run for midnight saved in the last hour of that day is planned in the
  past and starts at once (`planner.go:108`; `engine_test.go:89-91` says it must not). `PlannedWithinCycle`
  and `PlannedForFirstMatch` say what holds.
* A monthly check saved after its day of a month in which the clocks skip its hour is planned an hour off
  for the next month (`planner.go:138-140`): `AddDate` keeps the shifted hour.
* Where the clocks skip midnight (America/Santiago, America/Havana, until 2024 also America/Asuncion), the
  next run at midnight of such a day is planned for 23:00 of the day before (`planner.go:106` and `136`),
  and what `AddDate` adds to it may lie in the past.
* Maintenance windows: on a day that lacks its hour a weekly window is an hour or a day off, and so is a
  monthly one whose day a short month carries to such a day (`maintenance.go`; `WindowsOpenOnTime` excepts
  just these).
* An hour of 24, or a weekday in the third field, is saved as an
  enabled check that never runs; `docs/SCHEDULED_CHECKS_ENGINE.md:10` says it is refused.
* A daily window from 23:00 to 01:00 closes at midnight, because
  its start is projected onto the new day (`docs/MAINTENANCE_WINDOWS.md:24`).
* A healthy customer that lost points to a condition without a rule is told that all metrics are within
  their thresholds (`docs/CUSTOMER_SIGNAL_SCORING.md:59-60`). With severity_warning_at above 70, which
  `thresholds.go:150` accepts, such a customer can be critical and still have the diagnosis healthy and no
  action. `LostPointsAreDiagnosed` says that this takes a score of 70 or more.
* `Resolve` is called a shortcut from open and assigned too
  (`workorders/repository.go:521`), but its guard accepts in_progress only.
* `docs/MAINTENANCE_WINDOWS.md:3` describes windows that hold back checks, and nothing calls
  `GuardWindow`; a monthly run on day 29 to 31 is carried into the next month by
  `time.Date` (`PlannedWithinCycle` bounds it).
* The cap on the customers of a scoring run is applied to `all_customers` only
  (`handlers_scoring.go:279`).
* `Dial` of the RouterOS API is said to have a bounded timeout (`adapters/mikrotik/api_client.go:39`); the
  timeout ends with the TLS handshake, and a device that accepts and says nothing holds the call for ever at
  the login (`:62`). The same goes for `ssh_client.go:84`, `104` and `135`: only the TCP connection has a
  timeout.
* A Mimosa device that does not answer is recorded as a partial poll, audited as a success and gets the
  capability snmp, because dialling over UDP proves nothing and later errors are only listed;
  `docs/MIMOSA_READONLY_INTEGRATION.md:91-92` lists a timeout and an unreachable device as errors.
* `PersistMimosaSnapshot` stops at the first error, although its comment (`telemetry/mimosa.go:12-14`) calls
  it best effort; an SSH poll stores a snapshot row without values.
* A call whose context has ended leaves neither result nor audit entry; `docs/SAFETY_MODEL.md:47` says that
  every operation leaves one.
* A poll that finds no registered client stores no row, and the clients of the poll before go on
  being the latest (`telemetry/repository.go:235`).
* `snmpv3_secret_key_id` is written when a profile is created and not when its SNMPv3 secrets change.
* "A transport failure is reported as Diagnosis=unreachable" (`apclienttest/runner.go:36-37`): a ping that
  does not start or that the network refuses prints no summary, and its test is partial with the diagnosis
  data_insufficient (`PingIsRefused`). Only a summary with 100% loss is unreachable.
* A migration is read twice, for its checksum and for its text (`migrations.go:185`): an edit in between
  records the checksum of a text that did not run. `RecordIsOfItsText` excepts just these files.
* No result of a client test is kept: its `run_id` is NULL and the column is NOT NULL.
* Run-now inserts the status `queued`, which the CHECK of `job_runs` does not allow, and the rows of the loop
  stay `running`.

## Proofs

Every safety invariant and every action property that a passing run checks is also a theorem, and so is the
refinement of `WorkOrderLifecycle`: for any number of orders, requests, candidates, keys, checks, goroutines,
customers, scoring runs, calls, connections, lookups, profiles and runners, any measurements, thresholds,
pings, replies of a device, bodies of a request, schedules, windows, calendars and migration files, and
any bounds. The only assumptions are the named ASSUMEs of the modules: the markers NULL and "" are no
names, inputs are of their types, bounds are naturals, customers, goroutines and calls are finitely many, the
semaphore has room for one, vendors and transports are those of the code, and the calendar is as the section
on `Schedule` says. A safety property that is inductive only with the help of others has an invariant of its
own, and that is what the list explains.

* **WorkOrdersProofs.** `Inv` is the type invariant with `ReqInv` (a request under way
  names an order that exists and began after it) and `LockInv` (a request about to
  commit holds the lock, the row it read is the present row, and it still accepts it).
  The last part is what makes the rest true: without it a commit could overwrite
  another's. From it follow `ResolvedStamp` and `ClosedIsFrozen`, and
  `LifecycleImplemented` maps each step to `Create`, `Move` or a stutter. `OrderStep`
  reduces every step to what it does to one row, so that the properties need no case
  per handler. `TimelineInv` is for `TimelineExplainsRow`: each new event starts where the
  trail of its field ended, because `LockInv` says that the row it was made from is the
  present one (`EventsTell`). The trails are sets of positions instead of filtered
  sequences, so that appending is a union, and what needs an induction is
  about the least position that would be an exception.
* **CandidatesProofs.** `Inv` adds `LockInv` (who is about to commit a promotion holds
  the lock and the candidate is open) and `BornInv` (candidates are numbered as inserted;
  every open candidate of its key that a creator past the open check would have to find
  was inserted after its look, or reopened). `BornInv` is `OpenDuplicatesWereRivals`
  strengthened to creations under way. `PromotedLink` is then inductive.
* **SchedulerProofs**, the loop. `SlotsAccounted` ties semaphore and WaitGroup to the set of
  live goroutines. With `LoopInv` (what the loop holds at each point of its
  code) it is inductive, and `DrainedWhenStopped` follows at `Stop`: a group of zero
  means no live goroutine.
* **SchedulerProofs**, the calendar. `MidnightValue` and `MidnightSteady` say how far midnights are from
  each other, `DayIs`, `MonthIs` and `HourValue` that a moment has one day, month and hour, and `OnDayNear`
  and `DateWithin` that an hour that is skipped names a moment near its day all the same. The windows, at
  every moment that is not `Astray`, follow from `CycleDay`: a cycle has one day on which an occurrence
  begins. The hard one is the weekly run, because 24 hours a step may step over a day: two weeks have one
  change at most (`AcrossChange`), so that a second pass meets the weekday if the first one missed it
  (`DayHit`), and `WeekdayFound` gives the loop its bound. For the first match no day between fits, as two
  multiples of a week less than a week apart are equal (`OneQuotient`). `MonthlyDate` follows a monthly run
  through `AddDate`. Its proof attempt showed that the property needs the calendar to be steady from the
  beginning of the month: see `Schedule` above.
* **ScoringProofs**, the engine. `ChangesInv` says that the result is the engine's for the present inputs,
  so the rest is about operators. `PenaltyMonotone` holds whichever threshold is the
  higher, because the critical one is asked first and costs more; sums and the clamp keep it, and so
  does the severity. For `LostPointsDiagnosed`, the conditions without a rule cost at
  most 30 points (`RuledPenalty`); a score below 70 has lost more, whatever the thresholds, so that one of the
  rules before the last applies, and the first such rule decides.
* **ScoringProofs**, the runs. `RunInv` is what a run has read where it stands, and that only an ended
  context makes it miss something, so that no row that was saved is cut short (`Stored`). `AloneInv`: for a
  customer nobody has raced for, the copy is the newest row, and a result that waits to be saved is the only
  one and newer than both. For `AlarmsHaveASource`, peers of whom none is critical cost what no peers
  cost (`WellPeersCostNothing`), so that the first critical score is due to readings of its own; every other
  step leaves the alarms as they were.
* **DeviceProofs**, the calls. `OutcomesAreSound` goes through every conversation with a device: frequencies
  are recommended only when health and frequency were read. `CallInv` says what is written of a call at each
  point of its code; `ShownInv`, that a call past its UPDATE is shown, or one that ended no earlier. It is
  inductive because `earlier` holds only calls that are done, so that no stale UPDATE can follow.
* **CredentialsProofs.** `CalmInv` says that while nothing disturbs a lookup, the device can be dialled
  and what the lookup has read is still in the tables; a refusal is then without a reason at no point.
  `SomeBest` shows that the query's order always has a first binding. `CreatedIsRow` and
  `UpdatedIsRow` go through the fields a body may carry: the row keeps its types, and its key id names its key.
* **DeviceProofs**, the host keys. `MetInv`: connections under way at once have met. `PinInv`: who is about
  to pin has met everybody who made a first contact, because the table was empty when it read it. So a
  second pin is a race, and `KeyInv` says that without one everything is about one key.
* **ClientTestsProofs.** `VerdictInv` keeps the way a result came about: an answer is what was made of the
  whole log, or of the pings up to some point. Both properties follow from what `Exited` and `CutShort` say
  of any log, whatever the mean and the deviation of its round trips are.
* **MigrationsProofs.** `RunInv` is what a run knows: the text of a file it has still to read is the one it
  hashed, or the file is in `slipped`, and so is the text it has read; everything before its version is
  recorded; at `record` its text has run, or is in its open transaction. What others do only adds to the
  tables (`Grows`), so it stays true of every run. `SchemaInv` is for `RecordsStay`: an open transaction
  grew the schema that is still the present one, as PostgreSQL's locks let one transaction with DDL be open
  at a time. That the statements of a file, run one after the other, have a result at all is `StagesExist`,
  about the first stage that would have none.

Only model-checked are the liveness properties `EveryRequestEnds`, `EveryDueCheckRuns`,
`WithdrawnChecksStop` and `CallsEnd`, which the provers cannot reason about, and `UndisturbedRunsSucceed`,
which is refuted. No module declares a recursive operator; what looks like induction over data is done with
the least counterexample of a set of numbers, which is a plain theorem of well-founded orders.

## Not modelled, and what could follow

* **Job runs**: the code inserts rows and never updates them, so that there is no life cycle to check but that
  of a document; maintenance windows are listed by nothing that decides.
* **Scoring**, the rest: the regression behind the trend; the scores of access points, links and
  towers, which nothing outside the tests computes.
* **Reports and export**: aggregating queries and rendering; what they read is what `WorkOrders`, `Candidates`
  and `ScoreRuns` keep.
* **Inventory**: single statements, but for the device row that `Credentials` reads.
* Next: the composition of `Credentials` with `DevicePolls` in one run; two work orders and two candidates whose
  open check crosses a running order.

Left out for good: parsers and wire formats, the command allowlist, rendering and the web console, which have
little control to check; the cipher of the credentials; configuration and routing.
