# Rosterbot in TLA+

Rosterbot runs a fantasy-baseball team for each of several tenants. AWS Scheduler
and an HTTP API start one Fargate task per job; each task is one command of one Go
binary, carries its state in from S3 and out again, and exits. Around the jobs are
a DynamoDB user store, an S3 run ledger, a dispatcher that fans a schedule out over
the tenants, and a Lambda that pages the operator when a task ends badly or a
scheduled command stays away.

Nothing here is a long-lived server with threads to reason about. What is hard is
that short processes overlap on shared records: a request, the task it launched and
an hourly run over one connection record; the sync-up of a task that ran for an hour
over the cursor another one has just advanced; the second delivery of an event over
the marker of the first. These modules model those processes one store access at a
time.

1. [Inventory](#1-inventory)
2. [Plan](#2-plan)
3. [The modules and the code](#3-the-modules-and-the-code)
4. [The runs](#4-the-runs)
5. [Fairness, deadlock, symmetry](#5-fairness-deadlock-symmetry)
6. [What is proved](#6-what-is-proved)
7. [What the models found](#7-what-the-models-found)
8. [What is not modelled](#8-what-is-not-modelled)

## 1. Inventory

Each part: its state, its operations, what it shares with others, what is hard, and
what makes it correct. `PROJECT.json` lists the same parts with their sources, and
every hazard at its line.

**Fantrax connection** — `internal/lineupapi/{connect,credentials,rungrant,connectrun}.go`,
`cmd/{connect,connect_classify,connect_feed,session_ladder,tenantcreds}.go`.
*State*: one record per tenant (sealed credentials, sealed session, status,
LastError, LastConnectRun, version). *Operations*: POST /v1/connect replaces it and
launches a task; the task logs in, proves the team and writes a verdict; every
scheduled run is authorized by it and, when its session has expired, re-logs in and
stores a new session or `needs_reconnect`. *Shared*: all writers go through
`PutConnection`, a compare-and-set on the version; `DeleteUser` sweeps it without
one. *Hard*: late verdicts after a resubmission, lost races and their retry, tasks
that die with the record `pending`, a second read that is used with the first one's
credentials. *Correct when*: `verified` is never said of credentials that were not
proven; nobody but a submission replaces credentials; a verdict is about the
credentials stored beside it, and the tenant is told of a failed one. **Modelled: Connection.**

**Claims recap and run-state sync** — `internal/{claims,jobreport,statesync}`,
`cmd/{claims,sync}.go`, `entrypoint.sh`. *State*: `.waivers/claims`, a cursor and one
ledger file a day, in S3 and in a copy per task. *Operations*: sync-down, fetch,
send, ledger, cursor, sync-up. *Shared*: every task of every command copies the files
down and up. *Hard*: a failure between any two effects, overlapping uploads, a stale
transaction list, a date that is not the clock's day. *Correct when*: no move falls
behind the cursor unreported, and the audit ledger has every such move.
**Modelled: Claims.**

**Operator alerts, stopped tasks** — `opsnotify/{main,task,ledger,marker}.go`,
`internal/opsalert/streak.go`, `internal/alertmarker`. *State*: run-ledger records,
one marker per task. *Operations*: judge a run's history, check, send, mark.
*Shared*: the ledger with every task and with the API. *Hard*: at-least-once events,
best-effort records, ambiguous sends, runs of several tenants mixed in one ledger.
*Correct when*: no alert is silenced before it was sent, a task alerts once, and the
alerts are those a failure counter would give. **Modelled: OpsAlert.**

**Operator alerts, heartbeat, drift, builds, alarms** — `opsnotify/{heartbeat,drift,build,alarm}.go`,
`internal/opsalert/{heartbeat,roster}.go`. *State*: one token marker per (command,
tenant) that names the run the last alert was about; the roster the dispatcher
published. *Hard*: a standing outage must be told once and again for the next one, also
after its last run has left the ledger's reach; a failed send must be repeated at the
next tick. *Correct when*: every outage is told, and once. **Modelled: Heartbeat.**
Drift, builds and alarms are one read and one message each: not modelled.

**User directory and team claims** — `internal/lineupapi/{ddbuser,tenants_admin.go,me.go,webauthn.go,user.go}`.
*State*: profiles, e-mail and team claim rows, enrollments, passkeys with their index
rows, device rows with a pointer per push token. *Operations*: invite, recover, change of
team, status and preferences, registration and revocation of a passkey, deletion; push
register, remove and sweep. *Hard*: no transaction spans a profile and a claim, so each is
a sequence of conditional writes with compensation, and may stop between any two.
*Correct when*: a team has one owner whose profile names it, a profile write loses
nobody's change, a link lets one person in, a phone has one row. **Modelled: UserStore
(what the interface promises), Directory, PushDevices.**

**Job launch and fan-out** — `internal/lineupapi/{jobs,runs}.go`, `lambda/dispatch`,
`lambda/internal/ecsrun`, `cmd/ledger.go`, `entrypoint.sh`. *State*: the run ledger.
*Operations*: in-flight check and launch; the dispatcher's list, gate, roster and one launch
per tenant; a task's RUNNING and final records. *Hard*: the guard reads a record the task
writes minutes later; one tenant's failed launch among others; an invocation Lambda repeats.
*Correct when*: a double launch is no worse than a lost or late record, and no tenant is
passed over in silence. **Modelled: Launch, Dispatch.**

**Lineup run** — `internal/lineuprun`, `internal/fantrax/apply_lineup.go`. *State*:
the Fantrax roster, the cached roster, per-date projection archives, apply-failure episodes.
*Operations*: decide per date, apply (retry without locked players, confirm,
verify), archive, report. *Hard*: benign errors that hide changes that did not
land, archive merges of overlapping runs, a manager who edits the roster meanwhile.
*Correct when*: what is reported as applied is on the roster, bystanders stay where they
are, a locked row of the archive is not lost. **Modelled: Apply, Capture, Alerts.**

**Optimizer and games-started gate** — `internal/optimizer`. Pure: an optimal
assignment of players to slots and the ranking that spends a games-started budget.
*Hard*: a bound that prunes, ties, locked slots; a comparison that is not transitive.
*Correct when*: the lineup is one of the best there are and can be realized; the budget
and the week's minimum are respected. **Modelled: Optimizer, Gate**, against references.

**Games-started check** — `internal/gscheck`, `internal/fantrax/{gs_check,gs_period_walk}.go`.
A fold over the days of a period: starts are differences of season totals. *Hard*: a
pitcher who leaves the active slots and comes back. **Modelled: StartTally.**

**Grading and the Analysis Store** — `cmd/grade.go`, `internal/{analysis,ndjsonstore}`.
*State*: graded days and skip markers. *Operations*: grade the window that reaches
back to the newest graded day. *Hard*: failed, killed and missed runs; an unreadable store
must not look like an empty one. *Correct when*: no day stays ungraded for good without
anybody saying so. **Modelled: Grade.**

**Cache and stale alerts** (`internal/cache`): the stale fallback, its alert and its
recovery. **Modelled: Alerts**; a cached list or roster as old as its TTL is part of Claims,
Pickups and Apply. The daily snapshots of a season (`internal/fantrax/daily_fpts.go`,
`pitcher_starts.go`, `cached.go`): an entry is served for 15 minutes while its day can change
and for ever after. *Hard*: the reader decides which, walks overlap. *Correct when*: what is
pinned does not go back to what was read while it settled. **Modelled: Snapshots.** **Season gate** (`cmd/season_gate.go`): which day a command is judged on,
a function of the calendar. *Planned*.

**Football (Sleeper) jobs** — `cmd/football_pickups.go`, `internal/dynasty`. *State*: the
snapshot pointer (baseline) all leagues share, a marker per (league, event). *Operations*:
diff against the baseline, one digest per league, mark, move the pointer. *Hard*: a digest
that cannot carry everything, a league that fails while others go on, overlapping reach of
two runs. *Correct when*: the pointer passes nothing by that nobody was told but what a capture
without depth data or a week no longer read hides, and holding it repeats nothing. **Modelled:
Pickups**, and the trade alert as a site of Alerts.

**Fantrax client**, **projections**, **reports** (waivers, prospects, trades,
values), **recap site**, **state stores**, **sign-in**,
**progress and notifications**, **dashboard**, **infrastructure**: not modelled, or only
where a modelled part calls them; section 8 says why.

*Interactions.* API → ECS RunTask → connect task (message, may be lost);
Scheduler → dispatcher → one RunTask per tenant; task ↔ S3 at start and end (copy);
task ↔ DynamoDB connection record (compare-and-set); task → run ledger (two
best-effort puts); ECS → EventBridge → opsnotify (at-least-once); opsnotify → ledger
(list and get), markers (get and put), Pushover (send, answer may be lost); dispatcher →
roster → heartbeat; lineup run → Fantrax (one payload, taken whole or refused) and its cache.

## 2. Plan

| # | Module | Contents | State |
|---|--------|----------|-------|
| 1 | Connection, TenantConnection, MCConnection, ConnectionProofs | the connection record, its writers, its contract | done |
| 2 | Claims, MCClaims, ClaimsProofs | cursor, audit ledger and sync | done |
| 3 | OpsAlert, MCOpsAlert, OpsAlertProofs | stopped-task alerts | done |
| 4 | UserStore, Directory, PushDevices, MCTenants, TenantsProofs | the directory over conditional writes; what it promises | done |
| 5 | Dispatch, DispatchProofs, Heartbeat, MCFleet | the fan-out and what watches over it | done |
| 6 | Launch, Apply, Capture, Alerts, Pickups, Grade, MCJobs, JobsProofs, LineupProofs | how a job is launched and what jobs do to their stores | done |
| 7 | Gate, Optimizer, StartTally, DecisionProofs | what the lineup decides, against references; the count of starts | done |
| 7a | Snapshots (proofs in JobsProofs) | the cached snapshots of the season's days | done |
| 8 | SeasonGate | which day each command is judged on | next |
| 9 | GSCheck | which period and limits a team is judged by, over StartTally | later |

Order: what decides whether the bot acts on somebody's team (1), what loses data
without a trace (2), what tells the operator (3, 5), where most multi-step writes are (4),
then what a job does.

Runs stay few: a component has one run for its safety with every failure, one per
question that needs other constants or fairness, and one per disagreement found. Modules
that share no item share a run (section 4).

Theorems: every safety property of a passing run is a theorem (section 6). Worth proving next:
of OpsAlert, what remains of `PagesAsCounted` when the window is smaller than the history.

## 3. The modules and the code

### Connection

One tenant. `conn` is the record, with DynamoDB's `ver` as an integer: Absent for no
row, 0 for a legacy row without `ver`. A request is named like the credentials it
submits, so *which* credentials a verdict is about can be said.

| Variable | Code |
|----------|------|
| `conn` | the `CONN#` item: `ver`, `status`, `creds` (CredsCiphertext), `session` (FXRMCiphertext, by what minted it), `err` (LastError), `stamp` (LastConnectRun); `about` is history, what the status was decided on |
| `fresh` | UpdatedAt is inside `connectInFlightWindow` / `connectInterruptedCooldown` |
| `slow` | history: a verification that outlasted the window, after which a second one may overlap it |
| `req` | handleConnect of one POST: `n` attempts, `seen` the version read |
| `task` | the connect task: `copy` is the record it read, `out` its outcome |
| `run` | applyTenantCredentials and sessionLadder.refresh of a scheduled run: `creds` of the first read, `copy` of the second |
| `proven`, `told`, `unheard` | history: credentials that logged in and own their team; who wrote the tenant's feed, and who could not |
| `deletes` | how often DeleteUser has swept the record |

Actions, a store access or a login each: `ReadForSubmit`, `PutSubmission`, `Launch`
(handleConnect); `TaskRead`, `TaskReadBack`, `TaskCheck`, `TaskTell`, `TaskRecord`,
`TaskCrash` (connectTenant, failCheck, connectRun.fail/record); `RunAuthorize`,
`RunProbe`, `RunReread`, `RunMint`, `RunStore`, `RunStop`, `RunTell`, `RunCrash`
(ladder); `DeleteTenant`; `Elapse` (time). The nine failure classes are kept as
one class per behaviour: the route of `routeFor` and, for a login, what the ladder does
with it. Telling (`Tell`) is one write to the feed, which may be missing or fail; that is logged
and the verdict recorded all the same. `TaskCheck` takes decrypt, login, ownership and claim together, since no other
actor sees anything between them. Logins are external and return any class.

TenantConnection is the contract the readers of the record rely on: no versions, no
reads, no races. Connection implements it under `creds <- conn.creds`,
`status <- conn.status` while the tenant is not deleted.

### Claims

Time advances two ticks a UTC day; in the first it is still yesterday in New York.
That is the least that tells the cursor's day (a New York date stored as a UTC
midnight) from the day a move is processed on. A move is a claim that adds a player;
`--since`, dry runs (neither is scheduled), non-claim no-ops and enrichment are left out.

| Variable | Code |
|----------|------|
| `tick`, `when` | the clock; when Fantrax processed each move |
| `remote` | the S3 `claims/` prefix: `last-claims.json` and `claims/<date>.json`, and which day files are `torn`, cut short by a failed copy |
| `task` | a container: its `.waivers` copy (`cursor`, `ledger`, `torn`), what sync-down has still `todo`, and for a claims run its `today` and `batch` |
| `reported` | history: what each run pushed |

Actions: `Process`, `Tick`; `Launch`, `SyncDown` file by file in any order,
`SyncDownFails`; `StartRun`, `Fetch`, `Send`, `WriteLedger`, `SaveCursor` (claims.Run
and jobreport.Emit, whose order of effects is kept); `OtherRun`; `UploadLedger`,
`UploadCursor` (name order, stopping at a failure), `Crash`. The day files are copied
down together and uploaded together up to the failing one: only their union is read.
A failed copy ends sync-down with the file in hand missing or, since `download` truncates
before it copies, cut short; sync-up then stores the cut file like any other, over the whole
one. A cut cursor (`Torn`) does not parse and counts as none; a cut day file loses entries
until its day's run writes it again, which only that day's run does.
The list a run fetches may miss anything processed in the last tick, for the shared
cache's `todayTTL`. `Manual = FALSE` is the schedule, one run a New York day that ends
before the next; `TRUE` lets runs started through the API overlap it, where
`inFlightRun` is only best-effort; the runs use the schedule; `NoMoveLost` is proved of both, the ledger's property of the schedule.

### OpsAlert

Runs are numbered in start order, which is the order of the ledger's keys.

| Variable | Code |
|----------|------|
| `task` | the ECS task, its (command, tenant) `key` and exit |
| `record` | `runs/<ts>-<id>.json`: RUNNING, then FAILED, SUCCESS or a success that is tenant-actionable ("TENANT"); either put may fail |
| `event` | each delivery of the stopped event and its handler: place, verdict, tries |
| `marker` | `opsalert/task/<id>` exists |
| `pushed`, `slipped` | history: alerts delivered; runs for which a marker failed, an answer was lost or two invocations overlapped |
| `misread` | history: runs judged while a record of their key could not be read |
| `mishaps` | how many failures of any kind so far |

Actions: `Start`, `Finish`, `Exit`, `Terminate` (SIGTERM during the upload rewrites the
record), `Kill` (OOM, image not pulled); `Redeliver`; `Judge`, `Check`, `Send`, `Mark`
of one delivery. A handler that fails or dies is retried by Lambda `MaxTries` times and
then lost. A read of the ledger is one step: records are written once or twice and a
newer one does not change an older run's verdict. A listing that fails fails the handler, but
`fetch` drops any record whose Get fails and the shorter history is judged: `Judge` loses any
records of the key, the run's own among them, and from then on `PagesAsCounted` asks of that
run only an alert that fits how it ended. `InOrder` says that a key's earlier
deliveries were handled before its next run ends: runs of one key are an hour or more
apart and Lambda's retries take minutes. Outside that, the verdict of a late delivery is
computed on newer history, although task.go:172 says the ledger has not changed; it is
listed as a hazard.

### UserStore, Directory, PushDevices

UserStore is the interface as the file store keeps it: one step per operation under a
mutex. Directory is DynamoDB's version of it: every get, conditional put and delete of an
item is an action, a request is a record with its next step and what it has read, and `Stop`
lets it end between any two. Directory implements UserStore under `profile <- profile`.

| Variable | Code |
|----------|------|
| `profile`, `emailClaim`, `teamClaim` | `USER#` profile rows with their version; claim rows |
| `link`, `passkey` | `ENROLL#` rows; `CRED#` rows with the index row that resolves a sign-in |
| `req` | an invite, recovery, profile change (mutateUser's retries), team change, registration, revocation or deletion |
| `minted`, `cut`, `deletedTwice` | history: ids given out; tenants whose operations overlapped a claim or a deletion or stopped half way; two deletions of one tenant at once |

A passkey is registered with a link that is spent first (`RegisterPasskey`) or by whoever is
signed in (`AddPasskey`). A request refused by its first read changes nothing and is no step. PushDevices keeps device
rows and the pointer of each token the same way (`Register`, `Collapse`, `ReadHolder`,
`Steal`, `PutDeviceRow`, `PutPointer`; removal and sweep).

### Dispatch, Heartbeat

Dispatch follows one event at a time: `List`, `Gate` per tenant, `Publish`, `LaunchFor` per
tenant; an error before the launches or a timeout anywhere (`TimeOut`) starts the invocation
over, `MaxRetries` times. `entitled` is history: the members active and usable ever since the
event fired.

Heartbeat follows one command, since `Overdue` judges each on its own. Ages are ticks since an
id's newest run; `Gone` is out of the ledger's reach. `Beat` judges what it read (`Reads`: where
a Get failed, an earlier run of any age, or none, stands for the newest), `Tell` does one id's
check, send and mark with each of its failures, `Run` is a launch by schedule or hand,
`PublishRoster` all it sees of a dispatch. `overtaken` holds the ids that ran between judging and
telling. `told` and `shaky` are history since the last run: a push made of an earlier run while the
newest was in the ledger (`Misjudged`) moves the marker off the outage, so the outage may be told
again, and `shaky` says so.

### Launch, Grade, Alerts, Pickups

Launch: `Ask`, `Check`, `LaunchByHand` (handleJob and inFlightRun), `LaunchBySchedule`, and
`Start`, `Finish`, `Exit`, `Stop`, `Kill` (entrypoint.sh, whose two records may fail). The guard
reads what readNewest lists (`Listed`): the newest `RunsLimit` records of the caller's partition
by when their runs started, without those whose Get failed; a listing that fails is one that
read none. `blind` in a task is history: the guard that let it through was not listed the work
it doubles.

Grade: one run a day at most computes its window from the newest graded day (`GradeBegin`), or
an operator's range (`GradeByHand`); `WriteGrades` writes a partition at a time, `WriteSkips`
the days without anything to grade, `GradeDies` anywhere. A capture that could not be read is
taken for one that was never made (`LoadSnapshot`), and the run goes on without it, unannounced.
`named`, `jumped`, `torn` and `unread` are history: what a run said it would not reach, what a
range passed over, what a dead run left, what the last run over a day failed to read.

Alerts: one key of one of four sites: the lineup's starts and the trades (sent once), apply
failures and the stale cache (sent on change, with a clear). A look, a push and a mark are
steps, each may fail, runs may overlap and die.

Pickups: `BeginHunt` reads dump, transactions and baseline, `Alert` sends one league's digests
as far as they go, `Unshowable` is a line no digest carries, `Mark` writes a marker,
`FinishHunt` archives and moves the pointer if nothing is owed. The dump of a run is today's, the
cached one, or one without depth data, for which nobody rises (`Risen`), from or to it; the
pointer moves all the same. `weeksAgo` is the age of a drop's transaction in weeks: a run reads
the lists of `WeeksBack` weeks (two in the code) and the current one.

### Snapshots

`BeginWalk` fixes the current day for a whole range; each day of it is `ServeEntry`, or
`FetchDay` (which may end the walk) and `SaveEntry` (whose failure is a warning), so two walks
may fetch and write one day in any order. `SettleDay` is upstream's, `EntriesAge` is 15 minutes,
`NextPeriod` a midnight, of which a walk crosses one at most. One key per day: the roster-stats and the
pitcher-GS snapshots are two instances of it.

### Apply, Capture

Apply: a run plans (any legal lineup) from the cached roster (`Optimize`) or from one it found
missing, fetched and saved (`Miss`, `FetchRoster`, `SaveAndOptimize`); any other run, a dry one
too, fills the cache the same way (`SaveOnly`), in three steps between which the roster may be
written and the cache emptied. `FetchRaw` reads the real roster for the payload, Fantrax asks to confirm, accepts, refuses with or without the names of
locked players, or breaks; the one retry drops the locked players and the promotions that
needed their slots (`Withdrawals`), `Verify` re-reads the roster, `Invalidate` empties the
cache. `HandEdit`, `GameStarts` and `CacheExpires` happen at any time. One date, one run that
applies and one fill at a time; the
decision itself is Optimizer's.

Capture: read the archive, merge the rows that are locked, write; as three steps of
overlapping runs, beside `FirstPitch`.

### Gate, Optimizer, StartTally

Gate and Optimizer are algorithms: a behaviour is one input and one step, the definitions are
the code's loops (insertion into a sorted list, the recursive search with its bound), and the
properties compare the result with a definition by sets. Projections are small integers that
keep the order and the margins the code compares. The search is a recursive function on its loops:
a `Loop` is a slot's loop half way, the plan for the slots before it, the players it has still to
try and the best lineup so far; `Visit` is what one call of `search` does with a longer plan (keep
it, prune it, or run its own loop), and `Search` takes the foremost player (`Foremost`, of the
order `Ahead`) and goes on with the rest. The code's index into the sorted players is the set of
those still to try. StartTally walks a period day by day; `made`, `missed` and `newcomers` are history.

## 4. The runs

Each run is `tlc -config <cfg> <MC module>` with the cfg named in `PROJECT.json`; each
proof module is `tlapm <module>`.

| Run | Instance | Checks |
|-----|----------|--------|
| connection_races | 2 submissions, 1 scheduled run, all faults, no deletion | `IInv`; `StampJudgesStoredCreds`; `ImplementsTenantConnection` |
| connection_retry | `FairSpec`, 2 submissions, a deletion, no run, all faults | `VerifiedIsProven`; `OneVerificationAtATime`; `VerdictIsAboutStoredCreds`; `FailureVerdictIsTold`; `SubmissionIsJudged` |
| ladder_verdict | 1 submission, 1 run, no fault | violated: `VerdictIsAboutStoredCreds` |
| claims_restart | 2 moves, 2 claims runs as scheduled, 1 other task, days 0–2, all faults but failing ledger writes | `IInv`; `NoMoveLost`; `LedgerCoversCursor` |
| claims_cursor_regresses | 1 claims run, 1 other task, no fault | violated: `CursorNeverRegresses` |
| opsalert_pages | 2 keys, 4 overlapping runs, 2 deliveries, 2 tries, 2 mishaps | `IInv`; `MarkedOnlyIfPushed`; `OnePushPerTask`; `PagesAsCounted` |
| opsalert_window | 2 keys, 5 runs, a window of 4, nothing fails | violated: `ThirdFailureEscalates` |
| tenants | 2 tenants, e-mails and teams, 3 requests, 2 tries; 3 push calls, 2 tenants, 1 token; every step may be the last | `AllTypeOK`; `ProfilesHoldTheirClaims`; `NothingIsLeftBehind`; `LinkMintsOnePasskey`; `OneRowPerToken`; `ImplementsUserStore` |
| fleet | 2 tenants, 2 retries; a heartbeat over a gap of 1 and a horizon of 2 ticks | `FleetTypeOK`; `EveryTenantIsAccounted`; `OneAlertPerOutage`; `DarkJobIsTold` |
| fleet_alarm | the same, a horizon of 3 | violated: `RunningJobIsNotOverdue` |
| jobs | the ten modules of MCJobs, see below | `JobsTypeOK` and a property or three of each module |
| lineup_silenced | Alerts alone, one run, one error text | violated: `NewEpisodeIsTold` |

*One run, several modules.* MCTenants, MCFleet and MCJobs put modules that share no item into
one run. A variable `part`, chosen in Init and never changed, says which of them moves; the
others keep one initial state. The reachable states are the sum of the parts, and a property
of one part is checked in all of that part's states. No property relates two parts, and
none could: the parts are different stores of the program.

*Bounds and why they are enough.*

- Connection. A late writer needs a record it read and one writer that replaced it:
  two submissions, or one and a run. `PutAttempts` is 2 where the code has 5: every path of
  the loop, the retry that succeeds and the one that gives up, is reached with 2. One
  deletion is what the restart of the version at 1 needs. `retry` leaves scheduled runs out,
  as with them `VerdictIsAboutStoredCreds` fails (ladder_verdict).
- Claims. Losing a move takes one run that saves the cursor and one that would have
  fetched it; a regression takes one other task. Two moves let a batch be partly stale. The
  days stay within `Lookback`: a run that finds no cursor looks back a fixed number of days,
  and moves before that are passed over; this is the code's stated default. A copy may be cut
  short at any day file or at the cursor, and the torn file stored. Failing ledger
  writes are excluded because jobreport treats effects as never fatal, and an entry lost that
  way stays lost.
- OpsAlert. Four runs are three failures and a recovery, and with the second key one
  foreign run inside a streak of two. Two mishaps combine, for instance, a lost answer
  and a second delivery. In `pages` the window holds every record; what a smaller one does
  is `opsalert_window`, scaled from 200 records to 4.
- Directory. Three requests are a holder, a thief and a deletion, or two registrations and
  what issued their link. Two tries of mutateUser's five reach the retry and the refusal.
- PushDevices. Three calls are two registrations that race and the later launch that heals.
- Fleet. Two tenants are one that fails and one that must not notice. `Horizon` is at least
  twice `MaxGap`, as in the code, and 2 ticks over a gap of 1 let a run leave the ledger inside an outage.
- Launch. Two tasks and two requests double each other; a third adds no new pair. A listing of
  one record (`RunsLimit`, 25 in the code) loses the older of the two to the newer; a record is
  believed until the next tick. `OneJob`: one job at a time, and one tenant's if it is a job of
  tenants.
- Grade. Four days and a reach of three pass the cap once; two systems make a day partial; one
  capture at a time is left unread (`OneUnread`).
- Alerts. Two runs, two texts; four days hold an episode, its end and the next.
- Pickups. Two leagues share the pointer; one player, one drop, one fault, three ticks with
  an overlap of one, and no week read but the current one (`WeeksBack` 0), so that one turn of
  the week hides a drop. A league that has not drafted and a line no digest carries are chosen
  at the start. `OneOddity`: one of such a line, a turn of the week, a drop claimed again and a
  dump without depth data at a time.
- Apply. Three players, a slot for one and a slot type for one: a promotion that needs the
  slot of a locked player, and a bystander. One hand edit at a time; `OneFill`: the cache is
  filled before games start, and while a plan is applied only if it moves one player.
- Capture. One player, because rows do not interact; three overlapping runs, because a
  stale write needs a reader, a writer in between and one who must keep the row.
- Gate. Two of today's starts, two announced, three half starts, limits and minimums to 2;
  two projections and two estimates, on both sides of the margin the ranking allows.
- Optimizer. Three players of five forms, one of them below zero, two slots, each combination of
  locks and slots, those a player does not fit included.
- Snapshots. Two days make a walk that goes on; two walks race; a look-back of 2 where the
  code has 3 and one day of settling keep the days on which an entry can heal, and day 4 is
  the first on which a day is past.
- StartTally. Two pitchers, three days, a limit of one: leave, start unseen, come back.

## 5. Fairness, deadlock, symmetry

`FairSpec` of Connection: a request, connect task or run that has
started takes its next step (a Lambda invocation or an ECS task that has not crashed
executes; crashing is an action of its own), and the window elapses. Nothing makes a
tenant submit, a schedule fire or an admin delete. Under it
`SubmissionIsJudged` says that a `pending` record gets a verdict or is replaced, unless the
submission was refused its task or its task failed.

`HeartbeatFairness`: the heartbeat's rule fires every few hours for ever, so a read of the
ledger and a push that can succeed again and again do so in the end: strong fairness of
`Beat` with every record read and of `Tell`, after such a read, with a push that is not refused,
one per id; and a heartbeat gets to the end of what it judged.
Nothing is assumed of markers, of runs or of the dispatcher. Under it `DarkJobIsTold`.

`CHECK_DEADLOCK FALSE` everywhere but in the fleet runs: each model is a bounded number of
finite processes, and when they have all ended nothing is left to do. Whether something was
left undone is what the properties ask. The dispatcher and the heartbeat never end.

Symmetry is used in safety runs only, over sets no definition orders: submissions, moves,
claims runs, keys, requests, tenants, teams, e-mails, players of Apply.

## 6. What is proved

55 theorems in eight modules, checked by TLAPS for every value of the constants that meets the
module's assumption: any number of tenants, tasks, runs, requests, retries, days. Of the 39
properties of the passing runs, 37 are the property of a theorem: all but two liveness
properties.

### The assumptions and hypotheses

Most of an assumption keeps names apart and bounds natural. The conjuncts that say more:

| Where | Says | Why the code justifies it |
|-------|------|---------------------------|
| `HeartbeatAssumption` | `Horizon >= 2 * MaxGap`, and the lateness the ledger tolerates fits | the horizon is computed as twice the largest gap |
| `SnapshotsAssumption` | `SettlingDays < recentPeriodLookback` | a day settles overnight, the look-back is 3 |
| `PickupAssumption` | `Overlap >= FeedTTL`, and positive | `pickupOverlap` is an hour (`pickups.go:120`), the feed's age minutes; without a positive overlap `NothingIsPassedOver` is false |
| `GradeAssumption` | `MaxWindow >= Window`, finitely many systems | constants of the command |
| `PartsAssumption` | the parts a run of MCJobs may take | a parameter of the instance |
| `TallyAssumption`, `ApplyAssumption` | finitely many pitchers, players | a roster |
| `AlertAssumption` | an error text, an episode, an absent and a cleared marker can be told apart | an episode is a pair of dates, a cleared marker the empty token, an absent one no object |
| `NoneAssumption`, `PushAssumption` | None is no profile, Nobody no tenant, token or call | absence of an item |

Some theorems have hypotheses beyond these, each the setting of the run that checks them:

| Theorem | Hypothesis | Why |
|---------|------------|-----|
| `ConnectionImplementsTenantConnection` | `MaxDeletes = 0` | the contract has no deletion |
| `VerdictsAreAboutTheirCreds`, `FailuresAreTold`, `VerificationsAreAlone` | `Runs = {}`: no scheduled run writes the record | with a run all three are false, and TLC finds it: the ladder that judges credentials it read before the copy it writes (ladder_verdict) makes a fresh submission `needs_reconnect`, so the status is about other credentials, the window's guard lets a second verification in, and the verdict shown is not the one that was told |
| `CursorsAreCovered`, `NoMoveIsLost` | `LookbackSuffices`: where a sync-down may fail, a run without a cursor looks back over every day there was | else moves before the look-back are passed over, the code's stated default |
| `LedgersAreKept`, `LedgerHoldsThePast` | also `~Manual`, `~LedgerFaults` | two runs of one day overwrite each other's file, and an entry whose write failed stays lost (jobreport treats effects as never fatal) |
| `StreaksPageAsCounted` | `InOrder`, `MaxRuns <= Window` | beyond the window it is false, which is the run opsalert_window; a delivery later than its key's next run is judged on newer history (section 3) |

### The connection (ConnectionProofs)

| Theorem | Says | Argument |
|---------|------|----------|
| `TypeCorrect` | `Spec => []TypeOK` | one lemma per group of actions |
| `NothingVerifiedUnproven` | `[]VerifiedIsProven`, deletions included | `CopiesAreProven` is inductive with the type: what a writer is about to write is already proven if it says verified. No version is needed: a stale write restores an old truth, never an unproven one |
| `CopiesWitnessedAndProven` | `[]IInv` | the version is a witness: a copy held for a write has a version no newer than the record's, and if equal *is* the record. `Store` is the only writer, and raises it |
| `OnlyASubmissionReplacesCreds` | the action property | every other `Store` writes a copy whose version holds, so by the witness its credentials are the stored ones |
| `ConnectionImplementsTenantConnection` | the refinement | each `Store` maps to Submit, Verify, Fail or a stutter; `TaskCheck` to Prove |
| `StampsJudgeTheirCreds` | `[]StampJudgesStoredCreds`, runs and deletions included | `StampInv`: on the record and on every copy, the stamp names a task that is *over*; a task that is over keeps its copy, so the stamp stays true of the credentials it came with (`LaunchedOnce`: a request has one task) |
| `VerdictsAreAboutTheirCreds` | `[]VerdictIsAboutStoredCreds` | `AboutInv`: the same of the status on the record and on the tasks' copies |
| `FailuresAreTold` | `[]FailureVerdictIsTold` | `ToldInv`: a task past its tell wrote the feed or failed to, or its route is the operator's |
| `VerificationsAreAlone` | `[]OneVerificationAtATime` | `SoleInv`: whoever is verified is the submission on a pending, fresh record, and a guard whose version still holds saw nobody |

### Claims (ClaimsProofs)

| Theorem | Says | Argument |
|---------|------|----------|
| `CursorsAreCovered` | `[]IInv` | `Covered(c)`: c is no later than today and all before it is reported. It is stable (time only adds moves at today or later) and holds of the stored cursor and of every copy a task may upload that is not cut short (`Usable`; nothing is before a cut one), so an old upload is harmless; `send` keeps the batch that is owed |
| `NoMoveIsLost` | `[]NoMoveLost` | its first conjunct |
| `LedgersAreKept` | `[](RunsTakeTurns /\ LedgersAgree /\ LedgerInv)` | a New York day has one run, so its file has one author: a copy of it, of whatever age, is empty or the file itself (`LedgersAgree`), and no upload takes an entry out. `LedgerInv` then says of every cursor what `Covered` says of reports |
| `LedgerHoldsThePast` | `[]LedgerCoversCursor` | from `LedgerInv`, and `NoneTorn`: no file is cut short where no sync-down fails. Where one may, the entry's file may be cut short, and that is all that can happen to it |

### What tells the operator (OpsAlertProofs, DispatchProofs, LineupProofs)

| Theorem | Says | Argument |
|---------|------|----------|
| `AlertsAreDeduplicated` | `[]IInv` of OpsAlert | outside `slipped`, at most one delivery is between check and mark, and after a push there is a marker or a delivery about to mark |
| `NothingIsSilenced`, `OneAlertUnlessSlipped` | `[]MarkedOnlyIfPushed`, `[]OnePushPerTask` | a marker is written only from `mark`, which follows a push; `Deduplicated` |
| `StreaksPageAsCounted` | `[]PagesAsCounted` | `PageInv`: a delivery on its way carries the alert that is due, and the due alert never changes, since the earlier runs of its key were handled before it ended (`JudgedInTurn`); a verdict on a history with a hole is bounded by the run's own record, which is the newest of what was read or is itself lost (`JudgeIsPlausible`). That the code's walk back through the window and the recursive count of failures agree is `FailedSince` |
| `DispatchTypeCorrect` | `[]DispatchTypeOK` | an event launches no more tasks for a tenant than it has invocations: needs the invariant below |
| `NobodyIsLeftOut` | `[]EveryTenantIsAccounted` | `Carried`: an entitled tenant is in the work list or among the launchable until it is launched or has failed; `Once`: an invocation launches a tenant once at most, and only a timeout starts another after a launch |
| `HeartbeatTypeCorrect`, `OutageIsToldOnce` | type; `[]OneAlertPerOutage` | `BeatInv`: what a beat judged of an id still fits its ledger when it tells (`JudgedFits`) or is known to be of an earlier run (`Misjudged`), and an alert told without a mishap has left a marker that names this outage, or one whose run the ledger has lost since (`MarkerSaysSo`) |
| `AlertsTypeCorrect`, `AlertsAreCaused` | type; `[]AlertsHadCause` | `AlertInv`: while nothing slipped one run at most is at a key, what it is about to send is news, what it is about to mark was told, and in between the marker is what the operator heard last (`InStep`) |

### The directory and the devices (TenantsProofs)

The directory's invariant is built in layers, each using those before it, since no single
step of the refinement is true without most of them.

| Theorem | Says | Argument |
|---------|------|----------|
| `DirectoryTypeCorrect` | `[]TypeOK` | `DirInv`: what a request has in hand at each step |
| `ClaimsCoverProfiles` | `[]ProfilesHoldTheirClaims` | `CopyInv`: a copy whose version holds is the profile; `HoldInv`: a request about to release a claim is its holder's, and the profile is gone. Two overlapping deletions of one tenant (`deletedTwice`) are what this does not survive |
| `DirectoryImplementsStore` | `Store!Init` and the refinement of UserStore | by the two layers, each write of an item is one operation of the store, every other step a stutter |
| `LinksAreSpentOnce` | `[]LinkMintsOnePasskey` | `LinkInv`: a link spent on a passkey is used, and was spent on that one alone |
| `DeletionLeavesNothing` | `[]NothingIsLeftBehind` | `BackInv`: a claim is kept by a profile or by a request that owes its release; `KeyInv`: a passkey of a deleted tenant is one its deletion has still to find, or a registration's that has still to see the deletion |
| `PushTypeCorrect`, `TokensAreHeldOnce` | type; the action and state parts of `OneRowPerToken` | `PushInv`: outside `overlap` a token at rest has the one row its pointer names (`Rests`); in the hands of a single call it is as far from that as the call's step says (`InHand`); a registration alone gathers its tenant's rows (`Gathers`) |

### The jobs (JobsProofs, LineupProofs, DecisionProofs)

| Theorem | Says | Argument |
|---------|------|----------|
| `SnapshotsTypeCorrect`, `PastDaysKeepTheirTotals` | type; the action property `PastDaysStayFinal` | `WalksInv`: what a walk holds unsettled, it began to fetch within the day's settling, and it ends a midnight later at most; the look-back is longer than both |
| `CaptureTypeCorrect`, `LockedRowsAreKept` | type; the action property `LockedRowsSurvive` | `CaptureInv`: a run that is not blind has read the archive as it stands |
| `LaunchTypeCorrect`, `GuardMissesOnlyBlindly` | type; `[]OverlapsWereBlind` | `LaunchInv`: of two tasks of one job by hand, the guard of the later was listed the earlier, and refused, or its `blind` says that it was not |
| `GradeTypeCorrect`, `NewestDayForgetsNothing` | type; `[]NothingIsForgotten` | `GradeInv`: an ungraded capture is within reach of the newest graded day (`Reaches`), among what the run under way has still to write, or was named, jumped or torn, or not read by the last run over its day. The newest day is a maximum over what was graded |
| `PickupsTypeCorrect`, `RepeatsHaveACause` | type; `[]RepeatsOnlyUnmarked` | `MarksAreTrue` and `SentLeavesTrace`: a marker is of an event told, and what was told has a marker, one pending, or a reason it has none |
| `BaselineLeavesNothing` | the action property `NothingIsPassedOver` | `HuntIsSound`: in a league the run has been through, all that it could see and would fall behind the baseline if it moved now was told, unless the run is held or marks the tail |
| `ApplyTypeCorrect` | `[]ApplyTypeOK`, capacities included | no more players in a slot than it holds, by cardinality |
| `CacheIsTrustworthy` | `[]CacheAgrees` | `CopyIsTrue`, `FillIsTrue`: the copy, and a roster fetched and not yet saved, is the real one until a write was taken |
| `RetriesKeepTheirWord` | `[]RetryKeepsItsWord` | `SlotOfRetryFits`: for each slot, those a retry withdraws are at least as many as the locked players that stay in it |
| `PayloadsLeaveBystandersAlone` | the action property `BystandersStay` | `RawIsTrue`: while a payload is on its way the raw roster it names is the real one but for the manager's edits |
| `TallyTypeCorrect`, `EveryStartIsCounted` | type; `[]StartsAreCounted` | a pitcher the walk has seen has the total it remembers, plus what he made out of its sight |
| `ReportsAreExplained` | `[]TallyIsExplained` | `ExcessInv` over a sum of all pitchers: a day raises the sum by the number counted that day, which the limit check sees |
| `JobsTypeCorrect` | `[]JobsTypeOK` | the invariant of the part that runs |
| `OptimizerTypeCorrect`, `SearchFindsTheBest` | type; `[]LineupIsBest` | `Keeps`: whatever a call of the search returns is no worse than the best it was given nor, if nobody is below zero, than any way to complete its plan; see below |
| `GateTypeCorrect`, `BudgetIsWellSpent` | type; `[]StartsAreWellSpent` | `Ranked`, an invariant of the insertions: a start of today stands behind exactly the claims that beat it, the certain claims stand by value, and so do the estimates. A claim's *place* is then one more than its rivals, although the ranking is no order; see below |

### How

*Why the invariants are needed.* `NoMoveLost` alone is not inductive: an upload may store the
cursor of any task, so what is claimed of the stored cursor must be claimed of every copy, and
of what a run has still to send. It is the pattern of most of these proofs: a process holds a
copy of something and writes it later, so what is true of the store has to be said of every
copy that may still be written, and the guard of that write (a version, a marker, a condition
on an item) is what makes it true.

*Without induction over data.* A recursive function or a fold cannot be unfolded for every
input here. Where a proof needs one, a set takes its place: the failures since the last success
(`FailedSince`) are shown to have as many members as the recursive counter says by exhibiting
the function that counts them and taking the least run at which it would differ; the newest
graded day, as the least element of a reversed order; the sum over the pitchers, by the
smallest set of them for which the fold's equations would fail; the gate's ranking, by the
first insertion after which the invariant would not hold. All of them rest on `WFMin`, a
first-order fact about a well-founded order.

*A sort without an order.* The gate's comparison is not transitive: an announced start of 10.5
points beats today's of 10, which beats an estimate of 10.8, which beats the announced one. What a
sort makes of such a relation depends on the sort. `sort.SliceStable` sorts up to twenty claims
by insertion and more by merging sorted blocks of twenty; the model and the theorem are about
insertion, which covers a week's claims. Three facts survive every insertion because the claims
come in the order of their kinds (today's, announced, estimated, these by value): `FitsAt` says
for each kind why the place where the new claim stops is the boundary between those that
beat it and those it beats. That what is sorted is a rearrangement of the claims is carried
along as the permutation itself (`Reorders`), so that places can be counted as rivals.

*A search that prunes.* `LineupIsBest` compares one run of a branch and bound with every assignment,
so the proof follows the run. The search is a recursive function, and that it is a function at
all has to be proved: `SearchExists`, over the loops of a `Weight` below n, the weight being the
slots still open and the players still to try. `BoundHolds`: no completion of a plan is worth more
than its bound. Its core is `LeadersAreWorthMost`: the leaders of the unused players, as many as
there are slots, are worth at least what any set of no more players is, and it is there that the
order has to be descending in worth, the second sort of the pitchers included. `SearchKeeps`, by the loop
of least weight it would fail for, is then: what a loop returns beats the best it was given and
every completion that takes one of the players it has to try (`VisitWins` when one is pruned, since
a pruned plan can only tie with no fewer moves). The search considers only lineups that fill the
slots in turn; that they include one worth as much as any is `FillUp`, which fills the empty slots
of an assignment one at a time (`FillOne`) and never loses worth, if nobody is worth less than nothing
(`NoneBelowZero`, on which the bound and these depend; that a finished lineup is found does not).
The pitchers who keep their slots change nothing: who fits his is idle, worth nothing
(`KeptAreIdle`), who does not fit it is not counted, and both are in the room the search left
(`MadeIsLegal`). What a set of players is worth is a
fold over the set; `TotalAdds` and `TotalIsMonotone` are proved of it by the smallest set for
which its equation would fail.

*Model-checked only.* `SubmissionIsJudged` and `DarkJobIsTold` are
liveness, which the prover does not reach (nor ENABLED).

## 7. What the models found

Each is a run that TLC finds violated, with a counterexample in which nothing fails, or, in
the last, one marker write.

- **ladder_verdict** (`cmd/session_ladder.go:140`). The ladder re-reads the record to have
  the version it will write at, but logs in with the credentials of its first read. A
  reconnect between the two reads makes its conditional write succeed: the fresh
  submission becomes `needs_reconnect` for the old password, and the connect task's own
  verdict then loses its race. `credentials.go` says a connection write is a verdict about
  the specific credentials the writer read.
- **claims_cursor_regresses** (`cmd/sync.go:72`). The `claims/` prefix is described as
  single-writer, but every task of every command uploads `.waivers`. A task that
  started before a claims run and ends after it puts the old cursor back. By
  `CursorsAreCovered` this loses nothing: moves are reported again.
- **opsalert_window** (`opsnotify/task.go:135`). A streak is counted in the newest 200 records
  of everything. With the hourly schedules alone there are more than 26 records a day, so
  the first of a weekly job's three failures has left the window when the third is judged:
  the documented escalation at the third consecutive failure never comes.
- **fleet_alarm** (`internal/opsalert/heartbeat.go:206`). A league-wide command launched by hand
  runs under the admin's id, and from then on is asserted on that admin: when the hand launch
  has aged past the gap, the heartbeat reports the job as not run although its schedule is on
  time, the very report the comments in infra.go and heartbeat.go set out to prevent.
- **lineup_silenced** (`internal/lineuprun/emit.go:520`). Marker-store failures are said to
  degrade to duplicate alerts, never to silence. An apply failure's marker that could not be
  cleared silences the next episode with the same text.

Facts that are not disagreements but that a reader should know:

- `VerifiedIsProven` survives the restart of versions after a deletion, although there a
  writer of the old version 1 can match the new one.
- An ambiguous Pushover answer, a failed marker or two overlapping invocations are the only
  ways to a second push about a task (`slipped`).
- Two overlapping deletions of one tenant can take a claim from the tenant who has since
  claimed it (`deletedTwice`); ddbuser.go accepts that race in a comment.
- The count of starts (`gs_check.go:290-303`) gives a pitcher first seen in mid-period one start
  if he made any this season, which is one too many if he made none that day; and starts made
  while out of the table are counted on the day of his return. In the list of starts to deduct
  such a newcomer's points are his season total. `StartsAreCounted` and `ExcessCanBeDeducted`
  say exactly this much.
- Among equally good lineups the one with the fewest changes is chosen (`lineup.go:186`) only
  among those that fill the slots in turn: the search never leaves a slot empty for which a
  player is left.
- With a projection below zero, which nothing in the code rules out for a pitcher, the search is
  not optimal (`lineup.go:184-186` says it is), not even among those: its bound adds the next best
  players whether they fit or not, a hitter with a game of less than nothing before one
  without (worth nothing), so it cuts what it should not. `LineupIsBest` then claims only that
  the lineup can be realized.
- `PastDaysStayFinal` is all the look-back of `daily_fpts.go:235` gives by itself: a snapshot
  taken while its day was settling is replaced by a later walk over that day *within* the
  look-back, if that walk is not followed by the write of an earlier one. If
  nobody walks over it then, it is served for the rest of the season, although `cached.go:36-41`
  presents the tier of the reader as what keeps a mid-settle snapshot from being pinned: the
  entry itself does not tell. A weekly job that reads last week's Sunday on a Monday, and
  again a week later, is such a reader for every team nobody else reads.
- `NothingIsPassedOver` needs an overlap above zero, not only one that covers the feed's age:
  with none, a drop that completes in the same tick as a capture, after it, is never looked at
  again. The code's comment asks for the feed's age alone; its hour is both.
- The three promises of the connect handler that are proved without scheduled runs
  (`VerdictIsAboutStoredCreds`, `FailureVerdictIsTold`, `OneVerificationAtATime`) fail with one,
  all through the ladder's re-read of ladder_verdict.
- A start the gate declined is still activated if a pitching slot would otherwise stay empty.

## 8. What is not modelled

*Inside the modelled parts.*

- Connection: encryption and decryption (data), the login itself (any outcome), the wording of
  the feed, and that overlapping ladders can each write a feed entry about one break
  (`session_ladder.go:308`).
- Claims: dry runs, `--since`, enrichment; a ledger day lost to a failed write
  (`jobreport.go:144`); which entries of a day file a copy cut short keeps.
- OpsAlert and Heartbeat: messages, records that cannot be parsed (to the reader, records it
  cannot read), retention; deliveries so late that the next run of the key has ended
  (`opsnotify/task.go:172`, excluded by `InOrder`); drift, builds, alarms.
- Directory: listings and lookups that change nothing, activity feeds, signing in.
- Launch: validation of a job's parameters, the read endpoints; league jobs launched by hand
  under two admins, which do not see each other's partition of the ledger, are in the model but
  `OverlapsWereBlind` claims nothing of them.
- Lineup: which lineup is decided in a run (any legal one in Apply; Optimizer judges one day's
  decision), the dates beyond today and their concurrent requests (`optimize_dates.go:142`),
  the published page, captures of shadow systems without depth data, the reports of ineligible
  players and slots the league no longer has; two runs that apply at once (another run only
  fills the cache).
- Games started: the period's bounds, limits and report (`internal/gscheck`), retries of a
  team's fetch.
- Grade: what a grade is, the lineup-gap rows; the order in which a run writes its partitions
  is any order, as the code's map iteration is.
- Cache: file format, keys, eviction. Pickups: trade logs and values, a
  starter who changes clubs.

*Planned*: the season gate, a function of the calendar alone, and the gs-check job.

*Not planned.* Most of the repository is clients, parsing, numbers, reports, pages and
infrastructure code with no state to interleave: the Fantrax client beyond the write of a
lineup, its cache and its lists (requests and parsing over an external service); projections
and matching of names (numeric blending, string comparison); the reports (one fetch, a
ranking, a message, in jobreport's order of effects, which Claims has); the recap site (a
renderer); state stores (byte access, atomic per object as in S3); sign-in (a library's
protocol); progress, notifications and the dashboard (display); infrastructure
(declarations, read for the schedules, retries and timeouts the models' environments follow).
For these a model would be the code again, or nothing; the share of the code that the
modules cover is therefore small, and what they cover is where state is shared.
