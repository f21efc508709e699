# Verification of the JonDash add-ons

This directory holds TLA+ specifications of the add-ons and helpers of JonDash
(`addons/`, `helpers/`), the TLC configurations that check them on small
instances, and proofs, checked by TLAPS, of what matters most for every
instance. `PROJECT.json` lists the parts, the runs, the mutations that show that
each property can fail, and the source lines behind every definition.

## 1. The system

JonDash is a dashboard whose core is another repository. This one holds
*modules* (`addons/*`: a page, settings, server actions, schedules, tables of
their own) and *helpers* (`helpers/*`: services that modules call through an
API, with an `onBoot` and tables of their own). Everything runs in one Node
process: there are no threads, but every `await` lets another request, timer or
boot step run, and the process may stop between any two of them.

| Part | State | Operations | What is hard |
|---|---|---|---|
| Backup Manager (`addons/backup-manager`) | tables `jobs`, `runs`, `settings` | the minute tick (`run-due`), `runJob`, `reconcileRuns`, `failRun`, `scheduleRetry`, `applyRetention`, the admin's actions, `onEnable` | the tick and "Run now" interleave at awaits; a copy outlives the call that started it; stops between writes of two tables; results settled later than they happened |
| Backup schedule (`lib/schedule.ts`) | a job's `nextRunAt` | `nextRun`, `nextRetry` | boundaries: midnight, week and year ends, "strictly after" |
| Filesystem helper, copying (`helpers/filesystem/api.ts`, `lib/copy.ts`) | table `runs`, the map `live`, snapshot folders | `start`, `status`, `cancel`, the background copy, `onBoot` | a copy nobody awaits; an abort flag that may come too late; files that fail without failing the copy |
| Filesystem helper, retention (`lib/snapshots.ts`, `lib/prune.ts`) | snapshot folders | `selectForRetention`, `planPrune`, `runPrune` | folders deleted while copies and other jobs use the destination; ISO weeks |
| Filesystem helper, administration (`lib/admin.ts`, `roots.ts`, `scopes.ts`, `paths.ts`) | tables of roots, suggestions and switches | approve and remove locations, suggest, accept, decline, the three "everything" switches, `resolveIn` before every call | reads and writes with awaits in between; an approval that goes away under a call |
| Filesystem helper, secrets and logs (`lib/secrets.ts`, `logfile.ts`) | the registry of one run; a log file per run | `loadRegistry`, the two checks, `RunLog`, `pruneLogs` | a tree that changes under the walk; flushes nobody awaits |
| Scheduler helper (`helpers/scheduler/run.ts`) | table `runs`; timers, `registered`, `running` | `startScheduler`, the 30 s watcher, `scheduleJob`, `runJob` | overlapping passes; await between check and mark; catch-up after downtime |
| Health Monitor (`addons/health-monitor`) | tables of monitors, results, summaries, incidents, maintenance windows, channels, routes | the poll, `checkMonitor`, the roll-up, the form, import, the admin's actions | a monitor row read before a network wait and used after it; incidents opened twice; stops between two writes; summaries that replace each other |
| MCP helper (`helpers/mcp`) | keys, settings, the listener, counts of refusals | `handle`, `dispatch`, `authorize`, the tools; start and stop of the listener | rights taken away while a call is on its way; several callers of start and stop that await |
| Host services (`helpers/host-services`) | the list, requests, suggestions, switches; scheduled tasks on the host | request, approve, decline, execute, add, remove, uninstall | two systems that must agree; decisions on what was read earlier |
| Host install (`helpers/host-install`) | requests, the table of what was installed; packages on the host | request, approve, decline, uninstall | removal may only touch what was installed from here |
| Docker helper and Docker Manager | nothing stored: a call in flight, a notice | a verb on a container | an engine that goes on after the caller gave up |
| System metrics and Host Vitals | nothing stored: two readings of one snapshot | `snapshot`, the tile, the page | counters that start anew, devices that come and go |
| `scripts/` | two branches, tags, two manifests | the checks before tagging and pushing | channels that advance by hand over tags and merges |
| service-control, mcp-server, template | none of their own | pages over a helper | none |

How they interact: the scheduler's timers run a module's schedules; Backup
Manager's tick calls the filesystem helper and later reads the helper's rows
back; retention is called by Backup Manager once a run is settled as done; the
admin's actions change the same tables at any time; a module may be switched
off and on without a restart.

What makes each part correct:

- *Backup runs*: one copy of a job at a time; every copy is tracked by a row;
  a row is only closed as good if its copy was; retention only follows a good
  copy; only failures count as failures; runs are settled, and due jobs get
  their turn under the concurrency limit.
- *Alerts*: a broken job is told of once in its window, and a run is in no two
  weekly summaries; what the reports say is what the runs were.
- *Schedule*: a job is due at the very next of its moments.
- *Retention*: what is removed was not asked for by any policy in use, and the
  newest snapshot stays.
- *Copying*: a run that says done has accounted for every file that could be
  looked at; secrets stay while administrators want them to; what was skipped is
  on record.
- *Locations*: a call works only where an administrator let it; a decline holds
  for the path as it was typed.
- *Scheduler*: one timer per job, no overlapping runs, enabled jobs run in time,
  overdue jobs catch up.
- *Health Monitor*: an open incident exactly while the monitor is down, and
  never two; an outage is confirmed before it counts, and in the end recorded,
  like every recovery; the hourly limit of alerts; history that counts every
  check once; a check that ends; alerts that go only where somebody sent them;
  a form that stores what it shows.
- *MCP*: one socket, where and while the settings say; no call acts on a right
  it never had.
- *Host services and install*: a request is decided once and carried out at most
  once; every grant on the host is accounted for; only what was installed from
  here is removed; also after the helper was removed and came back to its tables.
- *Docker, metrics*: done is said of what was done; no rate is invented.
- *Publishing*: what a channel serves was tagged, beta is not behind, and a
  removal is declared to those who update.

## 2. Modules

| Module | Models |
|---|---|
| `BackupRuns` | `module.ts`, `actions.ts`, `lib/store.ts` of Backup Manager with the run half of `helpers/filesystem/api.ts` and `helper.ts` |
| `BackupLedger` | what the runs table promises: the abstract specification of `BackupRuns` |
| `Calendar` | the week, month and year keys of `lib/snapshots.ts`, on a proleptic Gregorian calendar of day numbers |
| `BackupSchedule` | `lib/schedule.ts` and the `nextRunAt` that is kept from it |
| `BackupAlerts` | `alert`, `shouldNotify`, `checkForStaleJobs`, `maybeSendDigest` of Backup Manager, with the rows they read and the actions that edit them |
| `BackupReports` | what the page, the job's page, the tile and the digest make of the runs |
| `Retention` | `lib/snapshots.ts`, `lib/prune.ts`, the folders of `lib/copy.ts`, `applyRetention` |
| `Scheduler` | `helpers/scheduler/run.ts` |
| `HealthMonitor` | `lib/engine.ts` and the poll of `lib/scheduler.ts` of Health Monitor, the monitors, incidents and notifications of `lib/store.ts`, "check now" and pausing of `actions.ts` |
| `HealthHistory` | results, the roll-up and pruning of `lib/store.ts` beside checks, deletions and stops |
| `HealthFigures` | uptime, strips, charts, maintenance windows, quiet hours and the tile: figures over results and summaries |
| `HealthConfig` | monitors, channels and routes, saved, deleted and imported statement by statement |
| `MonitorForms`, `MonitorEdits` | the form of a monitor, its parsing and its defaults; the same monitor edited again and again |
| `HealthChecks` | `lib/checks.ts`: every kind of check with its timers |
| `Locations` | approved folders, switches and suggestions of the filesystem helper, and `resolveIn` |
| `CopyEngine` | `lib/copy.ts` and `lib/secrets.ts` over a tree that changes, and how the run is settled |
| `RunLogs` | `lib/logfile.ts` |
| `McpListener` | the listening socket of `lib/transport.ts` and everything that opens or closes it |
| `McpAccess` | a call of a tool: `handle`, `dispatch`, `authorize`, `decide`, the tools, keys and accounts |
| `HostServices` | the list, its grants, requests and suggestions of `helpers/host-services` |
| `HostInstall` | requests, the installer and the table of `helpers/host-install` |
| `DockerControl` | `helpers/docker/lib/engine.ts` and the actions of Docker Manager |
| `HostMetrics`, `MetricFigures` | `snapshot` and its rates; the other figures and what Host Vitals shows of them |
| `Publishing` | `scripts/check-manifest.mjs` and `check-helper-surface.mjs` between two branches, tags and channels |
| `MCBackupRuns`, `MCBackupSchedule`, `MCRetention`, `MCHealthMonitor` | instances for TLC |
| `MCParts` | one instance of all parts that share no state with each other |
| `MCFigures` | the operators of `BackupReports`, `HealthFigures`, `MonitorForms` and `MetricFigures`, compared with their definitions over bounded inputs |
| `BackupRuns_proofs`, `Retention_proofs`, `Scheduler_proofs` | theorems of the module named |
| `HealthMonitor_proofs` | theorems of `HealthMonitor`, `HealthConfig`, `HealthHistory` and one of `HealthFigures` |
| `Filesystem_proofs` | theorems of `Locations`, `RunLogs`, `CopyEngine` |
| `McpHelper_proofs` | theorems of `McpAccess`, `McpListener` |
| `HostHelpers_proofs` | theorems of `HostServices`, `HostInstall`, `DockerControl`, `HostMetrics` |
| `Parts_proofs` | theorems of `Publishing`, `HealthChecks`, `BackupAlerts`, `BackupSchedule` and `Calendar`, `MonitorForms` and `MonitorEdits` |

### BackupRuns

Every `await` is a point where another handler can run. The tick and each "Run
now" is an actor with a program counter, and a step is one statement or one
helper call; two awaits are one step only where no other handler's step between
them could change the outcome (a comment says so). `exists`, `enabled`, `next`,
`failures` and `limit` are the jobs table and the concurrency setting; `row` and
`linked` are the module's runs table (`linked`: `helperRunId` is set); `copy`,
`live` and `aborted` are the helper's. Both rows of a run are keyed by one
*attempt*, whose id is taken again only when nothing refers to the old run any
more, as a `randomUUID` would never be. `todo`, `batch`, `order`, `tickLimit`
and `inFlight` are the tick's locals: they are read once, as in the code, and
may be stale when they are used.

`nextRunAt` is abstracted to "slot" (its next slot), "retry" (brought forward)
or "due"; `older` orders the due jobs. The failure count stops at
`MaxRetries + 1`, since the code only compares it with `maxRetries`.

`CONSTANT Events` names the outside events an instance has: crashes, throwing
statements, lost helper tables, edits, deletions, cancels, clicks, re-enabling.

Alerts, the digest and `lastNotifiedAt` are in `BackupAlerts`. The two DELETEs of
`deleteJob` (store.ts:136-138) are one step: a tick between them would meet a job
without its runs, as one does that had read the job before. Left out: audit entries and progress. Audit calls are taken not to throw.
`start` adds to `live` and inserts its row in one step; a log that cannot be
opened would leave an entry in `live` that nothing reads.

### BackupSchedule and Calendar

Time is in hours: `atMinute` is taken in whole hours and every day has 24. The
real schedule follows local time across daylight-saving changes by `setDate`
and `setMinutes`, which are JavaScript's. `Calendar` models the UTC calendar
that JavaScript provides and, from `snapshots.ts`, the keys made of it.

### Retention

A snapshot is the time stamp that names its folder; two copies never share one
(they would have to start in the same second). `good`, whether a snapshot is
complete, is a variable the code does not read. Copies create their folder with
the first file, may lose files without failing, and may go on while a prune
removes folders one by one; a removal may fail or be cut short half way. Each
prune may use another policy, since jobs may share a destination.

### Scheduler

Time is a count of units; timers, the watcher and `lastRunAt` are measured in
it, and no timer is overtaken by time. Passes over the jobs (the boot's and the
watcher's) may overlap and wait for reads as long as they like. A tick's
`isEnabled` is taken to answer within a unit (`ReadsAreQuick`): `NoOverlap`
depends on it, because the job is only marked as running after that await.
Reads may throw, and then this tick or pass is dropped as in the code;
`EnabledJobsRun` and `CatchesUp` are promised from the last such fault on.
The boot's own first read is taken to succeed.

### HealthMonitor

`check` holds the checks that are going on, one record per caller (the poll's
check of a monitor has the monitor's name, an admin's the admin's), with its
place in `checkMonitor` and the locals it still needs: above all `was` and
`fails`, the status and the streak of the row as it was read before the network
wait. Each statement is a step; `suppressed` is one, since of its reads only the
parent's status and the count of notifications can change meanwhile and no
property relates the two; an alert and its log entry are one as well. `row`,
`enabled`, `due` and `open` are the tables; `due` is in the order of
`nextCheckAt`. Whether alerts are off, the process has just started, a
maintenance window is on, or a repeat is due is left open (any check may find it
so), and so are the network's answers. An incident keeps its id only while it is
open or held by a check. `disturbed` records the monitors of which two checks
have met or one was cut short: some properties are not promised of these.

Settings are constants: a check and its poll read them once. Left out: latency,
messages and certificate days (they only decide the observed state),
`lastNotifiedAt`, audit entries.

### The parts of `MCParts`

Each of these modules has its own state, `Init`, actions and properties, and
calls into none of the others, so that a product of them would only multiply
states. `MCParts` therefore starts every behaviour with the choice of one part
(and, where a part is large, of the side of it that is looked at: `focus`), and
only that part moves. `PartsTypeOK` is the conjunction of their type invariants.

They are written alike. A handler is a record with the place it is at and the
locals it has read; every statement that reads or writes a table, and every call
of the host, the network or the core, is a step of its own, so that other
handlers, a stop of the process, or the world run in between. What a property
compares with is kept in *history variables*, which no guard reads: what a call
was lacking all the while (`McpAccess!lacking`), which approvals were in force
and where folders led at some moment of it (`Locations!inForce`, `ledTo`), what a
device really moved (`HostMetrics!moved`), what was last done with a package
(`HostInstall!deed`). Where the code leaves a race open, a history variable
collects the names it touched (`strayed`, `meddled`, `tangled`, `contested`,
`disturbed`, `mixed`, `crossed`, `overlapped`), and the property is said of all
others: it then shows that nothing else goes wrong, and section 4 lists the race
itself. So `ListenerMatchesSettings` does not speak of starts that meet, nor
`IncidentsFollowStatus` and `ConfirmedDown` of monitors whose checks met. What a
later action puts in order is only left out until then (`HostServices!cut` and
`withdrawn`, `HostInstall!unwritten`), and what the code does not look at has a
name of its own (`HealthConfig!blind`, `CopyEngine!exposed`, `Publishing!alone`
and `under`).

- `BackupAlerts`: the row of a job as a run or the tick holds it, two of them at
  work, each alert with its channels in turn; hours are counted. A mark that
  throws after the sending (module.ts:390, 395) is not a step of its own: it would
  be one more way of losing a mark, as a stop there is.
- `HealthHistory`: time in ticks, `HourTicks` to the hour; a check takes its row
  before the network and writes after it; a fold is a list of statements, one
  bucket at a time.
- `HealthConfig`: an action is the sequence of statements it will run; an import
  turns to its monitors one after another when its channels are through. A page
  that is still open may name any channel there ever was (`shown`): neither
  picks nor ids of a form are looked up.
- `HealthChecks`: one check with the deadline of its current leg; what the other
  side answers, and when, is open. The timer of a connection counts silence, so
  it starts again when the name has been looked up (`NameFound`).
- `Locations`: folders are members of a set with a relation of containment;
  links may come to point elsewhere; a call checks each of its two ends. A
  suggestion is a path as it was typed (`Spelling`), which several may be for
  one folder.
- `CopyEngine`: three files in two folders, each with an identity, a size and a
  time; the walk meets them in any order; files are written, renamed, moved and
  made unreadable under it, the whole source may be, and files and folders may
  not even be looked at (`hidden`: `stat` fails). The administrators' switch that
  leaves JonDash's own data out is asked after the registry was read
  (`AskExclusion`). A second run starts from the first one's copies.
- `RunLogs`: lines are the events they stand for; an append lands, or fails, at
  any time after it began.
- `McpListener`: each settings form and boot is a caller; `startListener` is
  four awaits long.
- `McpAccess`: one tool call at a time from one assistant, with every right it
  rests on changing at any moment. The core's own functions are external.
- `HostServices`, `HostInstall`: two tabs; Windows and the package manager are
  the variables `grants` and `present`, changed by the calls and by hand. The
  helper may be removed at any time and come back: its tables stay as they were.
- `DockerControl`: a request the client gave up stays with the engine.
- `HostMetrics`: a counter with an end, and devices that leave and come back. A
  rate is the difference of its two readings; the division by the wait that was
  asked for is left out, and a counter begins at 0.
- `Publishing`: one helper; versions are a line and the number of a pre-release;
  merging, tagging and pushing are what `VERSIONING.md` tells a person to do. A
  tag is cut in the clone, once and in any order, and pushed with its branch,
  later or never; both scripts see the tags of the clone only.

The figures are pure operators. `MCFigures` says of them, for all inputs from
small sets, what they must be (`ASSUME`s, evaluated by run `parts`): what the
digest and the tile count, how parts of hours add up, what a form gives back
for what it was given, how severe a reading is and which group decides.

## 3. Runs

Bounds are in the configurations. Deadlock is checked for `scheduler`; the
others may really stop: a finite supply of dates or of jobs is used up.

| Run | Instance | Shows |
|---|---|---|
| `sequential` | 2 jobs, 2 attempts, limits 1 and 2, crashes and edits, no clicks | `SingleCopy`, `CopiesAreTracked`, `StartsWithinLimit`, `RunsCloseAfterTheirCopy`, and that `BackupRuns` implements `BackupLedger` |
| `hazards` | 1 job, 2 attempts, one clicker and the tick, every kind of trouble but edits | `GoodMeansCopied`, `RetentionFollowsCopy`, `OnlyFailuresCount` |
| `liveness` | 2 jobs that share one place, fairness | `RunsAreSettled`, `DueJobsGetATurn` |
| `stacked` | 1 job, one clicker and the tick | finding: `SingleCopy` fails with clicks |
| `stuckrow` | 1 job, crashes | finding: `RunningRowsAreAnswerable` fails |
| `retention` | 5 snapshots over a week, month and year end, 4 policies, 2 copies at once | `HistoryKept`, `PlanSparesNewest`; as assumptions, that the keys are the code's and weeks are weeks |
| `retention_good` | the same dates, one copy at a time, policy of zeros | finding: `GoodBackupSurvives` fails |
| `form` | one monitor of each kind, edited, imported, its parent deleted | finding: `EditTakesEffect` fails |
| `scheduler` | 2 jobs (one skips catch-up), 2 passes | `OneTimerPerJob`, `NoOverlap`, `EnabledJobsRun`, `CatchesUp` |
| `health` | a router and a server behind it, batches of 1, an admin who checks the server, 2 confirmations, 1 alert an hour; fairness | `IncidentsFollowStatus`, `ConfirmedDown`, `AlertsAreBounded`, `OutageIsRecorded`, `RecoveryIsRecorded` |
| `parts` | fifteen parts, one per behaviour (table below); `MCFigures` as assumptions | one or two properties of each part, `PartsTypeOK` |
| `history` | `HealthHistory` alone, hours of two ticks | finding: `UptimeCountsOnce` fails |

| Part of `parts` | Instance | Shows |
|---|---|---|
| listener | two tabs and boot, two ports, two keys | `ListenerMatchesSettings` |
| access | each of 8 tools in turn, one assistant, key and account | `CallsWereAllowed` |
| services | two services that want one task name, two tabs; one request; the switches; the helper removed and back | `GrantsAreAccountedFor`, `RequestsAreAnsweredOnce` |
| install | one package, two requests, two tabs; the helper removed and back | `OnlyOwnIsRemoved` |
| places | a drive with two folders, one of them barred; each kind of call with a folder that leads elsewhere, or suggestions of one folder in two spellings on two pages | `ReachWasApproved`, `DeclinesAreRemembered` |
| copy | three files, two folders, two contents of one size; one thing happens to the tree in a run, or the exclusion is switched | `DoneMeansAccountedFor`, `SecretsStay` |
| logs | two runs, three events, flushed by twos | `SkipsAreOnRecord` |
| history | one monitor, six ticks | `WholeHoursAreKept` |
| checks | every kind; two redirects, a floor of 1 in a timeout of 3 | `ChecksEndInTime` |
| config | two channels, a monitor, two tabs that may be out of date, and an import | `RoutesWereChosen` |
| metrics | a disk and an interface, counters that end at 2 | `RatesAreHonest` |
| docker | one container, every verb against a stop | `DoneIsDone` |
| alerts | one job told of from both sides; two runs and the digest | `NobodyIsToldTwice` |
| publish | three releases and a beta of the second; tags cut on either branch, and pushed late | `PublishedIsUsable` |
| schedule | 7 schedules, the year ends 2019/20 and 2020/21 for 9 days each, pick-up up to 30 h late | `DueAtNextMoment` |

Why the bounds are enough. Two attempts let one run be in flight while another
is started, settled or forgotten, which is what every hazard of the runs table
takes; two jobs and limits of 1 and 2 let the limit bind and not bind. The
theorems of section 5 remove these bounds for the safety properties. The assumption
`WeekKeysAreWeeks` covers the year ends of a whole cycle of weekdays and leap
years, so all kinds of week 1, 52 and 53 occur. The five dates of `retention` hold two
snapshots of one day, a Sunday and the Monday after it, and a week that
straddles the year. In `scheduler` the interval is longer than the watcher's and
than the stagger, so passes and ticks meet in every order. In `health` both
monitors compete for the batch, and checks by hand, cut-short checks and pauses
are explored for the server while the router is paused (`MCIntervene`): they
touch one monitor's row, incidents and checks; monitors share only the count of
notifications, the batch and a parent's status, which the two of them exercise.
In `parts`, two actors and one object are enough for a check-then-write race,
and two objects only where one can stand in another's way (two services for one
task name, two folders of a drive, two channels of a monitor). The versions of
`publish` hold a release that had a pre-release and one after it, so that every
exemption of `RemovalsAreDeclared` is needed; the timeouts of `checks` hold a
redirect that is granted its floor. What is cut away to keep
an instance small is said at its action in `MCParts`.

**Fairness** (`BackupRuns!Fairness`). The scheduler's interval timer keeps
firing, and the event loop goes on with whatever it has awaited: weak fairness
on the steps of the tick and of `runJob`, and on the end of each copy. A copy is
assumed to end (no file read hangs for ever). Strong fairness is not needed, and
nothing is assumed of the admin or of time. `HealthMonitor!Fairness` is the
same: the poll keeps coming, a saved `nextCheckAt` is reached some day, and every
await returns (checks and alerts have timeouts). Faults, crashes and edits are not in
that run: a system that crashes before every settlement settles nothing.

## 4. Findings

A run shows that each of the five happens; a theorem of section 5, named here,
shows that nothing else breaks the property: with the step that the finding is
about ruled out, it holds for every value of the constants.

1. *Stacked copies* (`stacked`). `runJob` checks for a running row, then tests
   the destination and starts the helper, and only then inserts its row. "Run
   now" and the tick, or two clicks, both pass the check (module.ts:159-198).
   With the tick alone `SingleCopy` holds (`sequential`), and with clicks as long
   as no two actors are in that stretch for one job (`SingleCopyWhenApart`).
2. *A row that is never settled* (`stuckrow`). A stop between the two
   statements of `failRun` (module.ts:213-214) leaves a running row without a
   helper run; `runsAwaitingReconcile` (store.ts:214) leaves it out,
   `runningRunForJob` does not, and the job is never started again until the
   module is switched off and on. Nothing but that stop leaves such a row
   (`RowsAreAnswerableWhenWhole`).
3. *The last complete backup can be pruned* (`retention_good`). A copy with
   failed files is done, and retention follows it (module.ts:297-301). As long as
   prunes are only planned while the newest snapshot is complete, a complete one
   stays (`GoodBackupSurvivesOnComplete`).
4. *An hour that a roll-up cuts in two loses its first part* (`history`). The
   summary of the rest takes the place of the first one's (store.ts:440-469);
   `WholeHoursAreKept` shows that all other hours count right, and
   `UptimeCountsOnceByTheHour` that a cutoff at the beginning of an hour would be
   enough.
5. *An emptied box does not empty the setting* (`form`). The form's keys are
   laid over the stored ones, and only two are ever deleted
   (`addons/health-monitor/actions.ts:61-63`): a lowest speed stays, although
   "Leave blank to record the speed without ever complaining about it"
   (check-form.tsx:251). It concerns the speed test's boxes only: every other box
   takes effect, whatever was stored, typed or imported before
   (`OnlyEmptiedBoxesStay`, `EditTakesEffectUnlessEmptied`).

Met while reading Health Monitor, and not made into runs: "check now"
(actions.ts:131) runs beside the poll's check of the same monitor, so two
incidents can be opened for one outage, of which recovery closes only the newest,
or a streak be counted on from a row that a success has since reset; a stop
between `saveCheckState` and the incident (engine.ts:142-168) leaves an outage
without one, or one that never ends; the hourly limit ("Never send more than",
settings.ts:64) is exceeded by checks in flight and by several channels,
`AlertsAreBounded` says by how much; in one batch a child may be called down, and
alert, before its parent's row says so (`MODULE.md:75` promises one alert); recovery
is believed at once (`MODULE.md:33` speaks of confirmed successes).

Met while reading the rest: "Run now" starts a copy whatever the
concurrency limit (`MODULE.md:92` and the settings panel speak of how many run
at once); `scheduleRetry` replaces a slot that has been reached in the meantime
(schedule.ts:158 compares with the slot after it); `onEnable` closes runs whose
copy is still going, since a module can be re-enabled without a restart
(module.ts:141), and a tick that had read such a row earlier then turns failed
into done; a module switched on again soon after a run waits a full interval
(run.ts:115 says it starts promptly); `stopScheduler` does not clear first
timers that have not fired yet (used by tests only); an interval starts its
steps over at its anchor every midnight, so every 6 hours from 22:00 runs at
22:00 and 04:00 and then not before 22:00 (schedule.ts:125).

*Alerts and reports.* A cancelled run is counted as a failure in the digest and
the job's statistics, and the tile calls it failed (widget.tsx:32), although
"Cancelled is not a failure" (job-detail.tsx:38). A failure within the window
of a stale alert, or after both transports failed, is never announced. A run
that starts before a digest and fails after it is in no digest. "All N backups
are healthy" is also said when nothing ran. `suspiciouslySmall` never flags a
run of no bytes. An alert that holds a row from before another one's mark is
sent again (module.ts:402).

*Forms and configuration.* Import drops a speed monitor's extra keys and wants
a target, so an exported one cannot be imported; an imported interval that the
list does not offer becomes the default at the next edit; a deleted parent
becomes "Nothing"; a change of kind leaves the old kind's keys; settings beyond
their limits are shown as typed and clamped when read. `uniqueId` looks the ids
up before it writes, so two new monitors of one name may become one; saving a
channel by its id brings back a deleted one; deleting a monitor leaves its
maintenance windows and its children's parent behind. Whether the channels a
form or a document picks are there is not asked (actions.ts:81, forms.ts:315): a
page left open writes a route to a deleted channel, and a new channel that is
given the same id (`uniqueId` looks at channels only) gets those alerts; so does
one saved under the `existingId` of such a page (actions.ts:153).
`RoutesWereChosen` leaves out the routes written in this way (`blind`).

*Health figures.* `uptimeSince` takes the 95th percentile one place above the
nearest rank, unlike `latencyBuckets`, and no summary stores one, although a
comment says so (store.ts:359); averages are means of means; speed readings do
not outlive the roll-up; `formatUptime` can say 100% with failures and
`formatDuration` 60 minutes. A weekly maintenance window ends at midnight,
although it may be a week long (store.ts:697, config.ts:73); of the warning days
of a certificate only the first is used (engine.ts:117). A check or fold in
flight beside a deletion leaves rows that a new monitor of the same id inherits.
The timer of a TLS check counts silence only, so a peer that keeps sending has
no bound; that of a TCP check starts again when the name has been looked up
(checks.ts:203, `socket.setTimeout`), so a host given by name may take about
twice the timeout that the message then names.

*MCP.* Two starts that overlap create two servers; a setting changed between a
start's reads leaves a wrong listener; after a bind that failed, `isListening`
still says it listens (helper.ts:48); `onIdentityRemoved` does not close the
listener with the last key; refusals for mode or permission count towards the
block; `create_backup` and `set_update_channel` record only after acting.

*Host services and install.* `execute` looks at neither the state nor the age of
a request, so an approval of a declined or expired one is carried out; a stop
between `createGrants` and the row, or two additions at once, leave grants no
row knows of; nothing closes a suggestion; an entry that is read-only cannot be
upgraded. Removing the helper takes the grants back and leaves the tables
(helper.ts:21-66; "data is kept", helpers/README.md:36), so after it is installed
again rows say `granted` of grants that Windows does not have, until the service
is removed and added. Whether JonDash installed a package is looked up when a
removal is asked for, not when it is approved; a stop between the installer and
the table, or two approvals at once, leave the table wrong. So does removing the
host install helper: `onUninstall` removes the packages that were ticked
(helper.ts:94-114, although helpers/host-install/HELPER.md:118 says that it removes
nothing) and
leaves their rows, so after it is installed again a module may ask for the
removal of software that the administrator has since installed by hand.

*Filesystem.* Accepting a suggestion overwrites a concurrent decline, and the
folder is approved; two suggestions at once may both be written; a declined
folder in another spelling (case, a trailing slash, a link) is put before the
administrator again, since the typed text is compared (api.ts:462-465); an
approved folder that turns into a link is followed for reads. `resolveIn`
compares the joined path as text with where the root leads (api.ts:252): a link
on the way below the root is followed out of it, and so is a folder that becomes
one after the check, although helpers/filesystem/HELPER.md:397 says "Never follow symlinks out of a root.
Resolve, then re-check containment" (`ReachWasApproved` is about the path).
A file or folder of which `stat` fails is dropped without a skip or an error,
and the run says done (copy.ts:126-130); a source that cannot be read at all
gives a done run of 0 files with one skip (copy.ts:109-115). With the switch for JonDash's own data off,
the registry is empty and secrets are copied, as the panel says. Journals of the
database,
and secrets replaced after the registry was read, are copied; a file changed
to the same size within two seconds counts as the same; `planCopy` leaves the
content check out although it promises "exactly what a real run would do"
(copy.ts:153). Flushes that overlap may land out of order, and `close` waits
only for its own; `pruneLogs` may delete the log of a run that is going on. If
neither outcome nor failure can be written, a run's row stays running until the
next boot (api.ts:614).

*Docker and metrics.* After a timeout the page says it could not do it
(actions.ts), although "a false 'failed' is worse than a wait" (engine.ts:75);
an answer cut off in its body never settles the call. A CPU figure without a
wait is about 0, not "the average since boot" (collect.ts:503); a core that
comes online reads 0 %; rates divide by the wait asked for, not the one that
was. "All healthy" is also said when nothing was measured.

*Publishing.* `lastPublishedTag` puts a release before its pre-releases
(check-helper-surface.mjs:164), so the next line's first beta is compared with
the last beta and not the release; a release is compared with its last beta
only, so stable users may see no `breakingFrom`, also of a removal in the next
line; nor do those who pass a tag that was cut under another. Run after tagging,
the check compares a version with itself. `cmpVersion` compares `beta.10` and
`beta.9` as text, which is harmless while stable lists releases only. That a tag
exists in the clone is checked, not that its tree declares the version or that
it was pushed (check-manifest.mjs:63 leaves that to "the publish step re-fetching
the live manifest", which is no part of the scripts): a branch pushed without its
tag is a 404 for its channel (VERSIONING.md:71). Beta is compared when it is
pushed, so it falls behind when stable moves and nobody pushes beta.

## 5. Theorems

All are proved by TLAPS for every value of the constants that satisfies the
named assumptions of the module (`ConstantsOK` and its like, evaluated by TLC in
every run). The instances of section 3 are small; the theorems say that nothing
depends on that. Each rests on an inductive invariant, since hardly any of the
properties is inductive alone: below, what had to be added, and why.

`BackupRuns_proofs`. Most invariants need the same strengthening:

- *TypeOK*, proved first and alone.
- *StageKnown*: the tick returns to the loop it came from.
- *LiveIsRunning*: a copy in `live` has a running row in the helper's table, so
  an ended copy never starts again under the same id.
- *TodoIsLinked*: what the tick still has to reconcile has a helper run.
- *Holding*: an actor holds an attempt exactly at the program counters that
  use one, nobody else holds it, and it is not among those still to reconcile.
- *HeldRow*: what is on record of the attempt an actor holds: nothing yet before
  `startRun`, no copy behind a failed start, a copy that failed or was
  interrupted on the way to a retry, a copy that ended as done on the way to
  retention.

`IInv` is their conjunction with `GoodMeansCopied`; `NextIInv` proves each
conjunct by a case for each action. From it follow `GoodMeansCopied`,
`RetentionFollowsCopy` and, as step properties, `OnlyFailuresCount`,
`RunsCloseAfterTheirCopy` and the refinement `LedgerRefined`. The last two
assume `"reenable" \notin Events`: `onEnable` really breaks them (section 4).

`CopiesAreTracked` is inductive with `IInv`
where nothing breaks it (`Orderly`: no deletion, no thrown statement, no
re-enabling; clicks are allowed). Without clicks as well (`Alone`) only the tick
starts copies: from the check for a running run on, its job has none
(`JobIsFree`), hence `SingleCopy`; and `inFlight` counts every copy that is
going but for the one about to be recorded (`CopiesAreCounted`), hence
`StartsWithinLimit`. Run `stacked` shows that a click really breaks the first.

Two theorems delimit findings 1 and 2. With clicks, `SingleCopyWhenApart` assumes
of the behaviour that no two actors are past the check for the same job
(`StartsApart`, which the tick alone always keeps): then a job is still free when
its row is written (`FreeWhenChecked`), the attempt in hand is of that job
(`HeldForJob`), and neither changes by what others do. `RowsAreAnswerableWhenWhole`
assumes of the steps that none cuts `failRun` between its statements
(`FailRunsAreWhole`); everything else, clicks, deletions, lost tables and
re-enabling among it, may happen.

`Retention_proofs`. `HistoryKept` compares with every snapshot ever taken, while
each prune sees only what earlier prunes left. The inductive part is that the
newest of a period, and the number of periods since, can only grow with more
snapshots (`ExpendableStays`), and that removal from a subset that still holds
every snapshot asked for is justified in the whole (`OneOfLastInPart`,
`KeptInEveryPart`). The maximum of a finite set is found with the library's
well-founded minimum (`NewestExists`). `GoodBackupSurvivesOnComplete` delimits
finding 3: a plan never names the newest folder, so if that one is complete when
the prune is planned, a complete one is outside the plan until the prune is
through (`PruneSparesGood`), whatever copies do beside it.

`Scheduler_proofs`. `OneTimerPerJob` holds for any overlap of passes and reads of
any length (`Timers`: a registered job is in the hands of one pass, and only
one). The promises about time assume `ReadsAreQuick`, and their theorems say so:
without it a tick may still be at its await when the timer fires again.

- *Checks*: at most one tick of a job is at its await or past it, and while one
  is, no timer of the job has run out; hence `NoOverlap`.
- *Punctual*: the time a job has been idle, plus what is left to the watcher's
  next pass, or on the job's timer, never exceeds the bound; it splits by whether
  the job is unregistered, asking, armed or checking. Hence `EnabledJobsRun`.
- *Owes*: while a job that is owed a run has no timer, the clock of `uptime` has
  not started; and its first timer is `Stagger` at most. Hence `CatchesUp`.

`HealthMonitor_proofs`. In `HealthMonitor`, `Sound` says of a monitor that no two
checks met on: it has one check at most, and how far the tables and the history are behind that
check at each of its places (`OnTrack`): until it saves, the streak it counts on
is the row's; between the row and the incident, the one is ahead of the other;
a check that is to close an incident holds the id of the only one that is open.
Hence `IncidentsFollowStatus` and `ConfirmedDown`. `AlertsAreBounded` counts
promises: each check that the hourly limit has let pass owes an alert to every
channel (`Promised`), so what is logged plus what is promised stays below the
limit plus a batch and the admins (`AlertsIInv`). A sum over an unbounded set of
checks is avoided by counting pairs of a check and a channel.

- *Configuration*. What an action is about is about nobody else, unless crossed;
  a row goes in the statement after the one that clears its routes, and until
  then nobody can give it a new one (`Tidy`, `RoutesAreGone`). So a route whose
  row goes had another action at it, or was written for a channel that was not
  there: hence `RoutesWereChosen`.
- *History*. Of an hour no fold cuts in two, the checks are all there as rows or
  as one summary that says exactly what happened, or as both while a fold is on
  its way or was cut short (`HourIsAccounted`); such an hour lies wholly before
  the fold's cutoff or wholly after it, and no result can come in that belongs
  before it (`FoldLooksBack`, from `FoldAfter > 0` and a check that outlasts no
  tick). A monitor that was deleted with nothing beside it has left nothing
  (`GoneForGood`), so a new one with its id begins at nothing. Hence
  `WholeHoursAreKept`: counting a summary's checks and counting the rows it
  replaced agree. If folds begin at the beginning of an hour (`FoldsBeginHours`),
  no hour is ever cut, hence `UptimeCountsOnceByTheHour`.
- *Figures*: of a week's windows, the one of the day itself began less than a day
  ago, every other one a day ago or more (`SinceItBegan`). Hence `QuietUntilMidnightAlways`: at any minute of the week a
  weekly window is open when it was asked to be, except beyond midnight.

`Filesystem_proofs`.

- *Locations*. What a call has checked so far was in force at some moment since
  it began, and its path lies where the root led at one (`Rests`, `LiesWhereLed`),
  which no later change takes back: hence `ReachWasApproved`.
  Of requests that are not contested, one at most stands for a module and a
  spelling, and none while one is about to be inserted (`OneRequestEach`,
  `NoneBehindInsert`): hence `DeclinesAreRemembered`.
- *Run logs*. A line that must be kept is in the file, in the buffer or in a
  batch on its way (`NothingIsLost`), whatever flushes overlap: hence
  `SkipsAreOnRecord`.
- *Copies*. What the registry knows of secrets that were left alone
  (`RegistryKnows`); that a file in hand is what it was when it was met
  (`FileIsSound`), so that the two tests between meeting and writing are of the
  same thing; hence `SecretsStay`, of runs that the switch was on for all the
  while. Every file is dealt with, in hand, still to come, or cannot be looked at
  (`NoneIsLeftOut`): hence `DoneMeansAccountedFor`.

`McpHelper_proofs`. `CallsWereAllowed`: what a call has got past, it was not
lacking all the while (`SoFarAllowed`), and it is never recorded as lacking what
it has now (`LackingIsCurrent`). `ListenerMatchesSettings`: as long as nothing
strayed, a start on its way is alone and rests on settings that still hold, what
listens can be closed, and what no longer suits the settings is about to be
looked at by some request (`SocketsAreDue`).

`HostHelpers_proofs`.

- *Services*: the types and `RequestsAreAnsweredOnce`, by where each decision on
  a request is on its way. `GrantsAreAccountedFor` goes one task name at a time:
  as long as a name was not meddled with or cut, one handler at most is at work on it,
  and what it has done so far determines whether Windows has the grant and
  whether the row is there (`Sound`, `Underway`). Steps on other names leave it
  alone because a row is deleted by an id that no other row ever gets
  (`IdsStay`); this is where `randomUUID` is needed (`IsFresh`).
- *Install*: whatever is in the table, or is asked to be removed, JonDash has
  dealt with before (`DeedsAreRecorded`), over removals of the helper as well; a
  package that is not `tangled` has one
  page at work on it (`OnePageForEach`); the table lags behind the installer only
  between the two writes of that page, or stays behind (`unwritten`) until the next
  ones (`WritesAreDue`, `TableIsTrue`). Hence
  `OnlyOwnIsRemoved`.
- *Docker*: what the engine works on for a page is what the page asked
  (`WorkIsAsked`; work given up belongs to nobody, which is no page), and a
  request has seen the state its container is in (`SeenIsCurrent`). Hence
  `DoneIsDone`.
- *Metrics*: what a device has reached since its first reading is no more than
  it moved (`WithinMoved`), and no second reading is taken before the first ones
  are through (`ReadInTurn`). Hence `RatesAreHonest`.

`Parts_proofs`.

- *Publishing*: semver is a strict order (`EarlierIsAnOrder`); there is a newest
  tag, main is not behind what stable serves, and a removal between two tags of
  any lines is declared between them (`RemovalsAreDeclared`): a tag cut under
  another is on record, and one cut above all is compared with the newest, which
  comes after every earlier version but a release that had pre-releases
  (`NewestIsLast`). Hence `PublishedIsUsable`.
- *Checks*: where each leg begins at the latest, a name's before its connection
  (`NameSound`), and how long it may take
  (`LegFits`): a redirect is granted its floor though time is up, so each costs a
  floor at most. Hence `ChecksEndInTime`.
- *Alerts*: of a job on which no two alerts met, the row knows of the last
  delivery but for the alert that made it, and one that has reached nobody yet
  comes when it may (`Apart`); the runs that summaries counted are not younger
  than the last mark (`SummariesApart`). Hence `NobodyIsToldTwice`.
- *Schedules*: the minimum over a fortnight exists because each week has each of
  its days (`WeekHas`), and every moment before it would have been among the
  candidates (`DailyIsNext`); an interval is rounded up to its next step
  (`StepsAre`) and meets its moments on every day if it divides one
  (`StepArithmetic`). Hence `DueAtNextMoment`, from what `saveJobAction` stores
  (`SchedulesOK`: 1 to 720 hours, a time of day, days of the week).
- *Calendar*: until 2900 leap days are so few (`LeapDaysAreFew`) that
  `d \div 366` is two years behind at most, so the year of a day is among the
  three that are tried (`YearIsRight`), and the month with it (`MonthIsRight`).
  A week is three days around its Thursday (`ThursdayIsMidweek`), and Thursdays
  of a year are counted in sevens from its first. Hence
  `WeekKeysAreWeeksForAll`, for all days from 1970 to 2899, and `WeekNumbers`.
- *Forms*: what is shown of a row (`ShownIs`) and what is stored of a form, box
  by box, over whatever was there (`FormTakesEffect`): a box shows again what the
  form stands for (`AsStored`: a port left out of a certificate check is 443, a
  lowest speed of 0 is none), or it was an emptied one of the speed test. With
  the form on the page always one that can be sent (`Sendable`), this is
  inductive in `MonitorEdits`; hence `OnlyEmptiedBoxesStay`. They assume
  `Router # "web"`, that the two monitors have two ids. Of the operators of
  `MonitorForms` alone follow `LastFormWinsAlways`, `UnchangedIsUnchangedAlways`,
  `FormFitsImportAlways`, `ChannelsAreUsableAlways` and `NoBusyLoopAlways`: what
  `MCFigures` compares for small sets of inputs, for every input.

Model-checked only:

- liveness (`RunsAreSettled`, `DueJobsGetATurn`, `OutageIsRecorded`,
  `RecoveryIsRecorded`), which is out of the prover's reach;
- the rest of what `MCFigures` compares: the figures of
  `BackupReports`, `HealthFigures` and `MetricFigures` are sums and folds over
  sequences and sets, where induction over data would be needed;
- `PartsTypeOK`, which speaks of the instance: `MCParts` conjoins the type
  invariants of its parts, and those of the parts proved about hold there.

## 6. Not modelled

- What the host, the network, the package manager, the Docker engine and the
  core do inside: their answers are the models' choices.
- Path arithmetic, probing of folders and the wording of risks in the
  filesystem helper (`paths.ts` is one relation between folders); exclusions by
  name; `planCopy`'s estimate.
- Reading `/proc` and `/sys`, listing containers, and the layout and wording of
  pages, mails and tool results.
- Local time across daylight-saving changes.
- service-control, mcp-server and template: pages over the helpers.
- The lengths of notes, the parser of exports and the checks of documents,
  screenshots and file lists in `scripts/`: each is one pass over files.

What would come next: Backup Manager's alerts joined to `BackupRuns`; the access
of MCP joined to the host services its tools may ask for.
