# A TLA+ model of pu

`pu` is a unit that turns a Taskwarrior queue into agent sessions.  A gateway
pokes it over HTTP every thirty seconds; each poke runs a *tick*, which creates
the work its triggers ask for, picks one task and runs one session for it.
People, sessions and the dashboard use the same store through HTTP doors.  The
interesting part is what happens *between* the commands a tick gives: every
request runs in a thread of its own, the store is a command-line program, the
rest of the state is files, and the process may die anywhere.

The modules here are written from the Python under `src/pu`.  TLC checks them on
small instances; TLAPS proves what is stated as a theorem for all values of the
constants.

## 1. Inventory

| Part | State it keeps | Operations | What makes it correct |
|---|---|---|---|
| **Tick** `pipeline.py`, `guards.py` | `_TICK_LOCK`, `_RUNNING`, `inflight/*.json`, `repeat_tracker.json` | recover lost runs, gates, emit, expire, ceiling, select, break, claim, mark, register, run, settle, `finally` | one session per repository, no more than the ceiling, one failure charged per run, a lost run found again, no task retried for ever, handed-over work left to a person |
| **Taskwarrior wrapper** `taskstore.py`, `records.py` | the task records (in the binary) | add, modify, start, stop, done, annotate, export | a refusal is an exception; `active`, `afk`, `+blocked` decide who may run a task |
| **Clock triggers** `triggers.py` | `triggers.jsonl`, `cursors.json` | cron and interval evaluation, stamp | no named minute missed or used twice, no stamp without a task |
| **Watching triggers** `triggers.py` | the same | fetch pacing, back-off, seen list, counting, firing, rename | nothing seen and lost, nothing reported twice without a failure, refusals honoured |
| **Doors: records** `service.py`, `typestore.py`, `session_types.py`, `jsonl.py` | append-only logs, last line wins; the generated `CLAUDE.md` | write, edit, switch, rename, activation rules | an agent cannot enable or alter what a person approved; a session runs under its type's instructions |
| **Doors: tasks and maps** `service.py` | none of its own | claim, resolve, place, move, wire; the daily audit | a claim is exclusive, an answer is written once, a closed map hides no ticket, a fault is told |
| **Roles, MCP** `roles.py`, `mcpstore.py` | a registry with a cached copy, a log, a config file per type | require, at launch, resolve, write config | a type whose role is gone does not run; a session reaches the servers it attaches |
| **Gates** `usage_gate.py`, `pipeline.py` | `usage.json`, `cost_gate.json`, `usage_gate.json`, `headroom.json` | cost cap with reservation, usage ceilings, runway | spend stays near the cap, a block is told, no gate latches |
| **Control** `control.py` | `paused.json`, `max_concurrent.json`, tick log, heartbeat | pause, ceiling, note a tick, silence watchdog | no tick starts work while paused; the log says why not; a silence is told once |
| **Housekeeping** `guards.py`, `notify.py`, `stats.py`, `sessions.py`, `ask.py`, `bodies.py` | notice queue, rollup, run records, questions, bodies | notify, flush, fold, purge, prune, ask | nothing queued is lost, no total is lost, the panel comes back, old runs go |
| **Runner** `runner.py`, `report.py`, `repo_setup.py` | none | run a session, parse its report, prepare a repository | a task is closed only on the report's word |
| **Server, docs, logs client, dashboard** | none the unit depends on | HTTP, rendering | wiring |

They interact through the Taskwarrior store (everyone writes it), the logs and
`cursors.json` (ticks, doors and the dashboard write them, with no lock between
them), `_RUNNING` (ticks and the status pages), and the marker files (ticks of
this process and of the one after a crash).  What is hard: ticks overlap once
they have launched a session; people act between any two commands; each file is
replaced or emptied and rewritten in two steps; a crash leaves a claim, a marker
or a task without its counterpart; time passes between an evaluation and its
stamp.  `PROJECT.json` lists these one by one, at their lines.

## 2. Modules

| Module | What it is | Proofs |
|---|---|---|
| `Taskwarrior` | the store's records and what each wrapper command does to them, refusals included | |
| `Pipeline` | the tick, step by step, with people, faults and crashes around it | `PipelineProofs` |
| `Dispatch` | what the tick promises: tasks wait, run alone within the ceiling, end closed or handed over | |
| `PipelineDispatch` | the refinement mapping from `Pipeline` to `Dispatch` | `PipelineProofs` |
| `Schedule` | clock triggers on a wall clock | `ScheduleProofs` |
| `Watch` | watching triggers, their cursor file and a rename beside them | `WatchProofs` |
| `Doors` | the two last-line-wins logs and everyone who appends to them | `DoorsProofs` |
| `Wayfinder` | maps, tickets, claims, answers and the daily audit | `WayfinderProofs` |
| `Budget` | cost gate, usage gate and runway, with the sessions that spend | `BudgetProofs` |
| `Notices` | the queue of routine news and its flush | `OwnerProofs` |
| `Rollup` | the all-time statistics, folded by every run that ends | `FilesProofs` |
| `TickLog` | the trimmed log of why nothing ran, and the time read off it | `OwnerProofs` |
| `Throughput` | the peak of simultaneous sessions | `OwnerProofs` |
| `Ask` | one question at a time, its lock and its record | |
| `Upkeep` | stale claims and the pruning of old runs | `OwnerProofs` |
| `Bodies` | a file replaced through one temporary name | `FilesProofs` |
| `Roles` | the gateway's roles and the copy on disk | `FilesProofs` |
| `Instructions` | a type's record and the `CLAUDE.md` generated from it | `FilesProofs` |
| `Verdict` | from what a session printed to what becomes of its task | `FilesProofs` |
| `Heartbeat` | the silence watchdog | `OwnerProofs` |
| `Servers` | what a type attaches, and the config its sessions read | `FilesProofs` |
| `MCPipeline`, `MCSchedule`, `MCWatch`, `MCDoors`, `MCWayfinder`, `MCBudget` | the constants of the small instances | |
| `MCHousekeeping` | the parts from `Notices` to `Servers`, each in behaviours of its own | |

Definitions whose comment begins with "Mutation:" are wrong on purpose: each is a
plausible bug of the definition after it, and replacing one by the other breaks a
property.  No specification uses them.

### Pipeline

A step is one store command, one file operation or one access to `_RUNNING`,
which is what another thread can come between.  `pc[th]` is where a thread is in
`tick`; `job[th]` the task it has in hand; `todo[th]` and `busy[th]` its
snapshots (marker files, expired tasks, runnable tasks; repositories taken).

| Code | Actions |
|---|---|
| `_recover_lost_runs` | `TickBegin`, `RecoverRead`, `RecoverCheck`, `RecoverGet`, then `_fail` |
| `_fail`, shared by recovery and settling | `FailRelease`, `FailCount`, `Block` |
| gates, `emit_due_work`, `_expire_stale` | `Gates`, `Emit`, `Sweep`, `Expire` |
| ceiling and selection | `CheckCeiling`, `ReadQueue`, `Select`, `NothingRunnable`, `Trip` |
| claim, marker, registration | `Claim`, `Mark`/`MarkFails`, `Register` |
| `_run_claimed`, `_settle` | `SessionEnds`, `FailRelease`/`FailCount`/`Block`, `Yield`, `Complete` |
| `tick`'s `finally` | `Pop`, `Clear` |
| a refused or failed command | `Fault`, and the `ELSE` of each guard: `Raise` |
| the process dying | `Crash` |
| doors and the CLI | `Person` |

A poke that finds the lock held answers "another tick is deciding" and changes
nothing, so it is no action.  The gates may block any tick and may lower the
ceiling to one: what they compute is in `Budget`.  A session's outcome is any of
the ones `_settle` tells apart; how it is found is in `Verdict`.  The breaker
counts selections in the tracker file as the code does, without a reset when a
task is handed over.  `Accounted`, `Finished` and the history variable `launches`
serve only the properties.

### Dispatch and the refinement

`Dispatch` has three variables and a step per thing an owner would notice.  Under
the mapping of `PipelineDispatch` a task is *running* from its claim to the end
of the settling, and *lost* while a claim or an uncharged failure has no thread.
At a ceiling of two the code does not implement `Dispatch` -- that is the finding
of the run `ceiling`.

### Schedule

Minutes are integers; `Date` gives a wall-clock minute its calendar fields and
`Offset` the zone's offset at a moment.  `CronDue` is the walk of `cron_due`:
from the minute after the last fire, at most `Horizon` minutes, up to now, on the
wall clock.  An evaluation, the task, its body and the stamp are four steps, and
the stamp is the time it is written (`advanced`).  `Interrupt` is any exception
or crash.  `reached`, `idle`, `stamps` and `created` are history.  `Brings(t)` are
the wall-clock minutes that minute t brings, the ones a change of the clocks jumps
over included, and `Occasions` counts the minutes with a reason to fire: what the
tasks created are measured against.

### Watch

A cursor's instants are kept relative to now (`rest`, `back`), so that runs are
unbounded in time.  The source publishes items 1, 2, 3... and serves its last
`Window` of them in any order.  `Answer` is `evaluate` and `advanced` together,
both pure functions of the cursor the tick read; `PassOver` is a clause that
cannot be used; `Load` and `Save` are the two halves of `save_cursor`; the rename
is the two appends of `_renamed` and the copy of the cursor.  Time and the source
move on only between ticks and during a fetch, the two places where the code can
tell.  A fetch takes up to `MaxFetch`, and `lag` is how long ago the tick looked at
the clock: the interval and the back-off are both counted from then.  `carried`,
`tasks`, `sighted`, `owed` and `slow` are history.

### Doors

One module for two logs: `AllFieldsCount` chooses between triggers, where any
difference is an edit, and session types, where only `PERMISSION_FIELDS` are.  A
record is its permissions (`grant`), the rest of it (`text`), the switch and
`retired`.  The log's state is the last line for each name, as `jsonl.current`
reads it.

| Code | Actions |
|---|---|
| `write_session_type`, `write_trigger` | `Write`, `ReadPrevious`, `Append` or `Refuse` |
| `set_..._enabled` | `Press`, then the same three with the record it read |
| `edit_...` | `Edit`, then the same three as a person's |
| `_renamed` | `RenameBegin`, `RenameHeld`, `RenameAppend`, `RenameRetire` |
| `discover`, `at_launch` and the switch-off in `tick` | `TickReads`, `RoleExists`, `RoleGone` |
| the process dying | `Die` |

A press and an edit read the log twice -- once for the record they build, once in
the write for what it is judged against -- and the log may move between the two
reads and before the append.  `approved` is history: the name and permissions a
door judged an activation, or a person's edit made live.  The notice to the owner
is queued after the append and can be lost with the process, so `approved` says
what was judged, not what was read.

### Wayfinder

A request is a few store commands, in a thread of its own; `call[c]` is what it
asked for and what it read.  A task is its status, whether it is started, its map
and its project.

| Code | Actions |
|---|---|
| `create_map` | `CreateMap` |
| `create_ticket` | `Create`, `Check`, `Add` |
| `move_task` | `Move`, `Read`, `Check`, `ModifyTicket` or `ModifyMap` |
| `claim` | `Claim`, `Read`, `Start` |
| `resolve` | `Resolve`, `Read`, `OpenChildren`, `Annotate`, `Complete` |
| `audit` in `_daily_audit` | `AuditTells`, then `AuditSaves` or `AuditUnsaved` |
| a refused or failed command of a request | `Fails` |
| `task stop`, `task add` by hand, the process dying | `Release`, `AddByHand`, `Die` |

The doors give no guarantee that a ticket placed while its map closes stays
visible, or that two moves at once leave a ticket in its map's project.  So the
properties say exactly when it can go wrong: `late` holds the tickets placed
after their map's children were checked, `overlap` those placed by a request that
another crossed between its check and its write, and `doubtful` the tasks that two
requests were past the check of `resolve` at once, or one ended between its answer
and its `done`.

The audit's message has room for `Lines` faults and may not arrive; the code saves
all faults as told in either case.  So of the last message about a fault the history
keeps which it was: `named` there, `crowded` out of it, or `unheard`.

### Budget

A tick passes `CostGate`, `UsageGate`, `CeilingGate`, `Room` and `Launch`; each
gate that finds another reason than the one saved tells it and then saves it
(`Judge`, `Save`), and declines or passes on.  A message may be `Lost`, which the
gate does not look at.  Sessions end with a cost that is recorded (`Record`) or
lost (`EndUnrecorded`), report usage and are taken off `_RUNNING` (`Unregister`).
A reading names a reset that is coming or none ("never"), which then does not
come: only another report replaces it.  `cost_since` is computed for the day the
tick began on, so `Midnight` within a tick leaves it judging the day before.
Amounts are whole units; the reservation for what runs is any amount its averages
allow.

### Housekeeping

Each of these modules has one step per file access, a bounded number of full
disks, refused messages and deaths, and history variables that say which
operations crossed another or were cut off.  `CLAUDE.md`, the rollup, the
heartbeat and the MCP config are emptied and then written, as `write_text` does,
so a reader may find them cut; bodies and cursors go through a temporary file.

| Module | Code | Steps |
|---|---|---|
| `Notices` | `queue_owner`, `flush_owner` | `Queue`, `BurstEnds`, `FlushReads`, `Delivered`/`Refused`, `Unlink`, `FlushBreaks` |
| `Rollup` | `record`, `load_rollup`, `fold` | `RecordRun`, `LoadRollup`/`RebuildRollup`, `OpenRollup`, `WriteRollup` |
| `TickLog` | `note_tick`, `time_in` | `ReadLog`, `Trim`, `AppendLine`, `NotingBreaks`; `TimeIn` |
| `Throughput` | `throughput` | `RunRecorded`; `PeakSimultaneous` |
| `Ask` | `submit`, `_answer` | `Submit`, `RefuseBusy`/`Acquire`, `StartThread`, `SessionEnds`/`TimesOut`, `Release` |
| `Upkeep` | `newly_stale`, `prune_runs` | `NewlyStale`, `NotifyStale`; `PruneBegins`, `PruneRun`/`RefusalSkips`, `PruneEnds` |
| `Bodies` | `BodyStore.set` | `OpenTemporary`, `WriteTemporary`, `ReplaceBody`, `WriteFails` |
| `Roles` | `require`, `at_launch` | `Fetch`, `Save`/`SaveFails`, `MakeDo` |
| `Instructions` | `write`, `generate`, `ensure_generated`, `version` | `AppendRecord`, `GenerateStep`, `Discover`, `GenerateMissing`, `StartSession`, `RecordVersion` |
| `Verdict` | `parse_stream`, `run_session`, `report.parse`, `_settle`, the failure class | `Say`, `Result`, `Exit` |
| `Heartbeat` | `silence` | `ReadStamp`, `OpenStamp`, `WriteStamp`, `TellSilence` |
| `Servers` | the registry, `_require_servers`, `_write_mcp_config` | `WriteServer`, `Attach`, `TakeType`, `Resolve`, `OpenConfig`, `WriteConfig`, `ReadsConfig` |

## 3. Runs

| Run | Instance | Shows |
|---|---|---|
| `single` | 3 tasks (one in a repository that cannot be prepared, one that expires), 2 threads, ceiling 1, 1 crash, no person | `SessionsWithinCeiling`, `LiveRunNeverLost`, `HandedOverIsIdle`, `OneFailurePerLaunch`, and that the tick implements `Dispatch` |
| `parallel` | 2 tasks in one repository, ceiling 2, every power of a person, gates, 1 crash, 1 fault, 1 intervention | `OneSessionPerRepo` |
| `liveness` | 3 tasks, two in one repository, ceiling 2, nobody interfering, fair threads | `EveryTaskFinishes`, `NoStrandedClaim`, `GivenUpAfterLastFailure` |
| `on_time` | a calendar with day and weekday both restricted and no gap longer than the horizon of 6 minutes, an interval; DST begins and ends; 12 minutes, 1 switch, 1 failure | `NamedMinutesAreCaught`, `NoMoreTasksThanDue`, `NoFireWithoutTask` |
| `window` | 6 items, window 2, memory 3, threshold 2, 2 failures, refusals with and without Retry-After, fetches of up to 2 | `NothingSeenUnreported`, `ItemsReportedOnce`, `TasksCountNewItems`, `RefusalsAreHonoured` |
| `rename` | 3 items, window 1, 1 rename, 1 crash or fault | `ItemsReportedOnce`: twice more at most for the rename |
| `overlap` | session types; 2 names, 2 permissions, 2 texts, 2 callers, 4 calls | `LiveIsApproved` |
| `maps` | 2 maps, 2 tickets, a project nested in another, 2 callers, 3 calls, 1 task by hand, messages of 1 line that may not arrive, deaths | `ClaimedByOne`, `AnswerStands`, `OrphansCameLate`, `MisplacedByOverlap`, `QuietFaultsWereNamed` |
| `spend` | cap 4, runway from 3, a session costs at most 2 and averages at least 1, up to 2 sessions, one usage window (no reading, low, over the ceiling; with a reset or without), messages that may be lost, 1 report from another unit, 1 death | `SpendWithinReach`, `BlockIsHeard`, `WorkResumes` |
| `files` | the twelve housekeeping parts, in behaviours of their own | the properties of the next table |
| `ceiling` | 3 tasks, 3 threads, ceiling 2 | **violated**: a retry race lets a third session run |
| `monthly` | occasions further apart than the horizon | **violated**: fires once, then never |

| Property of `files` | What it says |
|---|---|
| `NoticesArrive`, `ToldTwiceIsTrouble` | a queued line is told unless it came between the reading of the file and its removal or the file has a torn line; twice only if the file could not be removed |
| `LoneRunsCountOnce` | a run whose recording no other crossed counts exactly once, wherever the process dies |
| `LogTellsWhy` | the newest line is the last decision, and the time counted for a reason is the time it held pu up |
| `PeakIsReached` | the peak of simultaneous sessions is reached at some moment and passed at none |
| `PanelComesBack` | the lock comes back after every question, and a running record ends |
| `StaleIsToldOnce`, `OldRunsGo` | a stale claim is told, and again only if what was told was forgotten; old runs go although others cannot |
| `BodyIsTheLastSet` | a body is the whole of the last text set unless two writers overlapped |
| `SilenceKeepsTheLastWord` | a launch without the gateway goes by the gateway's last word |
| `RunsUnderItsRecord` | a recorded session had the instructions of the record that claimed its task, and its version names them |
| `ClosedOnlyByTheReport` | what becomes of a task, and the failure class in the run's record, follow from the last result alone |
| `SilenceIsToldOnce` | the tick that ends a silence tells of it and no other does |
| `ReachesItsServers` | a session reaches the servers its launch attached, unless another launch wrote the same file |

The two violations are disagreements between the code and what its comments say;
`PROJECT.json` quotes both sides.

**Bounds, and why they are enough.**  Two threads are the smallest number that
overlap, and a third session is needed only to exceed a ceiling of two.  Two
tasks in one repository and one outside it are the ways two tasks can relate.
`MaxFailures = 2` has a retry and a last failure; `RepeatThreshold = 3` is the
code's.  One crash, one fault and one intervention can each come at any step;
a second of a kind would start from a state the first already leaves possible.
In `Schedule` the calendar is shrunk -- two minutes an hour, two hours a day --
so that day and weekday, a skipped named minute and a repeated one all fall
within a dozen minutes.  The horizon is shorter than the run, and longer
than the gaps.  In `Watch` a memory of `2 * Window - 1` is the least
that serves a feed in any order, which is the boundary `window` checks; six items
move the window past the memory twice.  In `Doors` two callers overlap in every
way two reads and an append can, and four calls are enough to write, switch on,
and then have two doors cross.  In `Wayfinder` three calls are a placement, a
close and one that crosses them.  With a message of one line,
two new faults crowd one out.  In `Budget` a cap of 4 has room for two sessions
in flight and for one more, and is passed.  In the housekeeping parts
two or three writers of one file, each with its steps, overlap in every way, and
two mishaps are one that leaves a file or lock behind and one that meets it.
Every theorem below holds without its bounds.  Where deadlock checking is off,
the run has a bounded clock or a bounded supply of calls and really stops.

**Fairness.**

* `liveness`: weak fairness of each thread's steps.  The gateway keeps poking, a
  thread that is not blocked is scheduled, and the runner ends every session at
  its timeout.  Nothing is assumed of people, faults or crashes.
* `spend`: ticks keep coming, sessions end at their timeout, days pass, and so do
  usage windows whose reading names a reset.  Nothing is assumed of the owner, of
  other units or of deaths.  A window without a reset is not assumed to end: the gate
  can stay shut for good on one, and `WorkResumes` says that it is the only way.
* `files`: ticks keep coming and their chores go on, days pass, the threads of a
  question go on and its session ends at its timeout; and the owner, if tried
  again and again, is reached again and again (strong fairness of `Delivered`,
  the only one of its kind: a gateway that never delivers leaves the queue as it
  is).

## 4. Proofs

Assumptions are the named `ASSUME`s of the modules, which only type the
constants, and the hypotheses a theorem states.

`PipelineProofs`, for any threads, tasks and repositories, and any number of
crashes, faults and interventions unless it says otherwise:

| Theorem | Hypotheses | States |
|---|---|---|
| `TypeCorrect`, `OneTickDecides` | | `TypeOK`; a thread decides exactly when it holds the lock |
| `RepositoriesAreExclusive` | | `OneSessionPerRepo` |
| `OneRunPerTaskInvariant` | | a guarded task is in the hands of one thread at most, and while a run has it, that run is registered and every tick passes the task over |
| `GuardedRunsAreNotRecovered` | | recovery takes no live run of a guarded task for a lost one |
| `GuardedSessionsAreBounded` | | no more sessions of guarded tasks than the ceiling |
| `RunsAreNotRecovered` | all tasks guarded | `LiveRunNeverLost` |
| `SessionsAreBounded` | all tasks guarded | `SessionsWithinCeiling` |
| `HandedOverStaysIdle` | all tasks guarded | `HandedOverIsIdle` |
| `FailuresHaveLaunches` | all tasks guarded, people do not claim | `OneFailurePerLaunch` |
| `ClaimsAreAccountedFor` | no crash, no fault | `NoStrandedClaim` |
| `LastFailureGivesUp` | no crash, no fault, nobody rearms | `GivenUpAfterLastFailure` |
| `TickImplementsDispatch` | all tasks guarded, people do not write, no fault | `ImplementsDispatch` |

A task is *guarded* (`Guarded`) at a ceiling of one, the default, or if its type works
in a target repository, at any ceiling.  For the others the results do not hold: that
is what the run `ceiling` shows.  None of these is inductive as it stands.

* That two sessions are in different repositories is decided on a snapshot
  (`busy`) taken several steps before the claim, and registrations are removed by
  another run's `finally`.  `RepoInv` adds what connects them: a launched run in a
  repository is registered; launched runs are in distinct repositories; the
  deciding thread's snapshot still covers every registered repository; the task it
  has chosen is in none of them; a task under recovery has no launched run.  The
  lock keeps the snapshot good: only the deciding thread registers.
* `RoomInv`: what the ceiling counts is registrations, and there are never more of
  them than it allows, with one to spare while a tick chooses.  That is not yet a
  bound on sessions, since a session can lose its registration.
* `AloneInv`: at a ceiling of one there is one launched run at most, it is
  registered, and a thread selects only when nothing is.
* `OneRunPerTask` is what the two cases have in common, and all that the results
  below need of either: a failing run releases its task several commands before it is
  done with it, which makes the task runnable, but as long as the run is registered
  its repository is busy -- or the ceiling is reached -- and no tick takes the task
  up.  So no `finally` removes a registration of another run's, `job` maps the
  sessions one to one into `_RUNNING`, and `RoomInv` bounds them.
* `ClaimInHand`: a claim of pu's belongs to a run that has yet to settle.  A crash
  breaks it, and one between claim and marker strands the claim for good.
* `GivingUp`: what has all its failures and is still for agents is in the hands of
  a thread about to block it.
* `ChosenNotHanded`: what is handed over is not for agents, and what a tick may still
  take from its list, has chosen or launched has not been handed over since.
* `ChargesOpen`: a claim, and a failure that is about to be counted, each have a
  launch that has not been charged, and a guarded task never has both.
* `StoreMatches`, for the refinement: where a thread is says what the store says
  of the task it has in hand (`HandsMatch`) and in its lists (`ListsMatch`), and a
  claim is open (`ClaimsAreOpen`).  With it each action is one step of `Dispatch`
  or a stutter: one lemma per action an owner would notice, and `QuietActions` for
  the others.  A claim is `Dispatch`'s `Start` since what it calls running is
  registered, for which `RoomInv` leaves room, and passed over, so in other
  repositories (`InFlightIsBusy`).

`DoorsProofs`, for any names, permissions and callers and both logs: `DoorsTyped`,
and `ApprovedBeforeLive` -- `LiveIsApproved`.  A write is judged against a line it
read earlier and a rename writes again what it read earlier, either of which may
no longer be the last.  `ReadIsApproved` says that what was read live was approved
when it was read; `approved` never shrinks, so a stale read is still a judged one.

`WayfinderProofs`, for any maps, tickets, nesting of projects and callers:
`TypeCorrect`, `OneClaim`, `AnswersStand`, `OrphansLate`, `MisplacedCrossed`, from
one invariant of seven parts: types; `ClaimHeld`, the one caller told it has a
claim has it still; `OneCloser`, nobody is told they resolved a task that is open;
`Answered`, a task that is not doubtful has one request at most past the check of
`resolve`, is open then, and has its answer just when that request has written it,
and an open task nobody resolves has none; `ClosingIsEmpty`, the tickets of a map
that is about to be closed all came late; `OrphansCameLate` itself; and
`Placement`, what an uncrossed request has read and judged still holds when it
writes.  `QuietIsNamed` has an invariant of its own (`Named`): what is saved as
told, and what an audit is about to save, was in a message and is accounted for
there.

`BudgetProofs`: `SpendIsBounded` -- `SpendWithinReach` for any cap, costs and
ceiling.  `RoomLeft`: only the deciding tick registers a session, so there is still
room where it has seen room.  `RoomForOne`: a tick past the cost gate leaves the
reach room for one more session.  `BlocksAreHeard` -- `BlockIsHeard`, from `Heard`:
what is saved of a gate was told or its message was lost, between the two writes the
new reason is what was told, and what a tick declines with is saved.

`ScheduleProofs`, for every calendar, interval, zone and pattern of late ticks:

| Theorem | Hypotheses | States |
|---|---|---|
| `NoFireIsLost` | | `NoFireWithoutTask` |
| `NoTaskTooMany` | | `NoMoreTasksThanDue` |
| `NoMinuteIsOverlooked` | | a calendar found not due has let no named minute go by, if its last fire is within the horizon |
| `NamedMinutesAreNotLost` | every calendar names a minute in any stretch of the wall clock as long as the horizon | `NamedMinutesAreCaught` |

Between the task and the stamp the tasks created are ahead of the stamps
(`TaskAheadOfStamp`).  For the bound on tasks `StampsAreDue` gives every stamp an
occasion of its own: there are no more stamps than occasions up to the last one, and
one fewer than up to the evaluation in hand.  That a due evaluation has one more is
`OccasionsCount`; for a calendar it rests on `CronDueIsNamed`, that where the walk
over the wall clock meets a named minute there is a minute since the last fire that
brought it -- the first at which the wall clock is not short of it, which may have
jumped over it.  `ExtrasAreFailures` has the rest: a task without a stamp is in hand
or was left by a failure.  The last theorem bounds the gaps of the calendars and not
the length of the run: past the horizon, the walk has met a named minute before it
ends, so a calendar that was found not due is within it.  Its hypothesis is needed:
the run `monthly` violates the property without it.

`WatchProofs`, for any feed and predicate, any window, memory and threshold, while
the trigger keeps its name (the run `rename` has what a rename adds) and the shortest
back-off is no longer than the longest (`WatchAssumption`):

| Theorem | Hypotheses | States |
|---|---|---|
| `RefusalsStand` | | `RefusalsAreHonoured` |
| `SeenIsReported` | | `NothingSeenUnreported` |
| `ItemsAreReportedOnce` | memory of two windows | `ItemsReportedOnce` |
| `TasksTakeNewItems` | memory of two windows | `TasksCountNewItems` |

* `Covered`: what the source is still owed is not more than what the cursor will
  wait and what the refused fetch had taken -- the cursor in hand once the source has
  answered, and else the one on disk.
* `Kept`: the cursor in hand is the one on disk and what was found since; and each
  task leaves fewer than a threshold of counted items behind, the cursor on disk
  counting the others (`DebtCovered`), until the task is there.
* `NothingForgotten`: a cursor remembers every item of the present window that was
  there when it last read.  It trims by first sight, not by age, so this takes an
  order: any item in the list is less than a window older than every item before it
  (`Ordered`), and of a list so ordered what a trim drops is out of the window when
  two windows fit (`RememberKeeps`).  The code keeps 200 marks; a feed that serves
  more than 100 items at once is outside the hypothesis, and can repeat one.
* `OncePerFailure`, `TasksPaid`: an item is carried once for itself and once for
  each failure, and the items sighted pay for the tasks and what is counted.

To state these the steps are first reduced to what they do to the items
(`Quiet`, `TakesInHand`, `Drops`, `Finds`, `Tells`, `Saves`): one lemma says that
every step with one name is one of the six, the others are about the six.

`FilesProofs`, for any number of writers, runs, sessions and types:

| Theorem | States | Inductive invariant |
|---|---|---|
| `BodyIsWhole` | `BodyIsTheLastSet` | while no two writers overlap, one at most writes, what is under the temporary name is its own, and is another file than the body |
| `CountedOnce` | `LoneRunsCountOnce` | a run that met nobody has the file to itself while it is recorded (`Alone`), is counted by nothing before (`NotYet`), and by the file or what is about to be written to it once after (`Once`) |
| `SessionsReachTheirServers` | `ReachesItsServers` | what a record attaches is known unless it went past the door (`AttachedAreKnown`); from its own write on, the file is that of a launch nobody crossed (`ConfigIsOwn`) |
| `CopyIsTheLastWord` | `SilenceKeepsTheLastWord` | the one answer that is about to be saved, if nobody crossed it, is the last; and the copy is, unless one went unsaved (`LastAnswer`) |
| `SessionsRunUnderTheirRecord` | `RunsUnderItsRecord` | while nothing has led the file astray it is the record's, or what the one writer under way is about to make of it |
| `TasksAreClosedByTheReport` | `ClosedOnlyByTheReport` | nothing is printed after the exit, so task and record are judged on the same last result |

Two assumptions name values that are no others (`RolesAssumption`: not having
asked is not an answer; `InstructionsAssumption`: the actors and the texts of files
are told apart).  `TasksAreClosedByTheReport` rests on `FoundIsFirst`: what `parse`
finds of a field is what its first line says.

`OwnerProofs`, for any number of lines, claims, ticks, noters and runs in the window:

| Theorem | States | Inductive invariant |
|---|---|---|
| `NoLineIsToldTwice` | `ToldTwiceIsTrouble` | a line that was delivered is in the file only until the flush removes it, or if it could not |
| `NoClaimIsToldTwice` | `ToldAgainIsForgotten`, the safety half of `StaleIsToldOnce` | a claim that was told is remembered as told, in the file or by the chore that will save it, or is forgotten |
| `OneTickTellsOfSilence` | `SilenceIsToldOnce` | the stamp in hand or on disk is that of the last tick, unless it lapsed, and the gap it shows is a silence |
| `TimesAddUp` | `LogTellsWhy` | what is being noted, if nothing crosses it, is what was decided last (`NotedIsTheLast`); the log accounts for the past: between two lines, every moment was spent on the decision of the first (`LogAccounts`) |
| `PeakIsTheMost` | `PeakIsReached` | the window is a sequence of spans: the rest is a fact of the sweep |

The last two are about loops over data.  What such a loop comes to is proved by the
least exception: the natural numbers, or the subsets of a finite set, at which it
fails would have a smallest member (`AllNaturals`, `AllSubsets`), and so the fold of
the community modules is what it is meant to be (`FoldExists`, `SumExists`).  Of the
log it follows that the times of its lines add up to the moments they cover
(`TotalIsMoments`), from `TickLogAssumption`: a log that is cut keeps lines it has,
and having run is no reason for not running.  Of the sweep it follows that it carries
the starts less the ends it has met, whichever these are (`RunningIsTheDifference`),
and that its peak is what it carried after the last edge of some moment, ends being
met first (`PeakIsOfAMoment`); with a start met first it would not be, which is the
mutant of the run `files`.  `ThroughputAssumption` types the bound on time.

**Only model-checked.**  Everything with fairness -- `EveryTaskFinishes`,
`WorkResumes`, `NoticesArrive`, `PanelComesBack`, the liveness half of
`StaleIsToldOnce`, `OldRunsGo` -- since `ENABLED` is out of the prover's reach.
Every invariant of a passing run is stated by a theorem, some of them under
hypotheses the tables above name; where a run is outside the hypotheses (renames
in `Watch`, for one), there it is TLC that speaks.

## 5. What the code does that a reader might not expect

Facts of the model that are not properties, because the code does not promise
otherwise or because the promise is qualified above.

*The tick.*  A death between claim (`pipeline.py` 983) and marker (984) leaves a
claim that no tick recovers.  A command that fails while a run settles leaves one
too: the `finally` removes the marker.  The expiry sweep (580) closes a handed-over
task past its deadline.  A trigger that raises anything but `TriggerError` ends
`emit_due_work` for the triggers after it.  With people claiming tasks beside pu, a
run can be charged twice: by its settling, and by the recovery of its marker after
a crash that found the person's claim.

*Triggers.*  The seen list is trimmed in the order of first sight, so a feed that
serves more than 100 items, half of `SEEN_LIMIT`, can have an item repeated.  A
back-off is counted from before the fetch that was refused (`pipeline.py` 1208,
1302), so a source that is slow to refuse is asked again early by what it took.
Absence watches (`age_since_last_seen`) fire at every evaluation while the source
stays quiet.

*Doors.*  `write_session_type` honours in silence a write that was judged against a
live `previous` another door has since switched off.  `wire_blocking` does not look
for cycles.  Editing an MCP server's record does not switch off the live types that
attach it.  The version of a run is the hash of the instructions when the run is
recorded, not when it was launched.  A death between the opening and the writing of
`CLAUDE.md` leaves a cut file that is not rebuilt until the next write of the type.
The one `.mcp-session.json` of a type can be rewritten or cut by another launch of
that type before the session reads it.

*Gates.*  Spend that ends in a failed record, and questions, never count.  A unit
without history reserves nothing.  The runway does not look at `resets_at`; it
does not latch, because it only lowers the ceiling to one.  A reading over its
ceiling that names no `resets_at` (`usage_gate.py` 125-128 keep it) shuts the usage
gate until a session under way or one of another unit reports, as none is started: the
module's "Both are what keeps the gate from latching shut" (24) is true of readings
that name one.  A reason is saved as told whether or not the message arrived, so an
owner who was out of reach hears of a block only when its reason changes.  That the
cost gate has opened again is not told; usage and runway recovery are.

*The audit.*  Its message lists fifteen faults, and whether it arrived is not looked
at (`pipeline.py` 631-645); all faults are saved as told.  One that was cut off, or
was in a message that did not arrive, is not told again until it was gone at an audit
and has come back.

*Housekeeping.*  A failed export makes `newly_stale` forget what it told.  One torn
line in the notice file stops all notices.  One transcript that cannot be deleted
ends `purge_streams` before its marker is written.  A question whose thread does
not start keeps the lock until the process ends, and one whose record cannot be
written says running for ever.  Two recorders at once can lose or double a run in
the rollup.  A stamp of the heartbeat that was not written restarts its counters,
and a message about a silence that fails is not sent again.  A blank first
`OUTCOME:` line hides a later one.

## 6. What is not modelled

* The HTTP server, the dashboard, the documents, the SOP index and the logs client
  hold no state that another part depends on.  What matters of the server, a
  thread per request, is the interleaving the modules assume.
* The runner's process handling: a session is any outcome, any cost and any report.
* Prompts, titles, wording; parsing of cron expressions and feeds; argument
  encoding of the store's commands; `gate_state` and the counts `/stats` renders.
* In `Wayfinder`: `wire_blocking`, the body a ticket is created with, moves that
  change the title only, and maps without a project.  Dependencies are nowhere: a
  task that waits for another is one `Pipeline` does not list.
* In `Watch`: absence watches and triggers without `emits`; in `Doors`: refused
  fields and names, declared types, dry runs, and the notices after an append.
* Session records: `purge_streams`.

## 7. What could follow

1. `Doors` with the notices that follow an append: that every activation is told.
2. Dependencies in `Wayfinder`, with their cycles, and `Pipeline` choosing among
   what is not blocked.
3. Absence watches, with the age of the last item in every cursor.
4. The refinement for tasks without a repository at a ceiling of two, once the
   registration a `finally` removes is its own.

Runs are kept few.  One instance of `Watch` cannot hold both the long window and
the rename (a window of two with a rename passes thirty million states), and the
twelve parts of `files` share one run because they share no state.
