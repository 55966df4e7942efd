# AirGate core: TLA+ models, checks and proofs

AirGate core is the server of an AI gateway. It authenticates API keys, picks
an upstream account, forwards the request through a provider plugin, records
what was used and charges for it. Several processes share one PostgreSQL
database, one Redis and one host directory: there are at least two of them
during a blue/green deployment.

## 1. Inventory

Paths are below `backend/internal/`.

| component | code | state | operations | interacts with |
|---|---|---|---|---|
| usage recorder | `billing/recorder.go`, `recorder_wal.go`, `wal.go` | two channels, local batches, WAL files, `usage_log` rows, balances | Record, flush with retries, spill to file, replay (claim, import, remove), Start, Stop | called by the forwarder and the task handlers; calls quota alerts and the key cache after a commit |
| synchronous billing | `billing/recorder.go` RecordSync*, `plugin/host_service.go` | `usage_log` by request id | look up, insert, look up again | host RPC of plugins, tasks |
| account state machine | `scheduler/state.go`, `admin.go` | `accounts.state`, `state_until`, backoff level, transient streak | Apply of a judgment, operator actions | forwarder; route cache; family circuit |
| family circuit | `scheduler/family.go` | Redis cooldown, recovery and probe keys | Mark, ClaimProbe, RenewProbe, ReleaseProbe, Recover, Clear | account state machine, selection |
| concurrency, RPM, window cost | `scheduler/concurrency.go`, `rpm.go`, `windowcost.go` | Redis sorted sets and counters, local cache | acquire, release, increment, decrement | forwarder, selection |
| message queue | `scheduler/msgqueue.go` | Redis lock and waiter set | acquire, wait, release, force release | nobody: it is built, but no code calls it |
| sessions | `scheduler/session.go`, `sticky.go` | Redis set of sessions, sticky binding | register, refresh, migrate, bind | selection |
| route cache | `scheduler/routecache.go` | per-process snapshot, 3 s | get, invalidate | selection, admin |
| selection | `scheduler/selection.go`, `requirements.go`, `schedulability.go` | none | filter and rank accounts | forwarder |
| forwarder | `plugin/forwarder.go`, `outcome.go`, `quota.go`, `usage_failure.go` | the locals of a request's loops | pick, wait for capacity, pass the gates, call, judge, fail over, answer, record | everything above |
| task manager | `plugin/manager_tasks.go`, `task_service.go`, `task_stale_sweep.go` | `tasks` rows | submit, claim, process, retry, reset, sweep, cancel | plugins, synchronous billing, leader |
| budgets | `plugin/host_budget.go` | estimates in `tasks`, balance, quota | reserve, check, persist | plugins, task manager, synchronous billing |
| leader | `cluster/leader.go` | Redis lease, local flag | campaign, renew, resign | task manager, sweepers |
| keys and teams | `auth/apikey.go`, `auth/team.go`, `app/member/service.go` | a verdict per key in the process and in Redis; members' used quota and period | validate, roll a period over, invalidate | middleware, recorder, team administration |
| quota alerts, referrals, periods | `app/quotaalert`, `app/referral`, `pkg/period` | alert marks, commissions, period sums | raise, settle, reset | recorder |
| pure algorithms | `billing/calculator.go`, `rate.go`, `routing/selector.go` | none | price a request, pick a group | forwarder |

Hard behaviour, by component; each has an entry in the list of hazards with its line:

- *Recorder*: three goroutines, request callers, retries after a commit whose
  reply was lost, files claimed by one instance and taken by another, crashes
  between any two steps, a stop that races with late callers.
- *Account state, family circuit*: read, decide, then write without a condition;
  leases and cooldowns that run out between two steps.
- *Limits*: slots of dead processes and of requests that outlive them, counters
  that are decremented in another minute, limiters that let a request pass
  uncounted when Redis fails or its client has gone.
- *Forwarder*: what an attempt has taken must go back once, on each of its ways
  out, whenever the client leaves; the loop must end.
- *Synchronous billing, budgets*: a settlement is retried while the first is
  being written; reservations, balance and quota are read in three statements.
- *Tasks, leader*: a late result of an attempt that was given up, two leaders
  around the end of a lease, a reset that races with a completion.
- *Caches*: a value checked, then stale when it is used; a copy of a copy.

What makes each correct, in short: a record is billed once or accounted for;
an operator's decision is not undone by a request; limits hold, or are
exceeded only in the ways the code accepts; a task ends once and is paid for
at most once; a cache is stale only for its time to live.

## 2. Plan

| | modules | what | status |
|---|---|---|---|
| 1 | `UsageLedger`, `UsageRecorder` | the money: the asynchronous path of billing | done, proved |
| 2 | `FamilyCircuit`, `AccountState` | which accounts may be picked | done, proved |
| 3 | `LeaderLease`, `TaskLifecycle` | asynchronous tasks and who runs the background loops | done, proved |
| 4 | `Forwarder` | the attempt loop, with the minute, the slots and the probe of an account | done, all safety proved |
| 5 | `HostBilling` | the gate of a submission and the synchronous charges that follow; implements `UsageLedger` | done, proved |
| 6 | `KeyAdmission` | cached verdicts on a key, quota periods, slots of user and key | done, proved |
| 7 | `SessionLimit` | sessions of an account, their migration and the sticky binding | left |
| 8 | `WindowCost` | the cached cost of an account's window and its rebuild from the log | left |
| 9 | `Pricing`, `Selection` | operators (fees, multipliers, ranking of candidates) against reference definitions | left |

There are twelve runs, a number the project keeps: a run checks all properties
that one instance can show, and a new module replaces or joins a run of the
same question. The type invariant of a module (`TypeOK`) is proved for all
values of the constants in each `...Proofs` module (`TypeCorrect`), so no run
checks it again.

Composition: `UsageRecorder` and `HostBilling`, the two ways a usage is
charged, both implement `UsageLedger` (instantiated in each with a refinement
mapping). The other components meet through Redis and database rows that one
of them owns; the module of the owner has the visitors' steps: `AccountState`
has the route cache's and the operators', `FamilyCircuit` the attempts',
`TaskLifecycle` the plugins' calls and, as `Gain` and `Lose`, what
`LeaderLease` says of leadership. `Forwarder` composes three of an account's
gates in one request; of the circuit it keeps closed, open, half-open and the
holder of the probe, whose protocol is `FamilyCircuit`'s. `HostBilling` leaves
open how a task moves, which is `TaskLifecycle`'s, and `KeyAdmission` when a
charge comes, which is the recorder's.

## 3. Usage recorder

### Model

`UsageLedger` is what a caller of the recorder may rely on. A record is new,
pending, billed or abandoned; `Accept` takes it over, `Bill` charges a whole
batch in one transaction, `Abandon` gives records up.

`UsageRecorder` is the code. Each goroutine is a set of actions, with a
program counter where it can be interrupted:

| code | model |
|---|---|
| `Record` | `RecordBegin` (reads `halted`) then `RecordSend`; `RecordHalted` when it is set |
| `run`, `drainAndFlush` | `RunReceive`, `RunTick`, `RunHalt`, `RunDrained` |
| `flush`, `batchInsert` | `FlushSucceeds`, `FlushRetries`, `FlushGivesUp`; an attempt that fails may have committed |
| `spillLoop`, `drainSpill` | `SpillReceive`, `SpillWriteOut`, `SpillHalt`, `SpillDrained` |
| `replayOnce`, `replayFile`, `importRecords` | `ReplayClaim`, `ReplayReclaim`, `ReplayRead`, `ReplayLookup`, `ReplayInsert`, `ReplayFinish`, `ReplayFails`, `ReplayEnds` |
| `Start`, `Stop`, process death | `Start`, `StopBegin`, `Exit`, `Crash` |
| passing of `walStaleAfter` | `Age` |

Queues and batches are sets (order is irrelevant to billing), a file is the
set of its records with its claim and whether `walStaleAfter` has passed since
it was written, which is what `isStale` looks at. A chunk of an import is any
`batchSize` records of the file. The database commits a batch only if none of
its ids is logged, which is the unique index on `request_id`.

### Checks

| run | bounds | shows |
|---|---|---|
| `UsageRecorder_safety` | 2 records, one of them late, 2 instances, 2 stops or crashes | `ChargedOnceIffLogged`, `OneCopy`, `StopStrandsNothing`, `ImportsAccountedFor`, `NeverForgotten`, `WalKeepsUntilLogged`, refinement of `UsageLedger` |
| `UsageRecorder_liveness` | 1 late record, 2 instances, 1 stop or crash | `RecordsSettle`, `StopReturns`, `WalDrains` |

`LateRecords` are the records whose caller may read `halted`, be held up, and
send after the stop; `StopStrandsNothing` says of the others that a stopped
instance holds none. Queue capacities are 1, the batch size 2 and the number
of attempts 2: the smallest values at which a queue is full, a batch is
partial or full, and an attempt is followed by another or is the last. The
behaviour that needs two instances is the claim of one file by both. Stops
and crashes together are bounded by `MaxRestarts`.

Fairness: every goroutine that can run does (Go's scheduler), a process is
started again (the deployment's restart policy), time passes. Strong fairness
of the replay's steps says that a database and a disk asked again every minute
answer at last, and that of an unbounded number of imports not every one has
its file taken by another instance. No fairness is assumed of callers, of
stops, crashes, failures or reclaims.

### Proofs

`UsageRecorderProofs` proves for every set of records and instances and every
capacity, batch size and number of retries: the types, the inductive invariant
`IInv`, `ChargedOnceIffLogged`, `NeverForgotten`, `WalKeepsUntilLogged` and
the refinement `Spec => ImplementsLedger`. The assumptions are
`RecorderAssumption` only. `ImportsKept` is the same for `ImportsAccountedFor`.

`IInv` adds to the types that an import accounts for its file
(`ImportsAccountedFor`), that `flush` has a batch and that there is something
to import only during an import. The first is why removing a claimed file
loses nothing, although another instance may have taken, imported and removed
it in between. The steps are of three kinds (`StepKind`): they move records or
give them up (`Settles`), take one over (`Takes`) or commit a batch (`Bills`);
each theorem follows from the kinds.

`OneCopy` (`SingleCopy`) is inductive with the types. Of an instance it says
that the places a record may be in share none (`Apart`), of files that no two
share one (`FilesApart`). A step moves records between the places of one
instance, or from there to a new file, so `CopyKept` compares the memory of
that instance with the rest once, and each goroutine needs a lemma on its own
moves only; renaming a claimed file keeps what is in it.

`StopStrandsNothing` (`StopDrains`) follows from what each stage of a stop has
left (`StopStage`): once an instance is stopping, only late callers are still in
`Record`; when `run` has drained its channel only what they sent is in it, when
it is done its batch is empty, and the same for `spillLoop`; `Exit` comes when
both are done. No order of the two drains is needed: what `run` cannot insert
it writes to a file itself (`SpillToWAL`), and only `Record` feeds `spillLoop`.

Only the liveness properties are model-checked alone.

### Observed while modelling

`wal.go` promises that the stop window no longer loses records; a caller that
read `halted` before the stop and sends after it leaves its record in a queue
nobody reads any more. The model has this (a late record may stay in a dead
queue, which `StopStrandsNothing` exempts), no run is kept for it.

A claim is said to be stale 10 minutes after the claim, but the code measures
from the write, which costs a second import of an old file, never a second
charge.

## 4. Model-family circuit

### Model

`FamilyCircuit` is the circuit of one account and one model family. The three
Redis keys are variables, a key being its remaining time to live; each Lua
script is one step. An attempt of the forwarder goes through `Pick` (the
candidate is selected and the gate asked), `GiveUp` or `Call`, and ends by a
success (`Recover`), a rate limit (`Mark`), a decline or a failure
(`ReleaseProbe`), or dies. `Renew` is the goroutine of `MaintainFamilyProbe`.
`RedisFails` lets a script fail with or without its effect. `Clear...` are the
three scans of `ClearAccount`, a step each. `won` is what the attempt believes,
`probe` what Redis holds; they differ after a lost answer or an expiry.

`sinceMark` is history: the attempts that claimed the probe since the latest
`Mark`. Init has the closed circuit and one left by an older version
(`transient`), which the code still retires.

### Checks

| run | bounds | shows |
|---|---|---|
| `FamilyCircuit_safety` | 2 attempts, cooldowns of 1 and 3, lease 4, renewal every 2, retry after 1, 1 failure in a row | `KeptProbeHolds`, `ClosedOnlyByItsProbe`, `CooldownKept`, `LeaseEnds` |

The periods stand in the order of the code's (a lease of 45 s, renewals every
15 s, a retry after 1 s), and a failed renewal leaves time for the retry. An attempt's name
is reused, so two attempts are any number of them of which two matter at a
time: the holder, and a late one. The two cooldowns are one shorter and one as
long as what remains.

Fairness: time passes, goroutines run, a call ends (it has a deadline). Nothing
is assumed of a Redis that fails, of operators or of new attempts.

### Proofs

For all attempts, times and periods that fit (`CircuitAssumption`: the lease is
longer than one period and `MaxFailures` retries): the types, `KeptProbeHolds`,
`ClosedOnlyByItsProbe`, `CooldownKept`, and `RecoveryOutlivesCooldown` without
`ClearAccount`. `KeptProbeHolds` is not inductive. `IInv` adds that a keeper
belongs to a call (`KeeperCalls`), that a probe is held only by somebody who
claimed it since the last `Mark` (`ProbeIsRecent`), that a retired circuit has
no probe (`TransientUnprobed`), and how much of the lease is left when a
renewal is due (`KeptProbeHasTime`), which is where the arithmetic is.

### Observed while modelling

`Mark` says that recovery never ends by time alone. A rate limit between two
scans of `ClearAccount` keeps its cooldown and loses its marker, so that the
circuit closes when the cooldown runs out; the theorem `RecoveryStays` is
`RecoveryOutlivesCooldown` for an account that nobody clears.

Left out: `List` (reads only), `Clear` of one family (nobody calls it),
permanent cooldowns (nobody writes one).

## 5. Account state and route cache

### Model

`AccountState` is the row of one account, its pool-failure streak in Redis and
the snapshot in one process's route cache. An actor is whoever works on the
account: a call that is judged, a quota probe, an operator, a selection. Each
statement and each command is a step of its own, `step` and `seen` are what
the actor does next and what it has read: `Success` reads and `Activate`
writes; `PoolFailure` bumps the streak and `Degrade` writes; `Query` reads and
`Store` fills the cache; `Notify` invalidates it after a critical transition.
`ManualRecover`, `ManualDisable`, `ToggleScheduling` and
`ClearRateLimitMarkers` are the operators'. With `Fails` a statement or command
may fail, which the code logs and passes over. Left out: account events, the
reason and `last_used_at` columns.

### Checks

| run | bounds | shows |
|---|---|---|
| `AccountState_safety` | 2 actors, streaks up to 3, windows 2 to 3, streak lives 5 ticks, cache 2 | `StreakOutlivesDegradation`, `StaleViewEnds` |
| `AccountState_overwrite` | 2 actors, no failures | **violated**: `DisabledUntilRecovered` |

Two actors are enough for a step of another between any two of one. A streak
of 2 is the threshold and of 3 would double the window beyond the cap. `DbTimeout` bounds
how late the write of a degradation follows its bump; the streak lives longer
than the cap and that delay, as 30 minutes are longer than the cap of
`degradedMax` and a statement.

Fairness: begun operations go on, time passes. No judgement, query or operator
is required to come.

### Proofs

The types with the cap of a window and `StreakOutlivesDegradation`, for all
actors and times of `AccountAssumption`.
The inductive invariant adds to the streak's property that a bump whose write is
still to come has left the streak enough time (`Renewed`); a reset in between
takes the warrant away.

### Disagreements with comments

`state.go` and `admin.go` say a disabled account is enabled only by
`ManualRecover`. `transition` writes unconditionally, so a rate limit without a
family or a pool failure of a call in flight overwrites the state, and when it
runs out the account is scheduled (`AccountState_overwrite`). The same property
is broken by a success that read the row before the account was disabled, and
by one whose read fails: a failed read counts as active (`state.go:276-279`).
Observed, not kept as a run: a snapshot queried before `InvalidateAll` may be stored after it and used
for `routeCacheTTL`, against the comment "the next SelectAccount sees the new
state at once".

## 6. Leader election

`LeaderLease` is `leader.go` and the order of `server.go`'s shutdown. A call
is sent, executed by Redis and heard in three steps; the flag is what the
background loops read (`Leads`), not the key. `Start` makes the first call and
waits for it; the ticker is created after its answer, fires each period and
drops a tick that finds another in its channel (`due`, `fired`). `MaxDelay` is
the longest time from the moment the loop has something to do to the write of
the flag; one that is longer is a slow Redis or a paused process. An instance has a random id and starts once. `Exit` is a crash
or the end after `Shutdown` and `Release`, a call in flight included: Redis may
execute the script of a process that has died.

`LeaderLease_safety` (2 instances, lease 6, period 2, delay 1, 2 failed calls)
checks `OneLeader` and `Succession`. Two instances suffice for both: one holds
the key, another wants it.

Proved: the types, and `AtMostOneLeader` under `Timely`, `2 * MaxDelay + Period
< TTL`: the first renewal is due a period after the answer of the first call,
which may have been executed a delay before, and is executed a delay later at
worst. With the 30 s of `server.go` a call may take just under 10 s. The
invariant says that an answer "won" or a set flag belongs to the holder and that
the key lives until the flag is written again (`Kept`), given what the loop has
to do at each stage of its process (`Stages`). `Timely` is needed and cannot be
weakened: at `2 * MaxDelay + Period = TTL` TLC finds two leaders, since
nothing clears the flag when the lease runs out. The package comment promises one
leader without that condition. Also observed: a renewal in flight at shutdown may take
the key back after `Resign` has released it, so the successor waits for the
expiry; `Succession` holds all the same.

Fairness: time passes, the loop's ticker is served, a call is answered. Starts,
failures and ends are free.

## 7. Tasks

### Model

`TaskLifecycle` has the rows of the `tasks` table and, per instance, the three
loops and the executions. Each loop reads rows in one step and writes them in
others:

| code | model |
|---|---|
| `dispatchPendingTasks`, `launchPluginTasks` | `Query`; `Launch`, `LaunchMissed`, `LaunchFails`, `Reject`, `RejectFails` per row |
| `processOneTask` | `Return`, `Settle`, `SettleFails` |
| `StartTaskDispatcher`, `resetProcessingTasks` | `Boot`, `Reset`, `Begin` |
| `recoverStaleTasks` | `Scan`, `Recover`, `RecoverFails` |
| `sweepStaleTasks` | `SweepQuery`, `Sweep`, `SweepFails` |
| `RecordTaskFailureUsage` | `Record`, `RecordFails` |
| `tasks.update` of a plugin | `CallBegin` (reads and validates), `CallSave` (writes without a condition) |
| leadership, crash | `Gain`, `Lose`, `Crash` |

A conditional update that reports an error may have been done (`WriteFails`).
`quiet` and `old` say that the thresholds of the recovery and of the sweep have
passed. `Rejects` are the types an instance's plugin does not know.

Abstracted: one plugin; any choice of waiting tasks may be dispatched (the code
orders by priority and caps a plugin's share); the recovery reads all stale
rows (the code 100 at a time); deletion and idempotent creation; payloads and
progress. The reasons for which a failure leaves no usage record are left out:
`failureRecords` counts calls that would write one. A plugin's update of the
row and its failure record are one step.

### Checks

| run | bounds | shows |
|---|---|---|
| `TaskLifecycle_safety` | 1 task, 2 instances, both may lead, 2 attempts, 3 claims, 2 crashes | `GivenUp`, `WithinCap`, `TerminalStays` |
| `TaskLifecycle_liveness` | 1 task, 2 instances, one rejects the type, 1 attempt, 1 claim, one `tasks.update` that asks for a retry or a failure, 1 crash | `FailureRecordedOnce`, `TasksEnd` |
| `TaskLifecycle_terminal` | 1 task, 1 instance, one `tasks.update` | **violated**: `TerminalStays` |

Tasks do not interact but for the slots; one task that is reset and launched
again already fills two slots of an instance if the cap is miscounted. Three claims
are one more than the attempts; `MaxCrashes` counts the crashes and stops of all
instances together, and an instance is started as often as it has gone down.
`Asked` are the statuses the plugins of a run ask for.

Fairness is that of the sweep alone: tasks age, instances are started, one
leads at last, the sweep's query and update do not fail for ever. The other
loops may stand still: the sweep is what bounds a task's life.

### Proofs

The types hold always; the inductive invariant counts claims against the
attempts column and the numbers of executions (`Counted`). When only core writes the rows
(`CoreOnly`: no `tasks.update`, no rejected type) a task is given up only for
its attempts or its age (`GivenUpForAReason`), keeps its status once it has
ended (`TerminalIsFinal`). `CapHolds` is `WithinCap`, with `tasks.update` and
rejected types too, for finitely many tasks: what a query has selected fits the
room that executions leave (`Room`, `CapInv`), and only a launch takes of it.
`CoreInv` adds that the sweep's list has only old tasks (`Swept`). These hold although both
instances may lead, rows read are out of date and updates report errors they did not have,
because each of core's other writes names the status it expects.

`RecordedOnce` is `FailureRecordedOnce` with `tasks.update` and rejected types
as well. `Once` adds up, for a task, its records, the reports whose record
is to come and one if it can still fail: the sum is one, and one more at most
for each update by id that went over a task which had ended since it was read
(`overwritten`). A step that
adds a report ends a task that had not ended, or overwrites one.

### Disagreements with comments and code

`updateTask` validates against the row it has read and writes by id: a task the sweep has
ended in between gets another status (`TaskLifecycle_terminal`), which
`task_service.go:72` means to refuse. The rejection of an unknown type writes by
id as well (`Reject`); the proofs show that there is no third such write.
Observed while modelling, not kept as runs:

- the same call records a failure once more which the sweep has recorded
  (`task_service.go:316-317` says "only once"); `FailureRecordedOnce` allows
  that record, and no other;
- a starting leader resets tasks its predecessor still executes, so a plugin
  may execute one task twice at a time (`manager_tasks.go:190`);
- the failure of an attempt that was reset is applied to the attempt after it,
  since the update asks for `processing` and not for the attempt;
- the recovery decides with attempts it has read, and a claim writes the
  attempts of its batch plus one, so a task may be claimed more often than
  `max_attempts`. `GivenUp` bounds the attempts from below only.

## 8. Forwarder

### Model

`Forwarder` is the loop of `Forward` for several requests that compete for
accounts. `loop` is the record of the loop's locals: the route, the accounts
excluded for good (`hard`) or for this round (`soft`), whether it waits for
capacity, has retried the same account, is past `queueDeadline`, has run the
begin chain, and whether the attempt has passed without a slot (`free`).

| code | model |
|---|---|
| top of the loop, `pickAccount` | `Stop`, `PickAccount`, `WaitForCapacity`, `RetrySameAccount`, `NextRoute`, `GiveUp`, `QueueDeadline` |
| `acquireAccountSlot` | `TryIncrementRPM`, `RPMFull`, `AcquireSlot`, `SlotsFull` |
| `ClaimAccountGate`, begin chain | `GatePasses`, `GateRejects`, `BeginAllows`, `BeginDenies` |
| `callPlugin`, `finishCanceled` | `PluginReturns`, `FinishCancelled` |
| `applyOutcome`, failover, `writeResult` | `ReleaseBeforeFailover`, `Failover`, `WriteResult`, `Close` |
| Redis: minutes, lifetimes, leases | `NextMinute`, `SlotAges`, `SlotsExpire`, `Cool`, `LeaseEnds` |
| clients and servers | `ClientGoes`, `Crash` |

The limiters fail open. A script of theirs that fails lets the request pass: for
a client that has gone (its context is cancelled, so nothing is sent), and on
any other Redis error, after which the script may have been executed or not.
`TryIncrementRPM` then tries `IncrementRPM` as well, which knows no limit
(`rpm.go:116-119`), so the attempt may be counted twice, once or not at all;
`AcquireSlot` leaves the request with a slot or without
(`concurrency.go:108-111`). Nobody looks at the error of `DecrementRPM`, which
may fail too. `errors` counts the commands of live requests that have failed;
which requests' may is `Failing`, how often `MaxErrors`. `DecrementRPM` with
`context.Background()` works for a client that has gone, and a client may also
go between the check and the decrement (`SlotsFull`, `ApplyOutcome`).
`reserved` says whether the attempt was let through in this minute, `kept` how
many places were used up or not given back.

A success whose plugin has measured no usage writes no usage record
(`outcome.go:51-52`, `315-318`): the request is then in `unmetered`.

Abstracted: which of the accounts that may be scheduled is picked (tiers and
balancing); sessions; streams after their first byte; the rejections before the
loop; what the plugin returns is one of five kinds, final if `canFailover`
denies another attempt, with usage or without. Not modelled: a `ZREM` of
`ReleaseSlot`, a probe or a reading of the selection that fails, and the
repetition of a command by the Redis client library.

### Checks

`Forwarder_safety`: two requests of two keys; one is routed to a group with
account `a2` and then to a group with both, the other to a group with `a1`;
each account has one slot and one request a minute; one request may lose its
client, the other its server, whose slot then runs out; one command of the other
may fail; one account awaits a probe; one change of the minute. One request is
answered by a success without usage, the other by a failure that is recorded.
At these limits every request is in the way of the other, and on a route of two
accounts a request can fail at one while the other is full, so that what it
waits for and what it excludes are not the same. It checks
`NothingOvercounted`, `QuotaKept`, `AttemptsCleanUp`, `AccountLimit`,
`RecordedOnce` and `RequestsEnd`. That a call outlives its slot (`Slow`) is left
to the theorems: with it the run would not end in time.

Fairness: a request's steps, and strong fairness of its `queueDeadline`. The
deadline is an instant of wall-clock time, but the loop looks at it only
between attempts: a request that is with an upstream at that instant sees it
afterwards. Weak fairness of `QueueDeadline` would allow a request that attempts
one account and waits for another in turn to find the deadline ahead of it for
ever, and TLC shows that `RequestsEnd` fails then. Nothing is assumed of
minutes, slots or cooldowns, so that `RequestsEnd` holds although what a request
waits for never comes.

### Proofs

`ForwarderProofs`, for any requests, accounts, routes, limits and outcomes: the
types, `RecordedOnce`, `AttemptsCleanUp` and `AccountLimit`. The invariant says
of each request (`Mine`) that what is counted, held or claimed for it belongs
to the attempt it is at (`PlaceIsMine`, `SlotIsMine`, `ProbeIsMine`), that a
call has its slot unless it has outlived it or passed without one
(`CallHasSlot`) and when its record is written (`RecordAtEnd`); of an account, that the slots that have not run out fit
(`SlotLimit`). A step of one request spares the others (`Spared`), so each
action is looked at for its own request only.

`NoPlaceLost` (`NothingOvercounted`) and `QuotaNearlyKept` (`QuotaKept`) count
requests and assume that there are finitely many. Their invariant `MInv` says
how far an account's counter and its places in use may be apart: in either
direction one for each command that has failed and each request whose client has
gone and whose attempt is over (`Gone`), and the counter may be lower by one
more for each request under which the minute has turned (`Turned`), since it may
have given back a place it did not have. The places in use exceed `max_rpm` by
no more than that. This last bound needs the one before it (the script lets in
who finds the counter below the limit, not the places) and that a counter which
does not exist stands at 0. A step takes a place, gives one back, forgets one,
uses one up or leaves the minute alone (`MinuteStep`), and the arithmetic is
done once for each of these five. The properties replace both sets by larger
ones that a reader can see in the state.

`LoopIsBounded` is the half of `RequestsEnd` that is not about fairness: every
step of a request ends it, goes on within its attempt, uses up an account, the
retry, the wait or a route for good (`Higher`), or starts the round over, which
it may only do while it may wait (`StartsOver`). It rests on `Untried`: nobody
attempts an account it has excluded. With finitely many accounts a request
therefore makes finitely many attempts after `queueDeadline`, whatever the
others do. That it takes its steps is fairness, and `RequestsEnd` itself is
model-checked.

### Observed while modelling

- A half-open probe that ends in a transient failure, or in a dead pool
  account, is neither marked nor released (`Apply` in `state.go`): others wait
  for its lease of 45 s. `AttemptsCleanUp` exempts these outcomes.
- The limiters fail open: a request whose client has gone is let through
  uncounted and decrements all the same; on any other Redis error a request
  passes over `max_rpm` or `max_concurrency`, and is counted twice in the minute
  if the answer of the script is lost. A decrement after the minute has changed
  goes to the new minute. `QuotaKept` and `NothingOvercounted` say how far
  `max_rpm` may be exceeded and how much of it lost; `AccountLimit` exempts who
  has passed without a slot, and a call longer than the lifetime of its slot,
  which the next purge drops while the call goes on.
- A success without usage leaves no usage record at all.
- Waiting for capacity forgets the accounts that failed in this round
  (`forwarder.go:253`): while one account of a route is full, a request may
  attempt another that keeps failing softly again and again, until
  `queueDeadline` and not longer.
- `Apply` decrements with the request's context: if the client goes in between,
  the place stays counted until the minute ends.

## 9. Synchronous billing and budgets

### Model

`HostBilling` is one payer's account. `LoadSubmitter`, `ReadReservations`,
`ReadBalance` and `Send` are the gate of a submission and the storing of its
estimate; the order of the reads is the code's. `BeginTask`, `Lookup`,
`RecordSync`, `LookupAgain`, `AddWindowCost` are a settlement of a task,
`BeginProduct`, `RecordSyncCharge` one of a product, `Interrupt` a dead process
or a reply that does not arrive. A call that got no usage id is made again
(`MayCall`). `Commit` is the transaction with the unique
index on the request id.

A member draws on its own quota and on its department's (`Draws`, `Drawn`).
Both come with its identity, which `ResolveTeamIdentity` keeps for five seconds
and a charge does not invalidate: `Resolve` takes either what is in the
database or what was cached by any earlier request, this submitter's own or
another (`LoadIdentity`); the lifetime is left out, so that more is allowed than
the code does.

The result `error` is every answer without a usage id: the upstream answered
but the charge failed, which `forward` and `forwardPinned` only log
(`host_service.go:1420`, `:1574`), a refusal (a balance that does not suffice
for a product, an exhausted quota), or an error of the call. It does
not say that nothing was charged: a commit whose reply is lost is an `error` of
`RecordSyncCharge` (`recorder.go:348`), and a `RecordSync` that committed is
one if the second lookup fails as well (`host_service.go:2310`). No property
says otherwise. Nor is it assumed that a plugin completes only what it has
settled: `Complete` is open, as `updateTask` does not look at the usage id.

The gate does not promise that nothing is overspent: submissions without an
estimate pass it (`SendUnpriced`), overlapping submissions each miss the
other's reservation, and so do those of different members (`Unseen`), a failed
store of an estimate is only logged (`Persist`), products are charged past it
and tasks after they have failed (`Breaches`), and a quota may be read from the
cache or before a charge (`LoadSubmitter`, `Breaches`). `BudgetHolds` and
`QuotaHolds` say that among the steps of this module there is no other way. In
particular a task that settles while another is submitted is in the
reservations or already out of the balance, whatever the order of the two.
Outside this module the same balance is spent by API requests, which reserve
nothing, and it is edited by administrators; either may leave unfinished tasks
uncovered.

Abstracted: a task costs its estimate, which the plugin does not change
(`tasks.update` may set `estimated_cost`); a period does not end meanwhile; the
member and its department are loaded in one step; an unpinned call also asks
for a positive balance; the metadata paths that are never charged; request ids
reused for something else; calls without a request id.

### Checks

`HostBilling_safety`: two tasks of one member at prices 2 and 1 and a product at
2, a balance of 3, and quotas of member and department of 4 and 3, where both
tasks fit, or 2 and 3, where the member's denies the second and is exhausted by
the first. Two calls settle the first task at the same time, one the product,
each again if it got no usage id; the first task may have to be submitted again.
It checks `BudgetHolds`, `QuotaHolds`, `SettledIsCharged`, `WindowCostOnce` and
the refinement of `UsageLedger`. Two calls at a time are a retry and the call it
races with; the charge of a product is one step, so that two calls for it differ
in nothing from a call and its repetition.

### Proofs

`HostBillingProofs`, for any tasks, products, calls, prices and balances: the
types, `SettledIsCharged`, `WindowCostOnce`, and that
every step is a step of `UsageLedger` or a stutter. The invariant ties charges
to rows (`OneCharge`) and says that at most one call, the one that wrote the
row, is about to enter its cost in the window (`WindowTurn`).

`BudgetKept` (`BudgetHolds`) and `QuotaKept` (`QuotaHolds`) speak of sums over
sets. `Total(f, S)` is the number of units of cost of the members of `S`, the
cardinality of a set of pairs (`Units`), so that the library's facts on finite
sets say what adding or removing a task does to a sum, without induction. The
invariant `Promise` explains why the gate's order of reads is safe. As long as
no reservation was passed over (`~overspent`), at most one submission is
between its reading of the reservations and its sending (`Orderly`); what is
owed is within the reservations it has read, and within the balance. Of a
quota, which is read first: what the submission has read of it is what is left,
or the quota is in `overdrawn`, until the reservations are read; from then on
it is at most what is left now plus what has been charged since, and the latter
is in the reservations (`QuotaInv`). A settlement is of a task that was
sent (`SettlesSent`), so it lowers what is owed and the balance together.

### Observed while modelling

- `resolveHostForwardIdentity` runs in every call, so the settlement of a member
  whose quota, or whose department's quota, the task itself has used up is
  refused although its row may exist already (`host_service.go:1205`, `:513`,
  `:517`); the comment at `host_service.go:3261` says that settlements are let
  pass, and this is so for the balance only.
- The quotas of the gate come with an identity that is cached for five seconds
  (`auth/team.go:67`, `:82`), and a charge does not invalidate it: a submission
  just after a settlement counts on quota that the settlement has used, while
  its reservation is gone. `QuotaHolds` exempts such a quota.
- `RecordSyncCharge` answers a commit whose reply is lost with the same error as
  a rollback (`recorder.go:348`); only the replay under the same idempotency key
  tells them apart.
- `RecordSyncCharge` does not add to a member's `used_quota`, against the
  comment at `host_service.go:2666`.

## 10. Admission of a key

### Model

`KeyAdmission` is one key with several clients and replicas. `ReadLocal`,
`ReadShared`, `Keep`, `Query`, `Roll`, `Store` and `Share` are
`ValidateAPIKey` with its two caches and the rollover of a member's period;
`Switch`, `Charge`, `Edit`, `Reset`, `NextPeriod` change the verdict, with the
invalidations the code makes (`Invalidate`, `ClearShared`) and without the ones
it does not make; `AcquireUser`, `AcquireKey`, `Deny`, `Release` are
`acquireClientQuota`. `Tick` ages copies; a reader is at most `Lag` ticks
between reading and storing. A command about a slot fails when the client has
gone, and may fail for the clients in `Failing` with any error of Redis: the
script has run or not, the request passes either way (`concurrency.go:108-111`),
and a slot that was to be given back may stay. History: `since`, how long ago
the verdict last changed; `free`, the requests let pass so; `kept`, those whose
slots a failing command has not given back.

Abstracted: the selects that load a key are one step, a write and the local
invalidation after it are one step, the member's quota stands for those of
department and key.

### Checks

`KeyAdmission_safety`: two clients on two replicas, one of which makes the
changes, a lifetime and a delay of one tick, a quota of 1, one period to come;
the user has one slot and so has the key, whose limit is met by a request that
comes after one that passed the user's uncounted; one client may leave and its
commands may fail, the other may outlive its slot. It checks `WithinLimits`,
`SlotsReturned`, `VerdictsAge` and `PeriodBaseFixed`. With one tick each, a verdict passes through every kind of
copy before it is too old, which needs the second replica. There is no liveness
here: an answer needs only the next step of its reader.

### Proofs

`KeyAdmissionProofs`, for any clients, replicas, lifetimes, delays, quotas and
limits: the types and all four properties. The heart is `AgeInv`: a wrong
verdict in Redis is at most as old as a delay and the life it has spent, one in
a replica is older by another lifetime, and readers are in between. Of the
period, a reader that is about to roll the row has seen the row it names, or
its update has no effect.

### Observed while modelling

- `apikey.go:33` says that a disabled key is refused after 5 s at the latest.
  A replica that finds the verdict in Redis just before it expires there keeps
  it for its own 5 s: `VerdictsAge` holds with two lifetimes and not with one.
- Switching a key, its user or its group invalidates nothing, and a reader in
  flight may store the old verdict after an invalidation.
- On any error of Redis, or with a client that has gone, a request passes the
  limits of user and key without being counted (`concurrency.go:108-111`):
  `WithinLimits` is about the others. Redis being away is what the comment there
  names; an answer that is lost has the same effect.
- The user's slot is given back with the request's context if the key has none
  left (`quota.go:91`): if the client has gone it stays until its lifetime ends,
  and so it does wherever the command that gives it back fails, which nobody
  looks at. `SlotsReturned` exempts both and nothing else.

## 11. What is not modelled

`PROJECT.json` lists every component with the reason. Left of the plan are
sessions and sticky routing (`SessionLimit`), the cached window cost (a rebuild
from the log may overwrite what `AddCost` added meanwhile, and sums another
column than it), prices and the ranking of candidates. The message queue is
written but called by nobody, so the program has no such behaviour. The loop
of a plugin's host call is like the forwarder's and is not modelled apart from
its billing. Where a module lets a command of Redis fail, it is sent once: the
repetitions that the client library makes by itself are left out, and so are
the failures that §8 names. Out of scope for good: generated code (`ent`, which is most of the
repository's Go), the web client, deployment scripts, content and mail, the
plugin marketplace and the HTTP layer, which have no protocol of their own
beyond one query per request.

Not proved: liveness (`RecordsSettle`, `StopReturns`, `WalDrains`,
`LeaseEnds`, `StaleViewEnds`, `Succession`, `TasksEnd`, `RequestsEnd`), which is
out of the prover's reach. TLC checks these on the instances above. Every
safety invariant, action property and refinement that a passing run checks is
also a theorem.

## 12. Running

`tlc -config <run>.cfg MC<module>.tla` for a run, `tlapm <module>Proofs.tla`
for the proofs. A passing run takes from seconds to three and a half minutes with two
workers.
