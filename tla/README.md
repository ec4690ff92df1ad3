# Formal models of Renwork

Renwork is a desktop and cloud client for OpenCode agents. Its own core logic, as
opposed to its user interface and to the agents it calls, is about *running things
once, in the right place, although processes come and go*: the Den API starts
Automations on a schedule, the OpenWork server keeps an OpenCode engine alive across
config changes and runs tasks of its own, Den keeps one cloud worker for each member and
one credit wallet for each organization, and all of them share state between actors that
read it, wait, and write.

The modules beside this file model that logic in TLA+, TLC checks them on small
instances, and TLAPS proves the main results for every value of the constants.

| module | what it is |
|---|---|
| `AutomationRuns` | the life of queued runs: replicas, desktop runners, leases, cancellation |
| `RunLifecycle` | what a run promises whoever looks at it: the abstract specification |
| `AutomationSchedule` | one Automation: edits, states, occurrences, and the runs made for them |
| `EnginePool` | blue/green rollover of the OpenCode engine in the OpenWork server |
| `CreditLedger` | the RenCredit wallet and the metered inference requests that spend from it |
| `CreditAccount` | what the ledger promises an organization: the abstract specification |
| `LocalAutomations` | the scheduler of the OpenWork server and its JSON file |
| `CloudWorkers` | one member's cloud worker between browsers, runs, the idle loop and the reconciler |
| `AutomationRunsProofs`, `AutomationRunsTaskProofs` | theorems about `AutomationRuns`: the rows, then the executions that hold them |
| `AutomationScheduleProofs`, `EnginePoolProofs`, `CreditLedgerProofs`, `LocalAutomationsProofs`, `CloudWorkersProofs` | theorems about the module each is named after |
| `FiniteSums` | lemmas about finite sets, their extremes and their sums |
| `MC...` | instances for TLC, one `.cfg` per run |

`AutomationRuns` implements `RunLifecycle` (proved and checked), and
`AutomationSchedule` EXTENDS `RunLifecycle`: it creates runs and then lets them do
whatever the abstract specification allows (proved: `ScheduleFollowsLifecycle`). The two detailed models therefore meet at
`RunLifecycle` and need not be multiplied with each other. `CloudWorkers` meets the runs at
one place, the admission and the end of a cloud run, and has those as steps of its own.
`CreditLedger` implements `CreditAccount` (proved and checked).

## 1. Inventory

Paths are relative to the repository. D is `ee/apps/den-api/src/automations`.

### Automation runs (D/repository.ts, service.ts, cloud-agent-executor.ts, scheduler-loop.ts)

- State: one row per run (status, attempt, lease owner and expiry, claim deadline,
  cancellation request, event cursor, engine receipt); the event table; in memory the
  executions of each API process and the assignment of each desktop runner.
- Operations: recover expired leases, expire unclaimed desktop runs, refuse, claim
  (Cloud and desktop), heartbeat, append an event, admit a native thread, complete,
  skip, cancel.
- Interactions: every replica of the API runs the same loop on the same tables; desktop
  runners call over HTTP; the owner cancels while either goes on.
- Hard: a lease may be lost while its holder still works; recovery and expiry use lists
  read earlier; `requestCancellation` reads and writes in two statements; answers are
  lost and requests repeated; processes die between two writes.
- Correct when: a run is started at most twice, ended once, by the attempt that has it;
  one turn goes to one thread; the event log has no gap or duplicate; the slot limit
  holds over all replicas; an expired lease and an unclaimed run are dealt with.

### Automation schedule (D/repository.ts, service.ts, cloud-artifact-state.ts, packages/automations/src/schedule.ts)

- State: the Automation row (state, next_due_at, current revision, reason), its
  immutable revisions, the runs made for occurrences, the due item each replica holds,
  the request each session is in the middle of.
- Operations: create, edit, activate, deactivate, archive, run now, the due loop with
  its claim and refusals, mark as needing attention, apply the result of a saved script.
- Hard: cycles and requests use a row they read before other replicas, edits and
  activations; next_due_at is written back from such reads.
- Correct when: an occurrence has one run; runs do not overlap; each due occurrence is
  recorded and none is passed over; an archived Automation stays archived.

### Engine pool (apps/server/src/engine-pool.ts)

- State: generations (starting, primary, draining, dead) with their fingerprint; the
  session ownership and active-session maps; the request in flight and the one that
  waits; `disposed`.
- Operations: adopt, route, request a rollover (coalesced), reload in place, spawn a
  standby, flip, poll and drain, abort, retire, dispose.
- Interactions: the server routes proxy requests with it; reload triggers request
  rollovers; engines are processes asked over HTTP.
- Hard: between any two awaits requests, crashes, late polls and a shutdown come in.
- Correct when: one engine serves new requests and at most one other lives; drains end;
  an engine works with the config it was asked to reload; nothing is left running.

### RenCredit ledger and inference gateway (ee/apps/den-api/src/rencredit-ledger.ts, routes/inference-gateway.ts)

- State: the wallet row with its version, one reservation row per request, the ledger
  entries, the usage events; in memory the requests between reservation and settlement.
- Operations: open the wallet, grant, reserve, settle, release, sweep expired reservations.
- Interactions: the gateway reserves before it calls the provider and settles with the answer;
  a stream settles at its end or releases when it is aborted; each Den process sweeps.
- Hard: idempotency keys are looked up before any lock is held; an answer, an abort and the
  sweep meet at one reservation; a process dies in between; usage may exceed the hold; the
  unique index on the response rolls a whole settlement back.
- Correct when: the entries explain the wallet; credit is conserved; one request goes out for
  a key; a reservation is closed once and no hold stays.

### Local automations (apps/server/src/local-automations-scheduler.ts, local-automations.ts, routes/local-automations.ts)

- State: one JSON file of tasks and run history; the set of running task ids in memory.
- Operations: tick, execute, run now, save, toggle, delete, import presets, start.
- Hard: an execution takes minutes and then writes to a file that was edited meanwhile; the
  tick writes the snapshot it began with; a write may fail, and a stop may cut it off.
- Correct when: edits last, a task is executed once for an occurrence and never twice at a time,
  a due task is executed, the history calls running what runs, the next time is the earliest.

### Cloud worker (ee/apps/den-api/src/workers/*.ts, routes/cloud/index.ts, routes/workers/shared.ts)

- State: the worker row (status, image, two time stamps), its tokens, the record of its sandbox,
  the sandboxes at the provider; in memory the operations each replica has in flight.
- Operations: ensure, wake, provision, heal, recycle, stop when idle, update, reconcile.
- Interactions: the status column is the mutex of the replicas; heartbeats touch the row; the
  executor of Automations wakes the worker, and the idle loop looks for its runs.
- Hard: each flow reads, waits for the provider for minutes, and writes; replicas die in between;
  a failed stop or start leaves a sandbox in another state than the row says; every replica
  runs the reconcile loop, which claims nothing.
- Correct when: one flow is at the provider at a time; a worker in use is not stopped; the
  status may be relied on; a worker does not stay in provisioning.

### Other components

| component | state, and why it is hard | standing |
|---|---|---|
| Desktop runner (`apps/desktop/electron/automation-runner.mjs`) | one assignment with heartbeat and events; its connection is lost and renewed | assignment modelled in `AutomationRuns`; the connection only decides when a claim is tried, and a claim may be tried at any time |
| RenCredit metering (`packages/rencredit-metering`) | the same contracts over an in-memory wallet | not modelled: Den forbids an in-memory wallet (rencredit-ledger.ts:122) and uses the charge computation only, whose result `CreditLedger` draws freely |
| Inference limits (`ee/apps/inference/src/limits.ts`) | usage buckets made and charged by concurrent requests | not modelled yet: no lock and no unique index, so a model needs the isolation level, which the repository does not set |
| Engine registry, managed process (`engine-registry.ts`, `managed-opencode.ts`) | files and processes | environment of `EnginePool` |
| Reload watcher (`reload-watcher.ts`, `engine-reload-defer.ts`) | debounce timers | only decides when a rollover is requested, which is open in `EnginePool` |
| Approvals (`apps/server/src/approvals.ts`) | one map of pending replies | 66 lines, reply and timeout exclude each other in the event loop |
| Access, runner authentication, notification feed | stateless checks, an append-only feed | their outcomes are chosen freely |
| Session sync of the app (`session-sync.ts`) | a cache of engine events in the client | not modelled: bound to the user interface |
| HTTP routing, inference proxy, web and UI packages, evals, labs | none of their own, or rendering | not modelled |

`PROJECT.json` lists each with its sources, and the hazards of this code at their lines.

## 2. How the models correspond to the code

### AutomationRuns

One action is one database transaction, or one step of a process between two awaits.
A handler that reads in one statement and writes in another is two actions, and what it
read is kept in between: `CancelRead`/`CancelWrite` (repository.ts 868-896),
`TickStart` with the snapshot of expired rows and `RecoverRow` for each of them
(841-863), `SelectUnclaimed` and `ExpireUnclaimedDesktop` (1156-1180). A Cloud execution
is a record in `tasks` whose `phase` says at which await it stands: `ClaimCloud`,
`CheckAgent`, `ReadReceipt`, `SetCloudExecution`, `SendTurn`, `FinishAgent` (or
`FinishScript`), `ReportEvent`, `CompleteCloud`, with `Monitor` beside them. A desktop
execution is a record in `runner`: `ClaimDesktop`, `DeliverAssignment`,
`HeartbeatDesktop`, `PostEvent`, `PostTerminal`, `CompleteDesktop`. A request may be lost
before or after the server handled it; that is a choice inside these actions.

- One clock serves all processes, as the code compares `Date.now()` with stored times and
  has no other protection; `NoTime = 0` stands for NULL.
- The claim of a Cloud run counts running rows under `FOR UPDATE`; it is one action.
- The contents of events are left out, their attempt and sequence number are kept.
- A crashed replica does not come back, and one replica always stays up. A restart has a
  new scheduler owner, so it is a new replica.
- `heartbeat`, `appendEvent`, `reclaimQueued` of the repository and
  `assertAutomationTransition` have no callers but tests and are not modelled.
  `queueRetry` is asked for by retryable results only, which cloud-agent-executor.ts never
  returns. A cancelled Cloud agent run whose loop throws is left to its lease.
- Every run exists from the start, in an Automation of its own: creation is
  `AutomationSchedule`'s part.

### RunLifecycle

Status, attempt and the cancellation flag of each run, and the steps anybody may see:
create, start, requeue, finish, cancel. A finished run moves again only through the write
of a late cancellation, or through the recovery of the lease such a write left behind,
because the code allows exactly that (section 4).

### AutomationSchedule

`DueRead`, `ClaimScheduled`, `SkipRefused`, `MarkRefused` are a replica's cycle on one
due item (service.ts tick); `RunNowRead`, `ClaimManual`, `MarkBlocked`,
`RecordSkippedManual` a "run now" request; `SetStateRead`/`SetStateWrite` the requests that
activate, deactivate and archive; `Update` an edit; `Execute`, `CompleteScript`,
`ApplyResult` a saved script whose result changes the Automation's state. Whether the
owner still has access is chosen freely. Calendar arithmetic and time zones are
abstracted to sets of times; an edit of the name alone changes nothing here; a schedule
that runs once is a set of one time. Replicas do not crash in this model (planned).

### EnginePool

The pool lives in one event loop: an action is what happens between two awaits. The
request in flight is the record `rollover`, whose phase says which await it is at
(`WriteRuntimeConfig`, `ReadFingerprint`, `ProbeBusy`, `ReloadInPlace`, `Spawn`,
`CheckHealth`, `ListSessions`, `ListRequests`, `Flip`) and whose other fields are what it
learned on the way. `Settle` is the `finally` of `requestRollover` and belongs to every
action with which a request ends. A drain tick is a record in `polls`: its answer is
taken when the engine is asked (`Poll`) and used later (`PollAnswered`), so that ticks
overtake each other.

- `settings` is the part of the runtime config all workspaces share; `disk` is the file.
  Engines build one instance for each directory at start (`postRefreshSync` pushes MCPs
  to every workspace) and again after an in-place reload; `instance` says from what.
- The `manual` flag is left out: the only caller (server.ts:3919) does not set it. So is
  a failing read of the fingerprint: the file is replaced by a rename.
- `retire` sends SIGTERM and waits for the exit up to a second and a half, with SIGKILL after the
  first (managed-opencode.ts 112-130); the generation is out of the routing before, so that
  closing is one step (`Close`), and its time belongs to the step after. Its tail (711-714) restarts a pending request when none is in flight; that
  never occurs, as a request is only pending while another is in flight.
- Pinned permission requests, the event filter and the registries are left out.

### CreditLedger and CreditAccount

A transaction takes its locks with its first locking read and holds them to the commit, so it is
one action: `CommitGrant` (220-246), `Reserve` (258-313), `Transaction` within `CommitSettlement`
and `SweepRelease` (323-393). The plain read of the idempotency key comes before the lock and is
an action of its own: `LookUpGrant`, `LookUp`. An insert against a unique index rolls the
transaction back (`KeysFree`, `ResponseTaken`). The gateway's handler of a request is `request`,
and `settling` holds the settlements it asked for: an aborted stream may ask for two, a release by
`cancel` and a settlement by the read that the abort ended.

- Entries are kept in the order of the wallet lock, with the balances and version they record.
- `Free` are the requests whose route has the billing mode "free": they hold nothing, and their
  settlement charges nothing whatever they used (rencredit-ledger.ts:334). Pricing, plans and routing
  choose the hold and the charge of the others.
- The status `suspended`, refunds and adjustments are set by no code. Admin grants are the only
  source of credit in the model, as in the code.

`CreditAccount` has a balance and one hold for each reservation; its three steps are all that may
move the balance.

### LocalAutomations

The code reads and writes the file synchronously in one thread, so what runs between two awaits is
one action. A tick is a fold of `LoopStep` over the tasks of its snapshot: it begins executions,
each of which reads and writes the file itself, and writes the snapshot for a task without a next
time, as the code does. `Finish` is either end of `executeTask` (131-158, 167-188).

- `saved` is what the user asked for last, `fired` the occurrences executed since the start,
  `lastCrash` tells runs from before the last stop: they are read by the properties only.
- Imported presets get a new id in the code; the model has one id for each preset and does not
  import it while an execution of its predecessor goes on.
- Time is in seconds, a day has `DayLength` of them; daylight saving time is left out.
- Writes may fail (`WriteFails`): `writeFileSync` throws with the file as it was, or with one that
  is cut off, is read as empty, and has lost the tasks. That is what the code does;
  `EditsKept` speaks of what is left. All writes of a step fail together.
- `TickFails` and `RunNowFails` are executions whose first write fails. Their id was added to
  runningTaskIds before the `try` whose `finally` takes it out (30-57), so it is `stuck` there and the task
  is refused ("Task is already executing") until the server stops. A tick that cannot write a next time ends.
  `FinishFails` is an end that neither 158 nor 188 can write: the id is free again, the history keeps saying
  running (`lost`), and the occurrence is still due and is executed again. `EditFails` is a
  route that answers with an error.
- Not modelled: a read that fails once, which the code takes for an empty file
  (local-automations.ts:79), and a first write at the start of the server that fails, which keeps it down. The
  rejection of the executeTask a tick does not wait for may end the process: that is a `Crash`.

### CloudWorkers

One member's worker. `flow[p]` is what replica p has in flight: the instance request (`get`, with
the status it read), a wake, a provisioning (joined by all who ask for one, as
`cloudProvisioningInFlight` has it), the idle loop, the reconciler. `worker.idle` and
`worker.overdue` stand for the two time stamps being older than their limits; every statement that
changes the row resets `overdue`, because `updated_at` is `ON UPDATE CURRENT_TIMESTAMP`, and so does a heartbeat.
The sandbox under the name of the current snapshot is `named`, that of the one before `older`.

- A failed start leaves the sandbox and no record: `return startOpenWork...` without `await` leaves
  the `try` (daytona.ts 1257-1266), so the cleanup below it is for creation only.
- Every replica may be a reconciler, as every Den process starts the loop (server.ts:17, env.ts:660-661).
  It reads a list and provisions each worker of it without a claim (`ListProvisioning`, `ReconcileWorker`).
- A fault is a crash of a replica, a sandbox the provider loses, or an operation of a live replica that
  outlasts the 20 minutes after which the reconcilers list the row (`BecomeOverdue` while somebody
  operates). A sandbox may take two minutes to start and five to create by default, and
  nothing in the code bounds the sum.
- `takenOver` is history: a reconciler went on with a worker that was not left behind, because its
  transition had resolved since it was listed, or because another replica is at it. It is
  set by `ReconcileWorker` and read by the properties only.
- Left out: two rows made at once for a member (the older wins), generic worker routes, previews and
  their cache, providers, the cooldown between two healings.

## 3. Runs

| run | instance | what it shows |
|---|---|---|
| `runs_cloud` | 2 runs, 2 replicas, 1 owner request: either an agent run alone, or two saved scripts that compete for one slot; clock to 5 | types, attempts, one thread per turn, results of the latest attempt, finality, the slot limit under crashes and lost leases, refinement of `RunLifecycle` |
| `runs_desktop` | 1 run, 1 replica, 2 runners, 1 owner request, 2 events, clock to 5 | the event log; expired and unclaimed runs are settled |
| `schedule_replicas` | 2 runs, 2 replicas, 1 request, 2 definitions and one edit between them, clock to 3, adjacent occurrences | types, one run per occurrence, no overlap, no occurrence without a run between an activation and next_due_at |
| `engine_drain` | 3 engines, 1 workspace, 1 session, 2 edits, 2 requests, 2 polls at a time | types, one primary and one other until shutdown, drains end, requests settle |
| `credit_ledger` | 3 requests (one free, one streamed) of 2 keys and 2 run ids, 1 grant sent twice, 2 sweeps, 1 crash | types, the ledger explains the wallet, conservation, debt, one egress per key, usage; finality, refinement of `CreditAccount`; holds end |
| `local_tasks` | 2 tasks (one a preset), 1 run now, 2 edits, 1 fault (a failing write or a crash), clock to 3, history of 2 | types, one execution, edits kept, history, next times; an occurrence once; due tasks are executed unless their id is stuck |
| `cloud_workers` | 2 replicas, both reconcilers, one with the browser and the executor, one with the idle loop; 1 fault, 1 new snapshot | types; until a take-over: one flow at the provider, runs spared, a stopped row is true; a healthy row is true; silent workers are reconciled |
| `runs_terminal` | 1 desktop run, 1 runner, 1 owner request | counterexample: a finished run is running again |
| `schedule_rewind` | 3 runs, 1 replica, 1 request, one schedule | counterexample: a due occurrence is never recorded |
| `cloud_reporting` | 2 replicas, no fault | counterexample: a worker stays in provisioning |
| `cloud_reconcilers` | 2 replicas, both reconcilers, no fault | counterexample: two replicas at the provider |
| `engine_shutdown` | 2 engines, 1 edit, 1 request | counterexample: a standby outlives the pool |

Section 4 tells the five counterexamples.

**Bounds.** A lease lasts 1 tick and the clock goes to 5 (4 for two competing runs, by the state constraint
`CompetingTime`): a run is
claimed, loses its lease, is recovered, claimed again, loses it again and is failed, with
time to spare for the late actions of both attempts; the claim window (2 or 3) ends
inside. Two replicas are enough for every race between two of them over a row, and a third
party, the owner, is there too. Two events let the log have a gap. Three occurrences
and three runs let an occurrence be repeated, skipped and manual. Three engines let a
drain, a standby and a failed standby follow each other, and two polls let a late one
meet a dead engine. `schedule_replicas` has two runs and a clock to 3 instead: its schedules
have an occurrence at nearly every tick, so that a claim of an occurrence read before a deactivation
and an activation is a claim of one that lies before the series. `MaxTime`, `MaxRevisions`, `MaxManual`, `Cancellable`, `Outcomes`,
`MaxEdits`, `MaxRequests`, `MaxPolls`, `MaxFaults`, `MaxDeploys`, `MaxCrashes` and `Engines` are the bounds;
each appears in a guard (or is the set drawn from), so liveness is checked on real
behaviours. The one state constraint, `CompetingTime`, is in a run without liveness properties.

In `credit_ledger` the requests share a key (two of them) and a run id (another two), a grant covers
one hold of two but not both, charges lie below and above the hold, and both response ids may come
twice. In `local_tasks` a day has two seconds and the clock three, so that a daily, a one-time and
an interval task come due while executions overlap; the calendar is checked apart from the file,
over five sets of days, at every value of the clock. `MaxFaults` is one there: a second fault would repeat the first with fewer edits left, and
the theorems hold for any number. In `cloud_workers` the replicas share
out the work so that each flow meets each other one on another replica, and both reconcile; there is
one new snapshot and one fault of the three kinds.

`CHECK_DEADLOCK FALSE` is set where the system stops: the engine pool after shutdown, the ledger
when every request has ended, the local scheduler when the clock stands and the requests are used up,
and the cloud worker, where a browser, a run or time may do nothing more. In the other models the
clock may stay at its last tick.

**Symmetry** is used with safety properties only.

**Fairness.** Runs and schedule: the scheduler loop arms its timer again in a `finally`
(scheduler-loop.ts 25-43), so the next step of a cycle of a replica that is up is taken in
the end; nothing else is assumed, neither of executions, runners, owners nor the clock.
Engine pool: every call it awaits has a timeout (2 s, 5 s, ten health probes, the
spawn's limit) and its timers fire, so the request in flight, an asked poll, an abort,
a forced retirement and the shutdown go on, deadlines pass, and a draining engine is polled.
A session need not end, an abort need not help, and an engine need not answer: then the
answer is empty, as in the code.
Ledger: the half hour of a reservation passes, each process sweeps every minute (rencredit-ledger.ts
428-446) and a settlement asked for is committed; providers, clients and crashed processes owe
nothing. Local automations: the tick fires, the two requests of an execution answer or time out (10 s
and 3 min), the server is started again, the clock goes on; writes fail `MaxFaults` times and then succeed. Cloud worker: an operation a live
replica has begun ends (the provider's calls have timeouts), the reconcile loop has a timer
and runs in a replica that is up, and twenty minutes pass; browsers and runs owe nothing.

## 4. Disagreements between the code and what it says

- `runs_terminal`: `requestCancellation` writes back the status it read (repository.ts:880). The owner's
  request reads a desktop run while it is running, the runner completes it, and the write puts the
  succeeded run back to running, with its lease gone, so that nobody recovers it. `complete` itself
  refuses to replace such a result ("automation_run_terminal_result_conflict", repository.ts:810),
  and state.ts:10 calls the status terminal. A Cloud run takes a slot for good that way.
- `schedule_rewind`: a "run now" claim writes the next_due_at it read (repository.ts:481)
  over the one a cycle has set. Each later cycle finds the old occurrence recorded and leaves
  before it advances: the due one is never recorded and the schedule stands still, while service.ts:255
  says "still claimed either way so the schedule advances durably". `DueIsRecorded` asks that an occurrence
  which next_due_at has come to is recorded, unless the Automation stops being active or its owner
  edits or activates it again, which starts another series.
- `cloud_reporting`: a failed worker with a sandbox record is claimed for a wake
  (routes/cloud/index.ts:536-541), which makes it provisioning; the wake acts on stopped workers only
  (cloud-lifecycle.ts:194) and returns. A sandbox that serves posts heartbeats, which keep the row
  from the reconciler, and nobody else moves a provisioning worker: "callers poll until the
  transition resolves" does not come true. It takes a missed probe and one failed healing. The
  recycling of a stopped or healthy worker asks for the same wake (656-658) and is saved by the
  reconciler twenty minutes later, because its sandbox is stopped.
- `cloud_reconcilers`: the reconcile loops of two replicas list one overdue worker and provision it
  together, without any crash or slow operation (a healed worker fails, is claimed for a wake that
  does nothing, as above, and gets overdue). "Its durable status is the cross-replica mutex"
  (cloud-lifecycle.ts:191-193) and "Conditional updates are the multi-replica safety" (routes/workers/shared.ts:444)
  hold for the flows that claim the row; the reconciler claims nothing (reconciler.ts:51-67).
  What may follow such a take-over is exempt from `IdleStopSparesRuns` and from the second half of
  `StatusIsTrue`, and TLC finds both without the exemption: the late success of one reconciler writes
  healthy over the provisioning of an idle stop, and a run is admitted while its worker is
  being stopped; or it starts the sandbox after the idle loop of another replica has written
  stopped. An operation that outlasts the 20 minutes leads to the same with one reconciler.
- `engine_shutdown`: `disposeAll` retires the engines it finds (engine-pool.ts:719), under the comment "Close
  every engine this pool owns" (718). A request that is spawning its standby does not look at
  `disposed` again: the standby is promoted after the shutdown and never closed. It is the only
  one (theorem `OneOutlivesShutdown`).

Seen in the models as well, and kept as text because each repeats a pattern above or is accepted by a
comment in the code:

- `setState` asks for no transition (repository.ts:425), and the result of a saved script sets the
  state by id (719), so an archived Automation becomes active, which core.test.ts:54 excludes.
- A change parked behind a drain is restarted at once by the `finally` of the request that parked
  it (engine-pool.ts:438), and so on until the drain is over.
- An in-place reload rebuilds one workspace but records the fingerprint for the engine
  (engine-pool.ts:467); the request of the next workspace is skipped as unchanged.
- A tick of the local scheduler that gives a task its next time writes its whole snapshot over the
  history entries of the executions it has just begun (local-automations-scheduler.ts:228).
- One failing first write of an execution leaves the id of its task in runningTaskIds, and the task is
  refused until the server stops (local-automations-scheduler.ts:30-55). `DueIsExecuted` says so.

- An active Automation may have no next_due_at, and then nothing starts it: "run now" on an inactive
  one reads NULL, the owner activates it, and the claim writes NULL back (repository.ts:481); or a
  saved script returns after a deactivation and sets the state alone (cloud-artifact-state.ts). It is
  the write-back of `schedule_rewind` once more.
- Two cancellations can send a run's turn to two threads. `cloudRunState` returns no receipt unless the
  row is running (repository.ts:683). One cancellation that read the row while it was queued for its second attempt
  writes `cancelled` over the running row (880), the executor of that attempt finds no receipt and makes
  a new thread, the other cancellation writes `running` back, and the new thread is admitted beside the one
  of the first attempt. cloud-agent-executor.ts:408 says that recovery can observe-or-submit the exact same turn.
  It is the write of `runs_terminal` with two owners, met when the invariant behind
  `TurnSentToOneThread` turned out not to be inductive for runs with a cancellation; the
  property is stated for the others.

The properties of the other runs are stated so that they hold in spite of these: for
instance `UncancelledTerminalIsFinal` is finality for every run nobody asked to cancel.
`NoOccurrencePassedOver` does not ask that occurrences come from one series: a
claim read before a deactivation and an activation still makes its run, and an interval then counts
from it. An earlier form of it, that each claim moves next_due_at to the next occurrence, was true only
of clocks too short for that.

## 5. Proofs

All theorems hold for arbitrary sets of runs, replicas, runners, sessions, engines, workspaces,
requests, grants, tasks and schedules, from the named assumptions of the modules. `ConstantsAssumption`,
`MaximumAttemptsAssumption`, `ScheduleAssumption`, `PoolAssumption`, `LedgerAssumption`,
`LocalAssumption` and `CloudAssumption` say that durations, amounts and limits are numbers, null values are
no members, replicas are not runners, the presets are finitely many and the schedules well formed, and
the snapshots of a cloud worker are two at most. `RunsAreFinite` and `RequestsAreFinite` say that a table
has finitely many rows, which counting and adding them up needs.

Every invariant and every action property that a passing run checks, and both refinements, are stated by
a theorem.

**AutomationRunsProofs.** `IInv` joins the types (also of what tasks and assignments hold in each
phase) with `RowsOK` and `SnapshotsOK`. `RowsOK`: a queued run has an attempt left and no
lease, and a run that ended without a cancellation has no lease either. `AttemptBound` is not
inductive without it, because no claim looks at the count: the bound holds since recovery
requeues only rows below it. `SnapshotsOK` is why recovery may decide on an old list: a
lease that still looks expired to a cycle under way is the one it listed, under the same
attempt, because every later lease ends after the cycle began. Every action is shown to be a
`RowStep` on each row, and the rest follows from `RowStep`: `InductiveInvariant`,
`TypeCorrect`, `AttemptsBounded`, `FinishedIsFinal`, and `RunsImplementLifecycle`, which maps the
initial states to initial states and every step to a step or a stutter of `RunLifecycle`.

**AutomationRunsTaskProofs.** The rows change in four ways (`RowKinds`): an update that gives the run to
nobody, a claim, an event, a stored receipt. `LimitIsKept`: only a claim adds a running run, and it
counts those of all replicas first; the replica's own count is not needed. `LogsFollowCursors`: the
cursor and the event move together, and a new attempt starts at nought. `TasksOK` relates executions and
rows: the owner in a row names one task, which is in the attempt of the row once past its claim
(`OwnersAreTasks`), and a thread that a task goes on with is the one on the receipt. From it follow
`ResultsOfLatestAttempt`, although completeCloud sends no attempt number, and `OneThreadPerRun`.

**AutomationScheduleProofs.** `Typed` strengthens the types so that what a cycle or a request
remembers is something it could have read; `Creation` is one run for each
occurrence and no overlap, which are inductive together given `Typed`: a claim asks for both
in the transaction that inserts the run, and no step of a run makes a finished one active
again but a cancellation: `ScheduleInvariant`, `ScheduleTypeCorrect`, `OccurrenceHasOneRun`,
`RunsDoNotOverlap`. `Series` adds to the next_due_at of the row every one a cycle or a request may
still write back: the occurrences before each of them are covered by runs. A run is never unmade, so
what was covered once stays so, which is why writing back an old value does no harm to it.
`OccurrencesAreNotPassedOver`. `ScheduleFollowsLifecycle` shows that the schedule uses runs as
`RunLifecycle` allows, and `ScheduledAttemptsBounded` draws the bound of the attempts from that.

**EnginePoolProofs.** A rollover looks once for a draining engine and relies on it until the flip,
five awaits later. `Roles` says what the request may rely on in each phase: from `probing` on
it holds the primary, from `spawning` on nothing drains, from `checking` on the one
starting engine is its standby; and whoever is polled has been demoted, so that a late poll
never closes the primary. `Roles` holds until shutdown; after it the types still do, and `LeftOK`: nothing is
parked or started again, and while the request in flight has not spawned yet every process is on
the list of disposeAll, so that one process at most is left over, its standby. `EnginePoolInvariant`,
`EnginePoolTypeCorrect`, `OneOutlivesShutdown`, `KeepsOnePrimary`.

**CreditLedgerProofs.** `IInv` joins the types with `LedgerExplainsWallet`, `WalletOK` (a
wallet without entries is at version 0 or 1, and a reservation has a wallet), `ReservationsOK` (whoever goes to the provider
has a reservation, and no two reservations share a key or a run id) and
`UsageMatchesCapture`. Steps are sorted into five kinds by what they do to the account: those that
leave it alone, the opening, a grant, a reservation, and a settlement or release; the theorems
follow from the kinds. `InductiveInvariant`, `TypesAreKept`, `LedgerIsComplete`, `OneCallPerKey`,
`UsageIsCharged`, `SettlementIsFinal`, `LedgerImplementsAccount`. The last maps the wallet and the
reservations to the balance and the holds of `CreditAccount`. `BalanceInv` (`BalancesAreSums`) says that the
wallet is the sum of what was granted, held and captured; each kind of step changes one summand, and
`FiniteSums` says what that does to the sum. `CreditIsConserved` is its first half. For
`DebtIsExcessUsage` the balance is compared with the summed excess of charges over holds: a
reservation is covered when it is made, so only a settlement above its hold goes below zero.

**LocalAutomationsProofs.** `IInv` relates the four things an execution touches at different times: the
file, the executions in memory, the history, and what the user asked for. `NoTwoExecutions`,
`EditsAreKept` and `HistoryIsTrue` are parts of it, with `LocalInvariant` and `LocalTypes`.
`OccurrencesOnce` is not inductive: the next time of a task changes when its execution ends and not when
it begins. `FiredOK` closes the gap: an executed occurrence is past, and if it is still the next time of a
task, then the execution of that task holds it, and the tick passes over the task; when the execution ends,
or the user saves, the next time is computed anew from the clock and lies in the future. Steps whose writes
fail start nothing (`FailureKeeps`) and leave the file or an empty one (`CutOffKeeps`); an end that cannot be
written takes its occurrence out of `fired`, and no other execution holds that one. `EarliestTime`
proves the day arithmetic of computeNextRunTime against the set of all moments the schedule names.

**CloudWorkersProofs.** All theorems hold for any replicas, reconcilers and faults. One part of the
invariant no reconciler can break: `PresentOK` (nobody is creating a row that does not exist yet) and, in
`KnownOK`, that a flow that has brought the sandbox up has made its tokens and record, and so a healthy or
stopped worker has them. The other part is an invariant up to the first take-over. `MutexOK`: whoever
operates finds the worker provisioning, does one thing, and is alone; each operation begins with
a conditional UPDATE out of another status, so nobody else can be operating, and a reconciler that finds
nobody operating on a worker that is still provisioning is alone too. `Halted`, the rest of `KnownOK`: a stopped
worker's sandbox is down, and a flow that stopped the sandbox will find it so, as only a flow that holds
the mutex starts it again. The step that takes over sets `takenOver`, and from then on this part claims
nothing. `InductiveInvariant`, `ClaimsAreExclusive`, `RunsAreSpared`, `StatusCanBeTrusted`.

**Induction.** The induction theorems of the library take an operator as a parameter, which the provers
cannot instantiate. Two proofs need an induction all the same, over the rows of a sum and over the tasks of
a tick, and get it from a minimal counterexample: among the finite subsets (or the indices) where the
claim fails there is a least one, by the well-foundedness of inclusion (or of the numbers), and one step of
the definition contradicts it. `SmallestSubset` in `FiniteSums` and `LoopsAgree`, `LoopExists`,
`TickKeeps` in `LocalAutomationsProofs` are these arguments; they also show that the recursive functions
inside the community modules' `SumFunction` and `FoldLeft` are well defined.

**Only model-checked.** Liveness: `ExpiredLeaseIsRecovered`, `UnclaimedIsSettled`,
`DrainEnds`, `RequestsSettle`, `HoldsEnd`, `DueIsExecuted`, `SilentIsReconciled`. It needs
fairness, and with it ENABLED, which the provers do not have. The five properties of the runs that expect
a violation are refuted by TLC and there is nothing to prove.

## 6. Plan

1. Done: `RunLifecycle`, `AutomationRuns`, `AutomationSchedule`, `EnginePool`, `CreditLedger`,
   `CreditAccount`, `LocalAutomations`, `CloudWorkers`, their runs, and the proofs above.
2. Done: theorems for every safety and action property the runs check.
3. Proofs that say more than the runs: which generation a session's prompts go to in `EnginePool`, and what `HoldsEnd` needs as an invariant (whoever has
   to act can).
4. A crash between `CompleteScript` and `ApplyResult` in `AutomationSchedule`; pinned requests in
   `EnginePool`.
5. Inference limits, once the isolation level can be stated.
