--------------------------- MODULE AutomationRuns ---------------------------
(***************************************************************************)
(* The life of an Automation run after it has been queued: the run row in  *)
(* the Den database, the scheduler replicas that dispatch Cloud runs and   *)
(* recover expired leases, the desktop runners that claim runs over HTTP,  *)
(* and the owner who cancels.  Every action is one database transaction or *)
(* one in-memory step of a process; a handler that reads a row and writes  *)
(* it back in a second statement is two actions.                           *)
(*                                                                         *)
(* Source: ee/apps/den-api/src/automations/{repository,service}.ts,        *)
(* cloud-agent-executor.ts, apps/desktop/electron/automation-runner.mjs.   *)
(***************************************************************************)
EXTENDS Naturals, FiniteSets

CONSTANTS
    Runs,            \* run rows, each one created by an earlier claim
    Replicas,        \* Den API processes, each with its own schedulerOwner
    Runners,         \* desktop runner installations (runnerId survives restarts)
    Sessions,        \* owner requests that may be cancelling at the same time
    NoOwner,         \* lease_owner NULL
    NoThread,        \* engine_receipt NULL
    NoRun,           \* "no run" in a runner's or a session's local state
    LeaseTime,       \* env.automations.leaseMs
    ClaimWindow,     \* env.automations.runnerClaimDeadlineMs
    MaxConcurrency,  \* env.automations.maxConcurrency
    EventCount,      \* events one execution reports, the terminal one included
    Cancellable,     \* BOUND: the runs an owner may cancel
    MaxTime          \* BOUND: the clock stops here

AUTOMATION_MAXIMUM_ATTEMPTS == 2

\* A table has finitely many rows.
ASSUME RunsAreFinite == IsFiniteSet(Runs)

ASSUME ConstantsAssumption ==
    /\ LeaseTime \in Nat \ {0}
    /\ ClaimWindow \in Nat \ {0}
    /\ MaxConcurrency \in Nat \ {0}
    /\ EventCount \in Nat \ {0}
    /\ MaxTime \in Nat \ {0}
    /\ Replicas \cap Runners = {}
    /\ NoOwner \notin Replicas \cup Runners
    /\ NoRun \notin Runs
    /\ NoThread \notin Replicas \X Nat

VARIABLES
    now,        \* Date.now(), one clock shared by all replicas
    run,        \* AutomationRunTable, one row per run
    events,     \* AutomationRunEventTable, as [run, attempt, seq] records
    tasks,      \* cloudExecutions of every replica, with each task's position
    tick,       \* where each replica's scheduler cycle is
    up,         \* replicas that have not crashed
    runner,     \* each desktop runner's `active` assignment
    cancelling, \* each session's requestCancellation between read and write
    submitted   \* HISTORY: <<run, native thread>> pairs a turn was sent to

vars == <<now, run, events, tasks, tick, up, runner, cancelling, submitted>>

NoTime == 0    \* a NULL timestamp; the clock starts at 1
Kinds == {"desktop", "agent", "script"}
Terminal == {"succeeded", "failed", "cancelled", "skipped"}
Statuses == {"queued", "running"} \cup Terminal
Results == {"succeeded", "failed", "cancelled"}
Errors == {"none", "lease_lost", "runner_unavailable", "model_access_lost",
           "execution_failed", "cancelled"}
Threads == Replicas \X Nat
Owners == Replicas \cup Runners

Rows == [kind : Kinds, status : Statuses, attempt : Nat,
         owner : Owners \cup {NoOwner}, expires : Nat, deadline : Nat,
         cancel : BOOLEAN, seq : Nat, error : Errors,
         receipt : Threads \cup {NoThread}]

TaskPhases == {"claiming", "checking", "starting", "created", "admitted",
               "waiting", "scripting", "reporting", "completing"}
Tasks == [replica : Replicas, run : Runs, attempt : Nat, phase : TaskPhases,
          thread : Threads \cup {NoThread}, aborted : BOOLEAN, seq : Nat,
          result : Results \cup {"none"}]

Snapshots == [run : Runs, owner : Owners, attempt : Nat, seq : Nat]
CyclePhases == {"idle", "recover", "expire"}
Cycles == [phase : CyclePhases, now : Nat, rows : SUBSET Snapshots, missed : SUBSET Runs]
IdleCycle == [phase |-> "idle", now |-> NoTime, rows |-> {}, missed |-> {}]

RunnerPhases == {"idle", "checking", "running", "terminal", "completing"}
Assignments == [run : Runs \cup {NoRun}, attempt : Nat, phase : RunnerPhases,
                seq : Nat, aborted : BOOLEAN, result : Results \cup {"none"}]
IdleRunner == [run |-> NoRun, attempt |-> 0, phase |-> "idle", seq |-> 0,
               aborted |-> FALSE, result |-> "none"]
NoRequest == [run |-> NoRun, status |-> "queued"]

TypeOK ==
    /\ now \in Nat \ {0}
    /\ run \in [Runs -> Rows]
    /\ events \subseteq [run : Runs, attempt : Nat, seq : Nat]
    /\ tasks \subseteq Tasks
    /\ tick \in [Replicas -> Cycles]
    /\ up \subseteq Replicas
    /\ runner \in [Runners -> Assignments]
    /\ cancelling \in [Sessions -> [run : Runs \cup {NoRun}, status : Statuses]]
    /\ submitted \subseteq Runs \X Threads

(***************************************************************************)
(* A row as `claim` inserts it: queued, with a deadline for a desktop to   *)
(* claim it, or skipped because another run of its Automation is active.   *)
(***************************************************************************)
NewRow(kind, first, t) ==
    [kind |-> kind, status |-> first, attempt |-> 0, owner |-> NoOwner,
     expires |-> NoTime,
     deadline |-> IF first = "queued" THEN t + ClaimWindow ELSE NoTime,
     cancel |-> FALSE, seq |-> 0, error |-> "none", receipt |-> NoThread]

Init ==
    /\ now = 1
    /\ \E kind \in [Runs -> Kinds], first \in [Runs -> {"queued", "skipped"}] :
        run = [r \in Runs |-> NewRow(kind[r], first[r], 1)]
    /\ events = {}
    /\ tasks = {}
    /\ tick = [p \in Replicas |-> IdleCycle]
    /\ up = Replicas
    /\ runner = [u \in Runners |-> IdleRunner]
    /\ cancelling = [s \in Sessions |-> NoRequest]
    /\ submitted = {}

Tick ==
    /\ now < MaxTime
    /\ now' = now + 1
    /\ UNCHANGED <<run, events, tasks, tick, up, runner, cancelling, submitted>>

-----------------------------------------------------------------------------
(* Guards and row updates the handlers share.                              *)

\* SQL comparisons with NULL are false: a NULL lease is neither valid nor expired.
LeaseValid(r, owner) ==
    /\ run[r].owner = owner
    /\ run[r].status = "running"
    /\ run[r].expires > now

LeaseExpired(r, t) ==
    /\ run[r].status = "running"
    /\ run[r].expires # NoTime
    /\ run[r].expires < t

Leased(row, owner) ==
    [row EXCEPT !.status = "running", !.owner = owner,
                !.expires = now + LeaseTime, !.attempt = @ + 1]

Renewed(row) == [row EXCEPT !.expires = now + LeaseTime]

Event(r, attempt, seq) == [run |-> r, attempt |-> attempt, seq |-> seq]

\* appendClaimedEvent: accepted when already stored, or next in sequence.
AppendAllowed(r, owner, attempt, seq) ==
    /\ LeaseValid(r, owner)
    /\ run[r].attempt = attempt
    /\ Event(r, attempt, seq) \in events \/ seq = run[r].seq + 1

AppendRow(r, attempt, seq) ==
    IF Event(r, attempt, seq) \in events THEN run[r] ELSE [run[r] EXCEPT !.seq = seq]

\* Mutant of CompleteAllowed: any running row may be completed.
CompleteRunning(r, owner) == run[r].status = "running"

\* complete: a terminal row is left alone (an equal result is acknowledged, a
\* different one is a conflict); otherwise the lease must be valid.
CompleteAllowed(r, owner) == LeaseValid(r, owner)

\* Mutant of ResultError: the executor's result is stored as the error code.
ResultErrorVerbatim(result) == result

ResultError(result) ==
    CASE result = "succeeded" -> "none"
      [] result = "failed" -> "execution_failed"
      [] result = "cancelled" -> "cancelled"

Completed(row, result) ==
    [row EXCEPT !.status = result, !.expires = NoTime, !.error = ResultError(result)]

\* Mutant of Skipped: the reason is recorded and the status forgotten.
SkippedReasonOnly(row, error) == [row EXCEPT !.error = error]

Skipped(row, error) == [row EXCEPT !.status = "skipped", !.error = error]

\* skipRun, which asks for no lease: the owner's access is gone.
Refused(row) ==
    [Skipped(row, "model_access_lost") EXCEPT !.owner = NoOwner, !.expires = NoTime]

SkipAllowed(r) == run[r].status \in {"queued", "running"}

-----------------------------------------------------------------------------
(* The owner cancels.  requestCancellation reads the row, then updates it  *)
(* by id alone, writing back the status it read unless that was queued.    *)

CancelRead(s, r) ==
    /\ r \in Cancellable
    /\ cancelling[s].run = NoRun
    /\ cancelling' = [cancelling EXCEPT ![s] = [run |-> r, status |-> run[r].status]]
    /\ UNCHANGED <<now, run, events, tasks, tick, up, runner, submitted>>

\* Mutant of CancelledRow: the status that was read is written back as it is.
CancelledRowStale(row, status) == [row EXCEPT !.cancel = TRUE, !.status = status]

CancelledRow(row, status) ==
    [row EXCEPT !.cancel = TRUE,
                !.status = IF status = "queued" THEN "cancelled" ELSE status]

CancelWrite(s) ==
    /\ cancelling[s].run # NoRun
    /\ run' = [run EXCEPT ![cancelling[s].run] = CancelledRow(@, cancelling[s].status)]
    /\ cancelling' = [cancelling EXCEPT ![s] = NoRequest]
    /\ UNCHANGED <<now, events, tasks, tick, up, runner, submitted>>

-----------------------------------------------------------------------------
(* The scheduler cycle of a replica: recoverExpiredLeases and then         *)
(* expireUnclaimedDesktop, each a SELECT whose rows are then updated one   *)
(* by one, both with the time the cycle started.  What follows in `tick`   *)
(* starts Cloud runs (StartCloudRun) and creates other runs.               *)

\* Mutant of ExpiredRows: a run in its last attempt is not looked at.
RetryableRows(t) ==
    {[run |-> r, owner |-> run[r].owner, attempt |-> run[r].attempt, seq |-> run[r].seq] :
        r \in {q \in Runs : LeaseExpired(q, t) /\ run[q].attempt < AUTOMATION_MAXIMUM_ATTEMPTS}}

ExpiredRows(t) ==
    {[run |-> r, owner |-> run[r].owner, attempt |-> run[r].attempt, seq |-> run[r].seq] :
        r \in {q \in Runs : LeaseExpired(q, t) /\ run[q].owner # NoOwner}}

Unclaimed(r, t) ==
    /\ run[r].status = "queued"
    /\ run[r].kind = "desktop"
    /\ run[r].deadline <= t

ExpireCycle(t) ==
    LET missed == {r \in Runs : Unclaimed(r, t)}
    IN IF missed = {} THEN IdleCycle
       ELSE [phase |-> "expire", now |-> t, rows |-> {}, missed |-> missed]

\* When the first SELECT is empty the second one is taken with it: its rows depend
\* on nothing in between that a cycle started a little later would not see.
TickStart(p) ==
    /\ p \in up
    /\ tick[p].phase = "idle"
    /\ tick' = [tick EXCEPT ![p] =
                    IF ExpiredRows(now) = {} THEN ExpireCycle(now)
                    ELSE [phase |-> "recover", now |-> now, rows |-> ExpiredRows(now),
                          missed |-> {}]]
    /\ UNCHANGED <<now, run, events, tasks, up, runner, cancelling, submitted>>

\* Mutants of RecoverMatches: the owner alone is compared; a NULL lease counts as
\* one that expired long ago.
RecoverMatchesOwner(p, row) == run[row.run].owner = row.owner
RecoverMatchesNull(p, row) ==
    run[row.run].owner = row.owner /\ run[row.run].expires < tick[p].now

RecoverMatches(p, row) ==
    /\ run[row.run].owner = row.owner
    /\ run[row.run].expires # NoTime
    /\ run[row.run].expires < tick[p].now

\* Mutants of RecoveredRow: one attempt too many; the next attempt continues the
\* event sequence of the lost one.
RecoveredRowOnceMore(row, attempt, seq) ==
    [row EXCEPT !.status = IF attempt <= AUTOMATION_MAXIMUM_ATTEMPTS
                           THEN "queued" ELSE "failed",
                !.owner = NoOwner, !.expires = NoTime, !.seq = 0]
RecoveredRowKeepsSeq(row, attempt, seq) ==
    [row EXCEPT !.status = IF attempt < AUTOMATION_MAXIMUM_ATTEMPTS
                           THEN "queued" ELSE "failed",
                !.owner = NoOwner, !.expires = NoTime]

RecoveredRow(row, attempt, seq) ==
    IF attempt < AUTOMATION_MAXIMUM_ATTEMPTS
    THEN [row EXCEPT !.status = "queued", !.owner = NoOwner, !.expires = NoTime,
                     !.seq = 0, !.error = "none"]
    ELSE [row EXCEPT !.status = "failed", !.owner = NoOwner, !.expires = NoTime,
                     !.seq = seq, !.error = "lease_lost"]

RecoverRow(p) ==
    /\ p \in up
    /\ tick[p].phase = "recover"
    /\ \E row \in tick[p].rows :
        /\ run' = IF RecoverMatches(p, row)
                  THEN [run EXCEPT ![row.run] = RecoveredRow(@, row.attempt, row.seq)]
                  ELSE run
        /\ tick' = [tick EXCEPT ![p].rows = @ \ {row}]
    /\ UNCHANGED <<now, events, tasks, up, runner, cancelling, submitted>>

SelectUnclaimed(p) ==
    /\ p \in up
    /\ tick[p].phase = "recover"
    /\ tick[p].rows = {}
    /\ tick' = [tick EXCEPT ![p] = ExpireCycle(tick[p].now)]
    /\ UNCHANGED <<now, run, events, tasks, up, runner, cancelling, submitted>>

Handled(cycle, r) ==
    IF cycle.missed = {r} THEN IdleCycle ELSE [cycle EXCEPT !.missed = @ \ {r}]

\* The update repeats the status test of the select, and no other.
ExpireUnclaimedDesktop(p) ==
    /\ p \in up
    /\ tick[p].phase = "expire"
    /\ \E r \in tick[p].missed :
        /\ run' = IF run[r].status = "queued"
                  THEN [run EXCEPT ![r] = Skipped(@, "runner_unavailable")]
                  ELSE run
        /\ tick' = [tick EXCEPT ![p] = Handled(@, r)]
    /\ UNCHANGED <<now, events, tasks, up, runner, cancelling, submitted>>

\* The cycle that created the run had found the owner's access gone, and skips
\* the run in a later statement: somebody may have started it in between.
RefuseRun(r) ==
    /\ SkipAllowed(r)
    /\ run' = [run EXCEPT ![r] = Refused(@)]
    /\ UNCHANGED <<now, events, tasks, tick, up, runner, cancelling, submitted>>

\* The process dies with its cycle and its tasks; another replica survives.
Crash(p) ==
    /\ p \in up
    /\ up # {p}
    /\ up' = up \ {p}
    /\ tasks' = {t \in tasks : t.replica # p}
    /\ tick' = [tick EXCEPT ![p] = IdleCycle]
    /\ UNCHANGED <<now, run, events, runner, cancelling, submitted>>

-----------------------------------------------------------------------------
(* Cloud runs.  A task is executeCloudRun(runId) in one replica.           *)

TasksOf(p) == {t \in tasks : t.replica = p}

NewTask(p, r) ==
    [replica |-> p, run |-> r, attempt |-> 0, phase |-> "claiming",
     thread |-> NoThread, aborted |-> FALSE, seq |-> 0, result |-> "none"]

Become(t, next) == tasks' = (tasks \ {t}) \cup {next}
Leave(t) == tasks' = tasks \ {t}

\* startCloudRun, from the queued list of a cycle or right after a claim: one
\* execution per run in the cloudExecutions map, at most MaxConcurrency in all.
StartCloudRun(p, r) ==
    /\ p \in up
    /\ run[r].kind # "desktop"
    /\ run[r].status = "queued"
    /\ \A t \in TasksOf(p) : t.run # r
    /\ Cardinality(TasksOf(p)) < MaxConcurrency
    /\ tasks' = tasks \cup {NewTask(p, r)}
    /\ UNCHANGED <<now, run, events, tick, up, runner, cancelling, submitted>>

RunningCloud == {r \in Runs : run[r].kind # "desktop" /\ run[r].status = "running"}

\* Mutant of CloudAdmits: the local limit of startCloudRun is relied on.
CloudAdmitsQueued(r) == run[r].status = "queued"

CloudAdmits(r) ==
    /\ Cardinality(RunningCloud) < MaxConcurrency
    /\ run[r].status = "queued"

ClaimCloud(t) ==
    /\ t.phase = "claiming"
    /\ \/ /\ CloudAdmits(t.run)
          /\ run' = [run EXCEPT ![t.run] = Leased(@, t.replica)]
          /\ Become(t, [t EXCEPT !.attempt = run[t.run].attempt + 1,
                                 !.phase = IF run[t.run].kind = "agent"
                                           THEN "checking" ELSE "scripting"])
       \/ /\ ~CloudAdmits(t.run)
          /\ Leave(t)
          /\ UNCHANGED run
    /\ UNCHANGED <<now, events, tick, up, runner, cancelling, submitted>>

\* monitor: cloudRunState, then heartbeatCloud; any refusal aborts the task.
MonitorOk(t) ==
    /\ ~run[t.run].cancel
    /\ LeaseValid(t.run, t.replica)

\* The first monitor of executeCloudAgentRun: abort completes as cancelled, and
\* a process without an executor completes as failed before it.
CheckAgent(t) ==
    /\ t.phase = "checking"
    /\ \/ /\ MonitorOk(t)
          /\ run' = [run EXCEPT ![t.run] = Renewed(@)]
          /\ Become(t, [t EXCEPT !.phase = "starting"])
       \/ /\ ~MonitorOk(t)
          /\ Become(t, [t EXCEPT !.phase = "completing", !.result = "cancelled"])
          /\ UNCHANGED run
       \/ /\ Become(t, [t EXCEPT !.phase = "completing", !.result = "failed"])
          /\ UNCHANGED run
    /\ UNCHANGED <<now, events, tick, up, runner, cancelling, submitted>>

Executing == {"starting", "created", "admitted", "waiting"}

\* The interval monitor while the executor runs.
Monitor(t) ==
    /\ t.phase \in Executing
    /\ ~t.aborted
    /\ \/ /\ MonitorOk(t)
          /\ run' = [run EXCEPT ![t.run] = Renewed(@)]
          /\ UNCHANGED tasks
       \/ /\ ~MonitorOk(t)
          /\ Become(t, [t EXCEPT !.aborted = TRUE])
          /\ UNCHANGED run
    /\ UNCHANGED <<now, events, tick, up, runner, cancelling, submitted>>

\* cloudRunState's receipt (NULL unless the row is running), then either the
\* native thread of an earlier attempt or a thread of this one.
ReadReceipt(t) ==
    /\ t.phase = "starting"
    /\ ~t.aborted
    /\ LET previous == IF run[t.run].status = "running"
                       THEN run[t.run].receipt ELSE NoThread
       IN IF previous = NoThread
          THEN Become(t, [t EXCEPT !.phase = "created",
                                   !.thread = <<t.replica, t.attempt>>])
          ELSE Become(t, [t EXCEPT !.phase = "admitted", !.thread = previous])
    /\ UNCHANGED <<now, run, events, tick, up, runner, cancelling, submitted>>

\* onAdmitted: the receipt is stored under the owner's name before the turn is
\* sent; a refusal makes the executor fail.
AdmitRunning(t) == run[t.run].status = "running"    \* mutant: by anybody

AdmitAllowed(t) ==
    /\ run[t.run].owner = t.replica
    /\ run[t.run].status = "running"

SetCloudExecution(t) ==
    /\ t.phase = "created"
    /\ \/ /\ AdmitAllowed(t)
          /\ run' = [run EXCEPT ![t.run].receipt = t.thread]
          /\ Become(t, [t EXCEPT !.phase = "admitted"])
       \/ /\ ~AdmitAllowed(t)
          /\ Become(t, [t EXCEPT !.phase = "reporting", !.result = "failed",
                                 !.thread = NoThread])
          /\ UNCHANGED run
    /\ UNCHANGED <<now, events, tick, up, runner, cancelling, submitted>>

\* sendTurn: external, the worker's engine accepts the deterministic message.
SendTurn(t) ==
    /\ t.phase = "admitted"
    /\ ~t.aborted
    /\ submitted' = submitted \cup {<<t.run, t.thread>>}
    /\ Become(t, [t EXCEPT !.phase = "waiting"])
    /\ UNCHANGED <<now, run, events, tick, up, runner, cancelling>>

\* The executor returns: a settled thread succeeds or fails, and every earlier
\* step may fail; under an aborted signal it fails or reports cancelled.  The
\* thread is not used again.
FinishAgent(t) ==
    /\ t.phase \in Executing
    /\ \E result \in Results :
        /\ result = "succeeded" => t.phase = "waiting"
        /\ result = "cancelled" => t.aborted
        /\ Become(t, [t EXCEPT !.phase = "reporting", !.result = result,
                               !.thread = NoThread])
    /\ UNCHANGED <<now, run, events, tick, up, runner, cancelling, submitted>>

\* One turn of the event loop: monitor, then appendCloudEvent.  The monitor
\* returns at once when an interval check is still under way, which only the
\* first turn can meet.  An aborted signal or a refused event throws and leaves
\* the run to its lease.
ReportAllowed(t) ==
    /\ ~t.aborted
    /\ AppendAllowed(t.run, t.replica, t.attempt, t.seq + 1)

Reported(t) ==
    /\ events' = events \cup {Event(t.run, t.attempt, t.seq + 1)}
    /\ Become(t, [t EXCEPT !.seq = @ + 1,
                           !.phase = IF t.seq + 1 = EventCount
                                     THEN "completing" ELSE "reporting"])

ReportEvent(t) ==
    /\ t.phase = "reporting"
    /\ \/ /\ ReportAllowed(t)
          /\ MonitorOk(t)
          /\ run' = [run EXCEPT ![t.run] = Renewed(AppendRow(t.run, t.attempt, t.seq + 1))]
          /\ Reported(t)
       \/ /\ ReportAllowed(t)
          /\ t.seq = 0
          /\ run' = [run EXCEPT ![t.run] = AppendRow(t.run, t.attempt, t.seq + 1)]
          /\ Reported(t)
       \/ /\ ~(ReportAllowed(t) /\ MonitorOk(t))
          /\ Leave(t)
          /\ UNCHANGED <<run, events>>
    /\ UNCHANGED <<now, tick, up, runner, cancelling, submitted>>

\* The saved-script executor returns.  It is never monitored.
FinishScript(t) ==
    /\ t.phase = "scripting"
    /\ \E result \in {"succeeded", "failed"} :
        Become(t, [t EXCEPT !.phase = "completing", !.result = result])
    /\ UNCHANGED <<now, run, events, tick, up, runner, cancelling, submitted>>

\* completeCloud passes no attempt: the owner alone identifies the execution.
CompleteCloud(t) ==
    /\ t.phase = "completing"
    /\ run' = IF CompleteAllowed(t.run, t.replica)
              THEN [run EXCEPT ![t.run] = Completed(@, t.result)] ELSE run
    /\ Leave(t)
    /\ UNCHANGED <<now, events, tick, up, runner, cancelling, submitted>>

-----------------------------------------------------------------------------
(* Desktop runs.  A runner works on one assignment at a time.              *)

Assign(u, a) == runner' = [runner EXCEPT ![u] = a]

\* claimDesktop: the caller's own running run is handed out again; otherwise a
\* queued desktop run before its deadline.
Held(u, r) == run[r].owner = u /\ run[r].status = "running"

\* Mutant of Claimable: the deadline alone decides.
ClaimableBeforeDeadline(r) == run[r].kind = "desktop" /\ run[r].deadline > now

Claimable(r) ==
    /\ run[r].kind = "desktop"
    /\ run[r].status = "queued"
    /\ run[r].deadline > now

Assignment(r, attempt) ==
    [run |-> r, attempt |-> attempt, phase |-> "checking", seq |-> 0,
     aborted |-> FALSE, result |-> "none"]

ClaimDesktop(u, r) ==
    /\ runner[u].phase = "idle"
    /\ \/ /\ Held(u, r)
          /\ run[r].expires # NoTime
          /\ Assign(u, Assignment(r, run[r].attempt))
          /\ UNCHANGED run
       \/ /\ ~Held(u, r)
          /\ Claimable(r)
          /\ run' = [run EXCEPT ![r] = Leased(@, u)]
          /\ Assign(u, Assignment(r, run[r].attempt + 1))
    /\ UNCHANGED <<now, events, tasks, tick, up, cancelling, submitted>>

\* The access check of claimDesktopRunner passes and the assignment is sent.
DeliverAssignment(u) ==
    /\ runner[u].phase = "checking"
    /\ Assign(u, [runner[u] EXCEPT !.phase = "running"])
    /\ UNCHANGED <<now, run, events, tasks, tick, up, cancelling, submitted>>

\* ... or it fails and skipRun, which asks for no lease, ends the run.
SkipRun(u) ==
    /\ runner[u].phase = "checking"
    /\ LET r == runner[u].run
       IN run' = IF SkipAllowed(r) THEN [run EXCEPT ![r] = Refused(@)] ELSE run
    /\ Assign(u, IdleRunner)
    /\ UNCHANGED <<now, events, tasks, tick, up, cancelling, submitted>>

HeartbeatAllowed(u) ==
    /\ LeaseValid(runner[u].run, u)
    /\ run[runner[u].run].attempt = runner[u].attempt

HeartbeatDesktop(u) ==
    /\ runner[u].phase = "running"
    /\ ~runner[u].aborted
    /\ run' = IF HeartbeatAllowed(u)
              THEN [run EXCEPT ![runner[u].run] = Renewed(@)] ELSE run
    /\ IF HeartbeatAllowed(u) /\ ~run[runner[u].run].cancel
       THEN UNCHANGED runner
       ELSE Assign(u, [runner[u] EXCEPT !.aborted = TRUE])
    /\ UNCHANGED <<now, events, tasks, tick, up, cancelling, submitted>>

EventAllowed(u) ==
    AppendAllowed(runner[u].run, u, runner[u].attempt, runner[u].seq + 1)

Appended(u) ==
    /\ EventAllowed(u)
    /\ run' = [run EXCEPT ![runner[u].run] =
                   AppendRow(runner[u].run, runner[u].attempt, runner[u].seq + 1)]
    /\ events' = events \cup {Event(runner[u].run, runner[u].attempt, runner[u].seq + 1)}

\* A progress event.  The local counter moves before the request is answered;
\* a refusal, a lost request or a lost answer fails the execution.
PostEvent(u) ==
    /\ runner[u].phase = "running"
    /\ runner[u].seq + 1 < EventCount
    /\ \/ /\ Appended(u)
          /\ Assign(u, [runner[u] EXCEPT !.seq = @ + 1])
       \/ /\ Appended(u) \/ UNCHANGED <<run, events>>
          /\ Assign(u, [runner[u] EXCEPT !.seq = @ + 1, !.phase = "terminal",
                                         !.result = "failed"])
    /\ UNCHANGED <<now, tasks, tick, up, cancelling, submitted>>

\* The local thread settles, fails, or is aborted.
FinishDesktop(u) ==
    /\ runner[u].phase = "running"
    /\ \E result \in Results :
        /\ result = "succeeded" => runner[u].seq + 1 = EventCount
        /\ result = "cancelled" => runner[u].aborted
        /\ Assign(u, [runner[u] EXCEPT !.phase = "terminal", !.result = result])
    /\ UNCHANGED <<now, run, events, tasks, tick, up, cancelling, submitted>>

\* The terminal event goes first; if it fails, complete is never sent.
PostTerminal(u) ==
    /\ runner[u].phase = "terminal"
    /\ \/ /\ Appended(u)
          /\ Assign(u, [runner[u] EXCEPT !.seq = @ + 1, !.phase = "completing"])
       \/ /\ Appended(u) \/ UNCHANGED <<run, events>>
          /\ Assign(u, IdleRunner)
    /\ UNCHANGED <<now, tasks, tick, up, cancelling, submitted>>

\* completeDesktopRunner checks the attempt as well as the owner.
CompleteDesktop(u) ==
    /\ runner[u].phase = "completing"
    /\ LET r == runner[u].run
       IN run' = IF CompleteAllowed(r, u) /\ run[r].attempt = runner[u].attempt
                 THEN [run EXCEPT ![r] = Completed(@, runner[u].result)] ELSE run
    /\ Assign(u, IdleRunner)
    /\ UNCHANGED <<now, events, tasks, tick, up, cancelling, submitted>>

\* The desktop quits, or a response is lost: the assignment is forgotten.
RunnerLost(u) ==
    /\ runner[u].phase # "idle"
    /\ Assign(u, IdleRunner)
    /\ UNCHANGED <<now, run, events, tasks, tick, up, cancelling, submitted>>

-----------------------------------------------------------------------------
OwnerStep(s) == CancelWrite(s) \/ \E r \in Runs : CancelRead(s, r)

CycleStep(p) ==
    TickStart(p) \/ RecoverRow(p) \/ SelectUnclaimed(p) \/ ExpireUnclaimedDesktop(p)

TaskStep(t) ==
    \/ ClaimCloud(t) \/ CheckAgent(t) \/ ReadReceipt(t) \/ SetCloudExecution(t)
    \/ SendTurn(t) \/ FinishAgent(t) \/ ReportEvent(t) \/ FinishScript(t)
    \/ CompleteCloud(t)

RunnerStep(u) ==
    \/ \E r \in Runs : ClaimDesktop(u, r)
    \/ DeliverAssignment(u) \/ SkipRun(u) \/ HeartbeatDesktop(u) \/ PostEvent(u)
    \/ FinishDesktop(u) \/ PostTerminal(u) \/ CompleteDesktop(u) \/ RunnerLost(u)

Next ==
    \/ Tick
    \/ \E s \in Sessions : OwnerStep(s)
    \/ \E r \in Runs : RefuseRun(r)
    \/ \E p \in Replicas : CycleStep(p) \/ Crash(p) \/ \E r \in Runs : StartCloudRun(p, r)
    \/ \E t \in tasks : TaskStep(t) \/ Monitor(t)
    \/ \E u \in Runners : RunnerStep(u)

Spec == Init /\ [][Next]_vars

\* The scheduler loop of a live replica keeps cycling (scheduler-loop.ts sets
\* the next timer in `finally`); nothing else is assumed to happen.
Fairness == \A p \in Replicas : WF_vars(CycleStep(p))
FairSpec == Spec /\ Fairness

-----------------------------------------------------------------------------
(* Properties.                                                             *)

\* A run is executed at most AUTOMATION_MAXIMUM_ATTEMPTS times, although
\* recovery decides on a snapshot, neither claim looks at the count, and
\* several replicas recover and claim the same row.
AttemptBound ==
    \A r \in Runs : run[r].attempt <= AUTOMATION_MAXIMUM_ATTEMPTS

\* The result a Cloud task records is that of the run's latest attempt: an
\* execution whose lease was recovered and handed on cannot complete the run
\* for its successor, although completeCloud sends no attempt number.
ResultByLatestAttempt ==
    [][\A t \in tasks :
        (/\ t.phase = "completing"
         /\ t \notin tasks'
         /\ run'[t.run].status # run[t.run].status)
            => t.attempt = run[t.run].attempt]_vars

\* Without a cancellation request a finished run stays as it finished: no late
\* heartbeat, recovery, skip or second result changes its status.
UncancelledTerminalIsFinal ==
    [][\A r \in Runs :
        run[r].status \in Terminal /\ ~run'[r].cancel
            => run'[r].status = run[r].status]_vars

\* Recovery never submits the same agent work twice: all the attempts of a run
\* nobody asked to cancel send its turn to one native thread, whichever replica
\* executes them.  Two stale writes of requestCancellation can take a row out of
\* "running" and back while an executor reads its receipt, which then looks NULL.
TurnSentToOneThread ==
    \A pair, other \in submitted :
        pair[1] = other[1] /\ ~run[pair[1]].cancel => pair = other

\* While an execution owns a run the stored events of its attempt are exactly
\* 1..engine_sequence: nothing skipped, nothing left over from another attempt.
EventsFollowCursor ==
    \A r \in Runs :
        run[r].status = "running" /\ run[r].owner # NoOwner =>
            {e.seq : e \in {f \in events : f.run = r /\ f.attempt = run[r].attempt}}
                = 1..run[r].seq

\* Replicas together run no more Cloud runs than the limit, which each of them also
\* applies to its own executions alone: neither a recovered run nor one whose
\* executor still works under a lost lease is counted twice or not at all.  A row
\* that a late cancellation made "running" again is left out.
RunningWithinLimit ==
    Cardinality({r \in RunningCloud : ~run[r].cancel}) <= MaxConcurrency

\* An expired lease is eventually taken back by some replica's cycle, so a
\* crashed executor does not leave its run "running" for ever.
ExpiredLeaseIsRecovered ==
    \A r \in Runs : LeaseExpired(r, now) ~> ~LeaseExpired(r, now)

\* A desktop run nobody claims in time is eventually settled as missed.
UnclaimedIsSettled ==
    \A r \in Runs : Unclaimed(r, now) ~> run[r].status # "queued"

\* The run rows go through the abstract lifecycle and through nothing else: each
\* step of a handler is one lifecycle step of one run, or none.
Lifecycle == INSTANCE RunLifecycle WITH
    MaximumAttempts <- AUTOMATION_MAXIMUM_ATTEMPTS,
    status <- [r \in Runs |-> run[r].status],
    attempt <- [r \in Runs |-> run[r].attempt],
    cancel <- [r \in Runs |-> run[r].cancel]

ImplementsLifecycle == Lifecycle!LifecycleSpec

\* repository.ts (complete) refuses to replace the result of a finished run, as
\* automation_run_terminal_result_conflict; state.ts calls such a run terminal.  A
\* run that succeeded or failed is never taken out of the terminal statuses.
\* requestCancellation does it: the owner's request reads "running", the run is
\* completed, and the write puts it back to "running", with its lease gone.
CompletedIsFinal ==
    [][\A r \in Runs :
        run[r].status \in {"succeeded", "failed"} => run'[r].status \in Terminal]_vars

=============================================================================
