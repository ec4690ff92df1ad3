------------------------ MODULE AutomationRunsProofs ------------------------
(***************************************************************************)
(* Theorems about AutomationRuns, for every number of runs, replicas,      *)
(* runners and sessions and every value of the time constants.             *)
(*                                                                         *)
(* Every action leaves the run rows alone or replaces one of them.  The    *)
(* lemmas below show that each way of replacing a row is a RowStep, given  *)
(* the inductive invariant; the theorems follow from RowStep alone.        *)
(***************************************************************************)
EXTENDS AutomationRuns, TLAPS

(***************************************************************************)
(* The inductive invariant.  A queued run still has an attempt left and no *)
(* lease, and a run that ended without a cancellation has no lease either; *)
(* a lease that looks expired to a cycle under way is still the lease the  *)
(* cycle selected, because every later one ends after the cycle began.     *)
(***************************************************************************)
RowOK(row) ==
    /\ row.attempt <= AUTOMATION_MAXIMUM_ATTEMPTS
    /\ row.status = "queued" =>
        row.attempt < AUTOMATION_MAXIMUM_ATTEMPTS /\ row.expires = NoTime
    /\ row.status \in Terminal /\ ~row.cancel => row.expires = NoTime

RowsOK == \A r \in Runs : RowOK(run[r])

SelectedLease(p, row) ==
    run[row.run].expires # NoTime /\ run[row.run].expires < tick[p].now
        => run[row.run].attempt = row.attempt

SnapshotsOK ==
    \A p \in Replicas :
        /\ tick[p].now <= now
        /\ \A row \in tick[p].rows : SelectedLease(p, row)

\* A task or an assignment holds what its next step reads: a thread before the
\* turn is sent, a run while it is busy, a result before it is reported.
SoundTasks ==
    {t \in Tasks : /\ t.phase \in {"created", "admitted"} => t.thread \in Threads
                   /\ t.phase \in {"reporting", "completing"} => t.result \in Results}

SoundAssignments ==
    {a \in Assignments : /\ a.phase # "idle" => a.run \in Runs
                         /\ a.phase \in {"terminal", "completing"} => a.result \in Results}

LocalTypes ==
    /\ now \in Nat \ {0}
    /\ events \subseteq [run : Runs, attempt : Nat, seq : Nat]
    /\ tasks \subseteq SoundTasks
    /\ tick \in [Replicas -> Cycles]
    /\ up \subseteq Replicas
    /\ runner \in [Runners -> SoundAssignments]
    /\ cancelling \in [Sessions -> [run : Runs \cup {NoRun}, status : Statuses]]
    /\ submitted \subseteq Runs \X Threads

IInv ==
    /\ LocalTypes
    /\ run \in [Runs -> Rows]
    /\ RowsOK
    /\ SnapshotsOK

\* What one step may do to the lifecycle columns of one row.
LifeStep(old, new) ==
    \/ /\ new.status = old.status
       /\ new.attempt = old.attempt
       /\ new.cancel = old.cancel
    \/ /\ old.status = "queued"
       /\ old.attempt < AUTOMATION_MAXIMUM_ATTEMPTS
       /\ new.status = "running"
       /\ new.attempt = old.attempt + 1
       /\ new.cancel = old.cancel
    \/ /\ old.status = "running"
       /\ old.attempt < AUTOMATION_MAXIMUM_ATTEMPTS
       /\ new.status = "queued"
       /\ new.attempt = old.attempt
       /\ new.cancel = old.cancel
    \/ /\ old.status \in {"queued", "running"}
       /\ new.status \in Terminal
       /\ new.attempt = old.attempt
       /\ new.cancel = old.cancel
    \/ /\ new.status \in {"running"} \cup Terminal
       /\ new.attempt = old.attempt
       /\ new.cancel = TRUE
    \/ /\ old.cancel
       /\ old.status \in Terminal
       /\ \/ new.status = "failed"
          \/ new.status = "queued" /\ old.attempt < AUTOMATION_MAXIMUM_ATTEMPTS
       /\ new.attempt = old.attempt
       /\ new.cancel = old.cancel

\* What one step may do to one row.
RowStep(old, new) ==
    /\ new \in Rows
    /\ RowOK(new)
    /\ \/ new.expires = NoTime
       \/ new.expires > now
       \/ new.expires = old.expires /\ new.attempt = old.attempt
    /\ old.status \in Terminal /\ ~new.cancel => new.status = old.status
    /\ LifeStep(old, new)

-----------------------------------------------------------------------------
(* The row updates.                                                        *)

\* Taking a lease on a queued row (claimCloud, claimDesktop).
LEMMA LeasedStep ==
    ASSUME now \in Nat, NEW row \in Rows, NEW owner \in Owners,
           RowOK(row), row.status = "queued"
    PROVE  RowStep(row, Leased(row, owner))
  <1> DEFINE new == Leased(row, owner)
  <1>1. /\ new.status = "running"
        /\ new.attempt = row.attempt + 1
        /\ new.expires = now + LeaseTime
        /\ new.cancel = row.cancel
    BY DEF Leased, Rows
  <1>2. row.attempt \in Nat /\ row.attempt < AUTOMATION_MAXIMUM_ATTEMPTS
    BY DEF RowOK, Rows
  <1>3. new.expires \in Nat /\ new.expires > now
    BY <1>1, ConstantsAssumption DEF ConstantsAssumption
  <1>4. new \in Rows
    <2> DEFINE taken == [row EXCEPT !.status = "running", !.owner = owner]
    <2>1. taken \in Rows
      BY DEF Rows, Statuses
    <2>2. new = [taken EXCEPT !.expires = now + LeaseTime, !.attempt = row.attempt + 1]
      BY DEF Leased, Rows
    <2>3. now + LeaseTime \in Nat /\ row.attempt + 1 \in Nat
      BY <1>2, ConstantsAssumption DEF ConstantsAssumption
    <2> HIDE DEF taken, new
    <2>4. QED
      BY <2>1, <2>2, <2>3 DEF Rows
  <1>5. RowOK(new)
    BY <1>1, <1>2 DEF RowOK, Terminal, AUTOMATION_MAXIMUM_ATTEMPTS
  <1>6. LifeStep(row, new)
    BY <1>1, <1>2 DEF LifeStep
  <1>7. QED
    BY <1>1, <1>3, <1>4, <1>5, <1>6 DEF RowStep, Terminal

\* A heartbeat on a running row.
LEMMA RenewedStep ==
    ASSUME now \in Nat, NEW row \in Rows, RowOK(row), row.status = "running"
    PROVE  RowStep(row, Renewed(row))
  BY ConstantsAssumption DEF ConstantsAssumption, RowStep, RowOK, LifeStep, Renewed, Rows, Statuses,
     Terminal, AUTOMATION_MAXIMUM_ATTEMPTS, NoTime

\* Moving the event cursor of a row.
LEMMA SequencedStep ==
    ASSUME NEW row \in Rows, RowOK(row), NEW n \in Nat
    PROVE  RowStep(row, [row EXCEPT !.seq = n])
  BY DEF RowStep, RowOK, LifeStep, Rows

\* Storing the receipt of the native thread (setCloudExecution).
LEMMA AdmittedStep ==
    ASSUME NEW row \in Rows, RowOK(row), NEW thread \in Threads
    PROVE  RowStep(row, [row EXCEPT !.receipt = thread])
  BY DEF RowStep, RowOK, LifeStep, Rows

\* Completing a running row.
LEMMA CompletedStep ==
    ASSUME NEW row \in Rows, RowOK(row), row.status = "running", NEW result \in Results
    PROVE  RowStep(row, Completed(row, result))
  <1>1. ResultError(result) \in Errors
    BY DEF ResultError, Results, Errors
  <1>2. result \in Terminal /\ result \in Statuses
    BY DEF Results, Terminal, Statuses
  <1>3. QED
    BY <1>1, <1>2 DEF RowStep, RowOK, LifeStep, Completed, Rows, Terminal, NoTime

\* Skipping a queued row as missed (expireUnclaimedDesktop).
LEMMA SkippedStep ==
    ASSUME NEW row \in Rows, RowOK(row), row.status = "queued"
    PROVE  RowStep(row, Skipped(row, "runner_unavailable"))
  BY DEF RowStep, RowOK, LifeStep, Skipped, Rows, Statuses, Terminal, Errors, NoTime

\* Refusing a queued or running row (skipRun).
LEMMA RefusedStep ==
    ASSUME NEW row \in Rows, RowOK(row), row.status \in {"queued", "running"}
    PROVE  RowStep(row, Refused(row))
  BY DEF RowStep, RowOK, LifeStep, Refused, Skipped, Rows, Statuses, Terminal, Errors,
     NoTime

\* The second statement of requestCancellation, whatever status it read.
LEMMA CancelledStep ==
    ASSUME NEW row \in Rows, RowOK(row), NEW status \in Statuses
    PROVE  RowStep(row, CancelledRow(row, status))
  BY DEF RowStep, RowOK, LifeStep, CancelledRow, Rows, Statuses, Terminal

\* Recovery of a row that holds a lease, from a snapshot with its attempt.
LEMMA RecoveredStep ==
    ASSUME NEW row \in Rows, RowOK(row), row.expires # NoTime, NEW n \in Nat
    PROVE  RowStep(row, RecoveredRow(row, row.attempt, n))
  BY DEF RowStep, RowOK, LifeStep, RecoveredRow, Rows, Statuses, Terminal, Errors,
     NoTime, AUTOMATION_MAXIMUM_ATTEMPTS

-----------------------------------------------------------------------------
(* The actions: each keeps the types of the variables other than `run` and *)
(* changes at most one row, by a RowStep.                                  *)

RunStep ==
    \/ run' = run
    \/ \E r \in Runs : \E new \in Rows :
        run' = [run EXCEPT ![r] = new] /\ RowStep(run[r], new)

\* An update of one row by a RowStep is a RunStep.
LEMMA OneRow ==
    ASSUME NEW r \in Runs, NEW new, run' = [run EXCEPT ![r] = new], RowStep(run[r], new)
    PROVE  RunStep
  BY DEF RunStep, RowStep

\* What the invariant says, for steps that need only the types.
LEMMA IInvFacts ==
    ASSUME IInv
    PROVE  /\ LocalTypes
           /\ run \in [Runs -> Rows]
           /\ now \in Nat
           /\ \A r \in Runs : run[r] \in Rows /\ RowOK(run[r])
  BY DEF IInv, LocalTypes, RowsOK

\* Owner requests.
LEMMA OwnerSteps ==
    ASSUME IInv, NEW s \in Sessions, OwnerStep(s)
    PROVE  RunStep /\ LocalTypes'
  <1> USE IInvFacts
  <1>1. CASE CancelWrite(s)
    <2> DEFINE r == cancelling[s].run
    <2>1. r \in Runs /\ cancelling[s].status \in Statuses
      BY <1>1 DEF CancelWrite, LocalTypes
    <2>2. RowStep(run[r], CancelledRow(run[r], cancelling[s].status))
      BY <2>1, CancelledStep
    <2>3. run' = [run EXCEPT ![r] = CancelledRow(run[r], cancelling[s].status)]
      BY <1>1, <2>1 DEF CancelWrite
    <2>4. RunStep
      BY <2>1, <2>2, <2>3, OneRow
    <2>5. LocalTypes'
      BY <1>1 DEF CancelWrite, LocalTypes, NoRequest, Statuses
    <2>6. QED
      BY <2>4, <2>5
  <1>2. CASE \E r \in Runs : CancelRead(s, r)
    BY <1>2 DEF CancelRead, RunStep, LocalTypes, Rows
  <1>3. QED
    BY <1>1, <1>2 DEF OwnerStep

\* The scheduler's cycle.
LEMMA CycleSteps ==
    ASSUME IInv, NEW p \in Replicas, CycleStep(p)
    PROVE  RunStep /\ LocalTypes'
  <1> USE IInvFacts
  <1>1. \A t \in Nat : ExpireCycle(t) \in Cycles
    BY DEF ExpireCycle, Cycles, CyclePhases, IdleCycle, NoTime
  <1>2. tick[p] \in Cycles
    BY DEF LocalTypes
  <1>3. CASE TickStart(p)
    <2>1. ExpiredRows(now) \in SUBSET Snapshots
      BY DEF ExpiredRows, Snapshots, Rows, Owners
    <2>2. [phase |-> "recover", now |-> now, rows |-> ExpiredRows(now), missed |-> {}]
            \in Cycles
      BY <2>1 DEF Cycles, CyclePhases
    <2>3. QED
      BY <1>1, <1>3, <2>2 DEF TickStart, RunStep, LocalTypes
  <1>4. CASE RecoverRow(p)
    <2>1. PICK row \in tick[p].rows :
            /\ run' = IF RecoverMatches(p, row)
                      THEN [run EXCEPT ![row.run] = RecoveredRow(@, row.attempt, row.seq)]
                      ELSE run
            /\ tick' = [tick EXCEPT ![p].rows = @ \ {row}]
      BY <1>4 DEF RecoverRow
    <2>2. row \in Snapshots
      BY <1>2 DEF Cycles
    <2>3. row.run \in Runs /\ row.seq \in Nat
      BY <2>2 DEF Snapshots
    <2>4. ASSUME RecoverMatches(p, row) PROVE RunStep
      <3>1. run[row.run].attempt = row.attempt /\ run[row.run].expires # NoTime
        BY <2>4 DEF RecoverMatches, IInv, SnapshotsOK, SelectedLease
      <3>2. RowStep(run[row.run], RecoveredRow(run[row.run], row.attempt, row.seq))
        BY <2>3, <3>1, RecoveredStep
      <3>3. run' = [run EXCEPT ![row.run] = RecoveredRow(run[row.run], row.attempt, row.seq)]
        BY <2>1, <2>3, <2>4
      <3>4. QED
        BY <2>3, <3>2, <3>3, OneRow
    <2>5. ASSUME ~RecoverMatches(p, row) PROVE RunStep
      BY <2>1, <2>5 DEF RunStep
    <2>6. [tick[p] EXCEPT !.rows = @ \ {row}] \in Cycles
      BY <1>2 DEF Cycles
    <2>7. LocalTypes'
      BY <1>4, <2>1, <2>6 DEF RecoverRow, LocalTypes
    <2>8. QED
      BY <2>4, <2>5, <2>7
  <1>5. CASE SelectUnclaimed(p)
    <2>1. tick[p].now \in Nat
      BY <1>2 DEF Cycles
    <2>2. QED
      BY <1>1, <1>5, <2>1 DEF SelectUnclaimed, RunStep, LocalTypes
  <1>6. CASE ExpireUnclaimedDesktop(p)
    <2>1. PICK r \in tick[p].missed :
            /\ run' = IF run[r].status = "queued"
                      THEN [run EXCEPT ![r] = Skipped(@, "runner_unavailable")]
                      ELSE run
            /\ tick' = [tick EXCEPT ![p] = Handled(@, r)]
      BY <1>6 DEF ExpireUnclaimedDesktop
    <2>2. r \in Runs
      BY <1>2 DEF Cycles
    <2>3. ASSUME run[r].status = "queued" PROVE RunStep
      <3>1. RowStep(run[r], Skipped(run[r], "runner_unavailable"))
        BY <2>2, <2>3, SkippedStep
      <3>2. run' = [run EXCEPT ![r] = Skipped(run[r], "runner_unavailable")]
        BY <2>1, <2>2, <2>3
      <3>3. QED
        BY <2>2, <3>1, <3>2, OneRow
    <2>4. ASSUME run[r].status # "queued" PROVE RunStep
      BY <2>1, <2>4 DEF RunStep
    <2>5. Handled(tick[p], r) \in Cycles
      BY <1>2 DEF Handled, Cycles, IdleCycle, CyclePhases, NoTime
    <2>6. tick' \in [Replicas -> Cycles]
      BY <2>1, <2>5 DEF LocalTypes
    <2>7. LocalTypes'
      BY <1>6, <2>6 DEF ExpireUnclaimedDesktop, LocalTypes
    <2>8. QED
      BY <2>3, <2>4, <2>7
  <1>7. QED
    BY <1>3, <1>4, <1>5, <1>6 DEF CycleStep

\* The clock, the crash of a replica, a refused run and a newly started task.
LEMMA OtherSteps ==
    ASSUME IInv,
           \/ Tick
           \/ \E r \in Runs : RefuseRun(r)
           \/ \E p \in Replicas : Crash(p) \/ \E r \in Runs : StartCloudRun(p, r)
    PROVE  RunStep /\ LocalTypes'
  <1> USE IInvFacts
  <1>1. CASE Tick
    BY <1>1 DEF Tick, RunStep, LocalTypes
  <1>2. ASSUME NEW r \in Runs, RefuseRun(r) PROVE RunStep /\ LocalTypes'
    <2>1. RowStep(run[r], Refused(run[r]))
      BY <1>2, RefusedStep DEF RefuseRun, SkipAllowed
    <2>2. run' = [run EXCEPT ![r] = Refused(run[r])]
      BY <1>2 DEF RefuseRun
    <2>3. LocalTypes'
      BY <1>2 DEF RefuseRun, LocalTypes
    <2>4. QED
      BY <2>1, <2>2, <2>3, OneRow
  <1>3. ASSUME NEW p \in Replicas, Crash(p) PROVE RunStep /\ LocalTypes'
    <2>1. IdleCycle \in Cycles
      BY DEF IdleCycle, Cycles, CyclePhases, NoTime
    <2>2. QED
      BY <1>3, <2>1 DEF Crash, RunStep, LocalTypes
  <1>4. ASSUME NEW p \in Replicas, NEW r \in Runs, StartCloudRun(p, r)
        PROVE  RunStep /\ LocalTypes'
    <2>1. NewTask(p, r) \in SoundTasks
      BY DEF NewTask, SoundTasks, Tasks, TaskPhases
    <2>2. QED
      BY <1>4, <2>1 DEF StartCloudRun, RunStep, LocalTypes
  <1>5. QED
    BY <1>1, <1>2, <1>3, <1>4

-----------------------------------------------------------------------------
(* Cloud tasks.                                                            *)

\* Replacing a task by another one, or removing it, keeps the type of `tasks`.
LEMMA BecomeType ==
    ASSUME NEW S, tasks \subseteq S, NEW t, NEW next \in S, Become(t, next)
    PROVE  tasks' \subseteq S
  BY DEF Become

\* A flow that ends adds no task.
LEMMA LeaveType ==
    ASSUME NEW S, tasks \subseteq S, NEW t, Leave(t)
    PROVE  tasks' \subseteq S
  BY DEF Leave

\* appendCloudEvent and appendDesktopEvent move the cursor or leave the row.
LEMMA AppendRowStep ==
    ASSUME IInv, NEW r \in Runs, NEW attempt \in Nat, NEW n \in Nat
    PROVE  RowStep(run[r], AppendRow(r, attempt, n))
  <1> USE IInvFacts
  <1>1. RowStep(run[r], run[r])
    BY DEF RowStep, LifeStep
  <1>2. RowStep(run[r], [run[r] EXCEPT !.seq = n])
    BY SequencedStep
  <1>3. QED
    BY <1>1, <1>2 DEF AppendRow

\* An event followed by the renewal of the lease.
LEMMA RenewedAppendStep ==
    ASSUME IInv, NEW r \in Runs, NEW attempt \in Nat, NEW n \in Nat,
           run[r].status = "running"
    PROVE  RowStep(run[r], Renewed(AppendRow(r, attempt, n)))
  <1> USE IInvFacts
  <1> DEFINE row == AppendRow(r, attempt, n)
  <1>1. row \in Rows /\ RowOK(row)
    BY AppendRowStep DEF RowStep
  <1>2. /\ row.status = "running"
        /\ row.attempt = run[r].attempt
        /\ row.cancel = run[r].cancel
    BY DEF AppendRow, Rows
  <1>3. RowStep(row, Renewed(row))
    BY <1>1, <1>2, RenewedStep
  <1>4. /\ Renewed(row).status = "running"
        /\ Renewed(row).attempt = run[r].attempt
        /\ Renewed(row).cancel = run[r].cancel
        /\ Renewed(row).expires = now + LeaseTime
    BY <1>1, <1>2 DEF Renewed, Rows
  <1>5. now + LeaseTime > now
    BY ConstantsAssumption DEF ConstantsAssumption
  <1>6. Renewed(row) \in Rows /\ RowOK(Renewed(row))
    BY <1>3 DEF RowStep
  <1>7. LifeStep(run[r], Renewed(row))
    BY <1>4 DEF LifeStep
  <1>8. "running" \notin Terminal
    BY DEF Terminal
  <1>9. QED
    BY <1>4, <1>5, <1>6, <1>7, <1>8 DEF RowStep

\* The steps of a task that has not been sent to the event loop.
LEMMA StartingSteps ==
    ASSUME IInv, NEW t \in tasks,
           ClaimCloud(t) \/ CheckAgent(t) \/ Monitor(t) \/ ReadReceipt(t)
             \/ SetCloudExecution(t) \/ SendTurn(t) \/ FinishAgent(t) \/ FinishScript(t)
    PROVE  RunStep /\ LocalTypes'
  <1> USE IInvFacts
  <1>1. t \in SoundTasks /\ t \in Tasks
    BY DEF LocalTypes, SoundTasks
  <1>2. /\ t.run \in Runs
        /\ t.replica \in Replicas
        /\ t.replica \in Owners
        /\ t.attempt \in Nat
        /\ t.thread \in Threads \cup {NoThread}
    BY <1>1 DEF Tasks, Owners
  <1>3. run[t.run] \in Rows /\ RowOK(run[t.run])
    BY <1>2
  <1>4. ASSUME MonitorOk(t), run' = [run EXCEPT ![t.run] = Renewed(@)]
        PROVE  RunStep
    <2>1. run[t.run].status = "running"
      BY <1>4 DEF MonitorOk, LeaseValid
    <2>2. RowStep(run[t.run], Renewed(run[t.run]))
      BY <1>3, <2>1, RenewedStep
    <2>3. QED
      BY <1>2, <1>4, <2>2, OneRow
  <1>5. ASSUME run' = run PROVE RunStep
    BY <1>5 DEF RunStep
  <1>6. CASE ClaimCloud(t)
    <2>1. CASE /\ CloudAdmits(t.run)
               /\ run' = [run EXCEPT ![t.run] = Leased(@, t.replica)]
               /\ Become(t, [t EXCEPT !.attempt = run[t.run].attempt + 1,
                                 !.phase = IF run[t.run].kind = "agent"
                                           THEN "checking" ELSE "scripting"])
      <3>1. RowStep(run[t.run], Leased(run[t.run], t.replica))
        BY <1>2, <1>3, <2>1, LeasedStep DEF CloudAdmits
      <3>2. RunStep
        BY <1>2, <2>1, <3>1, OneRow
      <3>3. run[t.run].attempt + 1 \in Nat
        BY <1>3 DEF Rows
      <3>4. \A a \in Nat : \A phase \in {"checking", "scripting"} :
              [t EXCEPT !.attempt = a, !.phase = phase] \in SoundTasks
        BY <1>1 DEF SoundTasks, Tasks, TaskPhases
      <3>5. tasks' \subseteq SoundTasks
        BY <2>1, <3>3, <3>4, BecomeType DEF LocalTypes
      <3>6. QED
        BY <1>6, <3>2, <3>5 DEF ClaimCloud, LocalTypes
    <2>2. CASE Leave(t) /\ UNCHANGED run
      BY <1>5, <1>6, <2>2, LeaveType DEF ClaimCloud, LocalTypes
    <2>3. QED
      BY <1>6, <2>1, <2>2 DEF ClaimCloud
  <1>7. CASE CheckAgent(t)
    <2>1. /\ [t EXCEPT !.phase = "starting"] \in SoundTasks
          /\ [t EXCEPT !.phase = "completing", !.result = "cancelled"] \in SoundTasks
          /\ [t EXCEPT !.phase = "completing", !.result = "failed"] \in SoundTasks
      BY <1>1 DEF SoundTasks, Tasks, TaskPhases, Results
    <2>2. tasks' \subseteq SoundTasks
      BY <1>7, <2>1, BecomeType DEF CheckAgent, LocalTypes
    <2>3. RunStep
      BY <1>4, <1>5, <1>7 DEF CheckAgent
    <2>4. QED
      BY <1>7, <2>2, <2>3 DEF CheckAgent, LocalTypes
  <1>8. CASE Monitor(t)
    <2>1. [t EXCEPT !.aborted = TRUE] \in SoundTasks
      BY <1>1 DEF SoundTasks, Tasks
    <2>2. tasks' \subseteq SoundTasks
      BY <1>8, <2>1, BecomeType DEF Monitor, LocalTypes
    <2>3. RunStep
      BY <1>4, <1>5, <1>8 DEF Monitor
    <2>4. QED
      BY <1>8, <2>2, <2>3 DEF Monitor, LocalTypes
  <1>9. CASE ReadReceipt(t)
    <2>1. <<t.replica, t.attempt>> \in Threads
      BY <1>2 DEF Threads
    <2>2. \A thread \in Threads : \A phase \in {"created", "admitted"} :
            [t EXCEPT !.phase = phase, !.thread = thread] \in SoundTasks
      BY <1>1 DEF SoundTasks, Tasks, TaskPhases
    <2>3. run[t.run].receipt \in Threads \cup {NoThread}
      BY <1>3 DEF Rows
    <2>4. tasks' \subseteq SoundTasks
      BY <1>9, <2>1, <2>2, <2>3, BecomeType DEF ReadReceipt, LocalTypes
    <2>5. QED
      BY <1>5, <1>9, <2>4 DEF ReadReceipt, LocalTypes
  <1>10. CASE SetCloudExecution(t)
    <2>1. t.thread \in Threads
      BY <1>1, <1>10 DEF SoundTasks, SetCloudExecution
    <2>2. RowStep(run[t.run], [run[t.run] EXCEPT !.receipt = t.thread])
      BY <1>3, <2>1, AdmittedStep
    <2>3. ASSUME run' = [run EXCEPT ![t.run].receipt = t.thread] PROVE RunStep
      BY <1>2, <2>2, <2>3, OneRow
    <2>4. RunStep
      BY <1>5, <1>10, <2>3 DEF SetCloudExecution
    <2>5. /\ [t EXCEPT !.phase = "admitted"] \in SoundTasks
          /\ [t EXCEPT !.phase = "reporting", !.result = "failed", !.thread = NoThread]
                \in SoundTasks
      BY <1>1, <2>1 DEF SoundTasks, Tasks, TaskPhases, Results
    <2>6. tasks' \subseteq SoundTasks
      BY <1>10, <2>5, BecomeType DEF SetCloudExecution, LocalTypes
    <2>7. QED
      BY <1>10, <2>4, <2>6 DEF SetCloudExecution, LocalTypes
  <1>11. CASE SendTurn(t)
    <2>1. t.thread \in Threads
      BY <1>1, <1>11 DEF SoundTasks, SendTurn
    <2>2. [t EXCEPT !.phase = "waiting"] \in SoundTasks
      BY <1>1 DEF SoundTasks, Tasks, TaskPhases
    <2>3. tasks' \subseteq SoundTasks
      BY <1>11, <2>2, BecomeType DEF SendTurn, LocalTypes
    <2>4. submitted' \subseteq Runs \X Threads
      BY <1>2, <1>11, <2>1 DEF SendTurn, LocalTypes
    <2>5. QED
      BY <1>5, <1>11, <2>3, <2>4 DEF SendTurn, LocalTypes
  <1>12. CASE FinishAgent(t)
    <2>1. \A result \in Results :
            [t EXCEPT !.phase = "reporting", !.result = result, !.thread = NoThread]
                \in SoundTasks
      BY <1>1 DEF SoundTasks, Tasks, TaskPhases
    <2>2. tasks' \subseteq SoundTasks
      BY <1>12, <2>1, BecomeType DEF FinishAgent, LocalTypes
    <2>3. QED
      BY <1>5, <1>12, <2>2 DEF FinishAgent, LocalTypes
  <1>13. CASE FinishScript(t)
    <2>1. \A result \in {"succeeded", "failed"} :
            [t EXCEPT !.phase = "completing", !.result = result] \in SoundTasks
      BY <1>1 DEF SoundTasks, Tasks, TaskPhases, Results
    <2>2. tasks' \subseteq SoundTasks
      BY <1>13, <2>1, BecomeType DEF FinishScript, LocalTypes
    <2>3. QED
      BY <1>5, <1>13, <2>2 DEF FinishScript, LocalTypes
  <1>14. QED
    BY <1>6, <1>7, <1>8, <1>9, <1>10, <1>11, <1>12, <1>13

\* Storing an event keeps the type of the event table.
LEMMA EventType ==
    ASSUME NEW r \in Runs, NEW attempt \in Nat, NEW n \in Nat
    PROVE  Event(r, attempt, n) \in [run : Runs, attempt : Nat, seq : Nat]
  BY DEF Event

\* The event loop of a task and its result.
LEMMA ReportingSteps ==
    ASSUME IInv, NEW t \in tasks, ReportEvent(t) \/ CompleteCloud(t)
    PROVE  RunStep /\ LocalTypes'
  <1> USE IInvFacts
  <1>1. t \in SoundTasks /\ t \in Tasks
    BY DEF LocalTypes, SoundTasks
  <1>2. /\ t.run \in Runs
        /\ t.attempt \in Nat
        /\ t.seq \in Nat
        /\ t.seq + 1 \in Nat
    BY <1>1 DEF Tasks
  <1>3. run[t.run] \in Rows /\ RowOK(run[t.run])
    BY <1>2
  <1>4. CASE ReportEvent(t)
    <2> DEFINE n == t.seq + 1
    <2>1. ASSUME Reported(t)
          PROVE  /\ tasks' \subseteq SoundTasks
                 /\ events' \subseteq [run : Runs, attempt : Nat, seq : Nat]
      <3>1. \A phase \in {"reporting", "completing"} :
              [t EXCEPT !.seq = t.seq + 1, !.phase = phase] \in SoundTasks
        BY <1>1, <1>2, <1>4 DEF SoundTasks, Tasks, TaskPhases, ReportEvent
      <3>2. tasks' \subseteq SoundTasks
        BY <2>1, <3>1, BecomeType DEF Reported, LocalTypes
      <3>3. QED
        BY <1>2, <2>1, <3>2, EventType DEF Reported, LocalTypes
    <2>2. CASE /\ ReportAllowed(t) /\ MonitorOk(t)
               /\ run' = [run EXCEPT ![t.run] = Renewed(AppendRow(t.run, t.attempt, t.seq + 1))]
               /\ Reported(t)
      <3>1. RowStep(run[t.run], Renewed(AppendRow(t.run, t.attempt, t.seq + 1)))
        BY <1>2, <2>2, RenewedAppendStep DEF MonitorOk, LeaseValid
      <3>2. RunStep
        BY <1>2, <2>2, <3>1, OneRow
      <3>3. QED
        BY <1>4, <2>1, <2>2, <3>2 DEF ReportEvent, LocalTypes
    <2>3. CASE /\ run' = [run EXCEPT ![t.run] = AppendRow(t.run, t.attempt, t.seq + 1)]
               /\ Reported(t)
      <3>1. RowStep(run[t.run], AppendRow(t.run, t.attempt, t.seq + 1))
        BY <1>2, AppendRowStep
      <3>2. RunStep
        BY <1>2, <2>3, <3>1, OneRow
      <3>3. QED
        BY <1>4, <2>1, <2>3, <3>2 DEF ReportEvent, LocalTypes
    <2>4. CASE Leave(t) /\ UNCHANGED <<run, events>>
      BY <1>4, <2>4, LeaveType DEF ReportEvent, LocalTypes, RunStep
    <2>5. QED
      BY <1>4, <2>2, <2>3, <2>4 DEF ReportEvent
  <1>5. CASE CompleteCloud(t)
    <2>1. ASSUME CompleteAllowed(t.run, t.replica) PROVE RunStep
      <3>1. run[t.run].status = "running"
        BY <2>1 DEF CompleteAllowed, LeaseValid
      <3>2. t.result \in Results
        BY <1>1, <1>5 DEF SoundTasks, CompleteCloud
      <3>3. RowStep(run[t.run], Completed(run[t.run], t.result))
        BY <1>3, <3>1, <3>2, CompletedStep
      <3>4. run' = [run EXCEPT ![t.run] = Completed(run[t.run], t.result)]
        BY <1>5, <2>1 DEF CompleteCloud
      <3>5. QED
        BY <1>2, <3>3, <3>4, OneRow
    <2>2. ASSUME ~CompleteAllowed(t.run, t.replica) PROVE RunStep
      BY <1>5, <2>2 DEF CompleteCloud, RunStep
    <2>3. tasks' \subseteq SoundTasks
      BY <1>5, LeaveType DEF CompleteCloud, LocalTypes
    <2>4. QED
      BY <1>5, <2>1, <2>2, <2>3 DEF CompleteCloud, LocalTypes
  <1>6. QED
    BY <1>4, <1>5

-----------------------------------------------------------------------------
(* Desktop runners.                                                        *)

LEMMA AssignType ==
    ASSUME NEW S, runner \in [Runners -> S], NEW u \in Runners, NEW a \in S, Assign(u, a)
    PROVE  runner' \in [Runners -> S]
  BY DEF Assign

\* The claim, its delivery and its refusal.
LEMMA ClaimingSteps ==
    ASSUME IInv, NEW u \in Runners,
           (\E r \in Runs : ClaimDesktop(u, r)) \/ DeliverAssignment(u) \/ SkipRun(u)
             \/ FinishDesktop(u) \/ RunnerLost(u)
    PROVE  RunStep /\ LocalTypes'
  <1> USE IInvFacts
  <1>1. runner[u] \in SoundAssignments /\ runner[u] \in Assignments
    BY DEF LocalTypes, SoundAssignments
  <1>2. IdleRunner \in SoundAssignments
    BY DEF IdleRunner, SoundAssignments, Assignments, RunnerPhases
  <1>3. ASSUME run' = run PROVE RunStep
    BY <1>3 DEF RunStep
  <1>4. ASSUME NEW r \in Runs, ClaimDesktop(u, r) PROVE RunStep /\ LocalTypes'
    <2>1. run[r].attempt \in Nat /\ run[r].attempt + 1 \in Nat
      BY DEF Rows
    <2>2. \A a \in Nat : Assignment(r, a) \in SoundAssignments
      BY DEF Assignment, SoundAssignments, Assignments, RunnerPhases
    <2>3. runner' \in [Runners -> SoundAssignments]
      BY <1>4, <2>1, <2>2, AssignType DEF ClaimDesktop, LocalTypes
    <2>4. ASSUME Claimable(r), run' = [run EXCEPT ![r] = Leased(@, u)] PROVE RunStep
      <3>1. RowStep(run[r], Leased(run[r], u))
        BY <2>4, LeasedStep DEF Claimable, Owners
      <3>2. QED
        BY <2>4, <3>1, OneRow
    <2>5. RunStep
      BY <1>3, <1>4, <2>4 DEF ClaimDesktop
    <2>6. QED
      BY <1>4, <2>3, <2>5 DEF ClaimDesktop, LocalTypes
  <1>5. CASE DeliverAssignment(u)
    <2>1. [runner[u] EXCEPT !.phase = "running"] \in SoundAssignments
      BY <1>1, <1>5 DEF SoundAssignments, Assignments, RunnerPhases, DeliverAssignment
    <2>2. runner' \in [Runners -> SoundAssignments]
      BY <1>5, <2>1, AssignType DEF DeliverAssignment, LocalTypes
    <2>3. QED
      BY <1>3, <1>5, <2>2 DEF DeliverAssignment, LocalTypes
  <1>6. CASE SkipRun(u)
    <2> DEFINE r == runner[u].run
    <2>1. r \in Runs
      BY <1>1, <1>6 DEF SoundAssignments, SkipRun
    <2>2. ASSUME SkipAllowed(r) PROVE RunStep
      <3>1. RowStep(run[r], Refused(run[r]))
        BY <2>1, <2>2, RefusedStep DEF SkipAllowed
      <3>2. run' = [run EXCEPT ![r] = Refused(run[r])]
        BY <1>6, <2>2 DEF SkipRun
      <3>3. QED
        BY <2>1, <3>1, <3>2, OneRow
    <2>3. ASSUME ~SkipAllowed(r) PROVE RunStep
      BY <1>6, <2>3 DEF SkipRun, RunStep
    <2>4. runner' \in [Runners -> SoundAssignments]
      BY <1>2, <1>6, AssignType DEF SkipRun, LocalTypes
    <2>5. QED
      BY <1>6, <2>2, <2>3, <2>4 DEF SkipRun, LocalTypes
  <1>7. CASE FinishDesktop(u)
    <2>1. \A result \in Results :
            [runner[u] EXCEPT !.phase = "terminal", !.result = result] \in SoundAssignments
      BY <1>1, <1>7 DEF SoundAssignments, Assignments, RunnerPhases, FinishDesktop
    <2>2. runner' \in [Runners -> SoundAssignments]
      BY <1>7, <2>1, AssignType DEF FinishDesktop, LocalTypes
    <2>3. QED
      BY <1>3, <1>7, <2>2 DEF FinishDesktop, LocalTypes
  <1>8. CASE RunnerLost(u)
    <2>1. runner' \in [Runners -> SoundAssignments]
      BY <1>2, <1>8, AssignType DEF RunnerLost, LocalTypes
    <2>2. QED
      BY <1>3, <1>8, <2>1 DEF RunnerLost, LocalTypes
  <1>9. QED
    BY <1>4, <1>5, <1>6, <1>7, <1>8

\* The steps of an assignment the runner is executing.
LEMMA ExecutingSteps ==
    ASSUME IInv, NEW u \in Runners,
           HeartbeatDesktop(u) \/ PostEvent(u) \/ PostTerminal(u) \/ CompleteDesktop(u)
    PROVE  RunStep /\ LocalTypes'
  <1> USE IInvFacts
  <1> DEFINE r == runner[u].run
  <1>1. runner[u] \in SoundAssignments /\ runner[u] \in Assignments
    BY DEF LocalTypes, SoundAssignments
  <1>2. runner[u].phase # "idle"
    BY DEF HeartbeatDesktop, PostEvent, PostTerminal, CompleteDesktop
  <1>3. /\ r \in Runs
        /\ runner[u].attempt \in Nat
        /\ runner[u].seq \in Nat
        /\ runner[u].seq + 1 \in Nat
    BY <1>1, <1>2 DEF SoundAssignments, Assignments
  <1>4. run[r] \in Rows /\ RowOK(run[r])
    BY <1>3
  <1>5. IdleRunner \in SoundAssignments
    BY DEF IdleRunner, SoundAssignments, Assignments, RunnerPhases
  <1>6. ASSUME run' = run PROVE RunStep
    BY <1>6 DEF RunStep
  <1>7. ASSUME Appended(u) \/ UNCHANGED <<run, events>>
        PROVE  RunStep /\ events' \subseteq [run : Runs, attempt : Nat, seq : Nat]
    <2>1. CASE Appended(u)
      <3>1. RowStep(run[r], AppendRow(r, runner[u].attempt, runner[u].seq + 1))
        BY <1>3, AppendRowStep
      <3>2. run' = [run EXCEPT ![r] = AppendRow(r, runner[u].attempt, runner[u].seq + 1)]
        BY <2>1 DEF Appended
      <3>3. RunStep
        BY <1>3, <3>1, <3>2, OneRow
      <3>4. events' \subseteq [run : Runs, attempt : Nat, seq : Nat]
        BY <1>3, <2>1, EventType DEF Appended, LocalTypes
      <3>5. QED
        BY <3>3, <3>4
    <2>2. CASE UNCHANGED <<run, events>>
      BY <1>6, <2>2 DEF LocalTypes
    <2>3. QED
      BY <1>7, <2>1, <2>2
  <1>8. CASE HeartbeatDesktop(u)
    <2>1. [runner[u] EXCEPT !.aborted = TRUE] \in SoundAssignments
      BY <1>1 DEF SoundAssignments, Assignments
    <2>2. runner' \in [Runners -> SoundAssignments]
      BY <1>8, <2>1, AssignType DEF HeartbeatDesktop, LocalTypes
    <2>3. ASSUME HeartbeatAllowed(u) PROVE RunStep
      <3>1. RowStep(run[r], Renewed(run[r]))
        BY <1>4, <2>3, RenewedStep DEF HeartbeatAllowed, LeaseValid
      <3>2. run' = [run EXCEPT ![r] = Renewed(run[r])]
        BY <1>8, <2>3 DEF HeartbeatDesktop
      <3>3. QED
        BY <1>3, <3>1, <3>2, OneRow
    <2>4. ASSUME ~HeartbeatAllowed(u) PROVE RunStep
      BY <1>6, <1>8, <2>4 DEF HeartbeatDesktop
    <2>5. QED
      BY <1>8, <2>2, <2>3, <2>4 DEF HeartbeatDesktop, LocalTypes
  <1>9. CASE PostEvent(u)
    <2>1. /\ [runner[u] EXCEPT !.seq = runner[u].seq + 1] \in SoundAssignments
          /\ [runner[u] EXCEPT !.seq = runner[u].seq + 1, !.phase = "terminal",
                               !.result = "failed"] \in SoundAssignments
      BY <1>1, <1>3 DEF SoundAssignments, Assignments, RunnerPhases, Results
    <2>2. runner' \in [Runners -> SoundAssignments]
      BY <1>9, <2>1, AssignType DEF PostEvent, LocalTypes
    <2>3. QED
      BY <1>7, <1>9, <2>2 DEF PostEvent, LocalTypes
  <1>10. CASE PostTerminal(u)
    <2>1. [runner[u] EXCEPT !.seq = runner[u].seq + 1, !.phase = "completing"]
            \in SoundAssignments
      BY <1>1, <1>3, <1>10 DEF SoundAssignments, Assignments, RunnerPhases, PostTerminal
    <2>2. runner' \in [Runners -> SoundAssignments]
      BY <1>5, <1>10, <2>1, AssignType DEF PostTerminal, LocalTypes
    <2>3. QED
      BY <1>7, <1>10, <2>2 DEF PostTerminal, LocalTypes
  <1>11. CASE CompleteDesktop(u)
    <2>1. runner[u].result \in Results
      BY <1>1, <1>11 DEF SoundAssignments, CompleteDesktop
    <2>2. runner' \in [Runners -> SoundAssignments]
      BY <1>5, <1>11, AssignType DEF CompleteDesktop, LocalTypes
    <2>3. ASSUME CompleteAllowed(r, u), run[r].attempt = runner[u].attempt PROVE RunStep
      <3>1. RowStep(run[r], Completed(run[r], runner[u].result))
        BY <1>4, <2>1, <2>3, CompletedStep DEF CompleteAllowed, LeaseValid
      <3>2. run' = [run EXCEPT ![r] = Completed(run[r], runner[u].result)]
        BY <1>11, <2>3 DEF CompleteDesktop
      <3>3. QED
        BY <1>3, <3>1, <3>2, OneRow
    <2>4. ASSUME ~(CompleteAllowed(r, u) /\ run[r].attempt = runner[u].attempt)
          PROVE  RunStep
      BY <1>6, <1>11, <2>4 DEF CompleteDesktop
    <2>5. QED
      BY <1>11, <2>2, <2>3, <2>4 DEF CompleteDesktop, LocalTypes
  <1>12. QED
    BY <1>8, <1>9, <1>10, <1>11

-----------------------------------------------------------------------------
(* The inductive step.                                                     *)

LEMMA EveryStep ==
    ASSUME IInv, [Next]_vars
    PROVE  RunStep /\ LocalTypes'
  <1>1. CASE UNCHANGED vars
    BY <1>1, IInvFacts DEF vars, RunStep, LocalTypes
  <1>2. CASE Next
    BY <1>2, OwnerSteps, CycleSteps, OtherSteps, StartingSteps, ReportingSteps,
       ClaimingSteps, ExecutingSteps DEF Next, TaskStep, RunnerStep
  <1>3. QED
    BY <1>1, <1>2

\* A RunStep keeps the rows sound and changes no other row.
LEMMA RowsStep ==
    ASSUME IInv, RunStep
    PROVE  run' \in [Runs -> Rows] /\ RowsOK'
  <1> USE IInvFacts
  <1>1. CASE run' = run
    BY <1>1 DEF RowsOK
  <1>2. ASSUME NEW r \in Runs, NEW new \in Rows, run' = [run EXCEPT ![r] = new],
               RowStep(run[r], new)
        PROVE  run' \in [Runs -> Rows] /\ RowsOK'
    BY <1>2 DEF RowStep, RowsOK
  <1>3. QED
    BY <1>1, <1>2 DEF RunStep

\* What one step may do to the cycles: keep or shrink a snapshot, drop it, or, when
\* no row changes, take a new one.
CyclesStep ==
    /\ now' \in Nat
    /\ now <= now'
    /\ \A p \in Replicas :
        /\ tick'[p].now <= now'
        /\ \/ tick'[p].rows = {}
           \/ tick'[p].now = tick[p].now /\ tick'[p].rows \subseteq tick[p].rows
           \/ tick'[p].rows = ExpiredRows(now) /\ run' = run

\* Every step moves the recovery cycles as CyclesStep says.
LEMMA EveryCyclesStep ==
    ASSUME IInv, [Next]_vars
    PROVE  CyclesStep
  <1> USE IInvFacts
  <1>1. \A p \in Replicas : tick[p] \in Cycles /\ tick[p].now \in Nat /\ tick[p].now <= now
    BY DEF IInv, SnapshotsOK, LocalTypes, Cycles
  <1>2. ASSUME now' = now, tick' = tick PROVE CyclesStep
    BY <1>1, <1>2 DEF CyclesStep
  <1>3. ASSUME NEW p \in Replicas, NEW c, tick' = [tick EXCEPT ![p] = c],
               now' = now, c.now \in Nat, c.now <= now,
               \/ c.rows = {}
               \/ c.now = tick[p].now /\ c.rows \subseteq tick[p].rows
               \/ c.rows = ExpiredRows(now) /\ run' = run
        PROVE  CyclesStep
    BY <1>1, <1>3 DEF CyclesStep, LocalTypes
  <1>4. \A t \in Nat : t <= now => /\ ExpireCycle(t).rows = {}
                                   /\ ExpireCycle(t).now \in Nat
                                   /\ ExpireCycle(t).now <= now
    BY DEF ExpireCycle, IdleCycle, NoTime
  <1>5. CASE Tick
    <2>1. now' \in Nat /\ now <= now'
      BY <1>5 DEF Tick
    <2>2. \A p \in Replicas : tick[p].now <= now'
      BY <1>1, <1>5 DEF Tick
    <2>3. QED
      BY <1>5, <2>1, <2>2 DEF Tick, CyclesStep
  <1>6. ASSUME NEW p \in Replicas, TickStart(p) PROVE CyclesStep
    <2>1. CASE ExpiredRows(now) = {}
      <3>1. tick' = [tick EXCEPT ![p] = ExpireCycle(now)] /\ now' = now
        BY <1>6, <2>1 DEF TickStart
      <3>2. /\ ExpireCycle(now).rows = {}
            /\ ExpireCycle(now).now \in Nat
            /\ ExpireCycle(now).now <= now
        BY <1>4
      <3>3. QED
        BY <1>3, <3>1, <3>2
    <2>2. CASE ExpiredRows(now) # {}
      <3> DEFINE c == [phase |-> "recover", now |-> now, rows |-> ExpiredRows(now),
                       missed |-> {}]
      <3>1. tick' = [tick EXCEPT ![p] = c] /\ run' = run /\ now' = now
        BY <1>6, <2>2 DEF TickStart
      <3>2. c.rows = ExpiredRows(now) /\ c.now \in Nat /\ c.now <= now
        OBVIOUS
      <3> HIDE DEF c
      <3>3. QED
        BY <1>3, <3>1, <3>2
    <2>3. QED
      BY <2>1, <2>2
  <1>7. ASSUME NEW p \in Replicas, RecoverRow(p) PROVE CyclesStep
    <2>1. PICK row \in tick[p].rows : tick' = [tick EXCEPT ![p].rows = @ \ {row}]
      BY <1>7 DEF RecoverRow
    <2> DEFINE c == [tick[p] EXCEPT !.rows = @ \ {row}]
    <2>2. c.rows \subseteq tick[p].rows /\ c.now = tick[p].now
      BY <1>1 DEF Cycles
    <2>3. tick' = [tick EXCEPT ![p] = c]
      BY <2>1
    <2> HIDE DEF c
    <2>4. QED
      BY <1>1, <1>3, <1>7, <2>2, <2>3 DEF RecoverRow
  <1>8. ASSUME NEW p \in Replicas, SelectUnclaimed(p) PROVE CyclesStep
    BY <1>1, <1>3, <1>4, <1>8 DEF SelectUnclaimed
  <1>9. ASSUME NEW p \in Replicas, ExpireUnclaimedDesktop(p) PROVE CyclesStep
    <2>1. PICK r \in tick[p].missed : tick' = [tick EXCEPT ![p] = Handled(@, r)]
      BY <1>9 DEF ExpireUnclaimedDesktop
    <2>2. /\ Handled(tick[p], r).now \in Nat
          /\ Handled(tick[p], r).now <= now
          /\ \/ Handled(tick[p], r).rows = {}
             \/ /\ Handled(tick[p], r).now = tick[p].now
                /\ Handled(tick[p], r).rows \subseteq tick[p].rows
      BY <1>1 DEF Handled, IdleCycle, NoTime, Cycles
    <2>3. QED
      BY <1>3, <1>9, <2>1, <2>2 DEF ExpireUnclaimedDesktop
  <1>10. ASSUME NEW p \in Replicas, Crash(p) PROVE CyclesStep
    <2>1. IdleCycle.rows = {} /\ IdleCycle.now \in Nat /\ IdleCycle.now <= now
      BY DEF IdleCycle, NoTime
    <2>2. QED
      BY <1>3, <1>10, <2>1 DEF Crash
  <1>11. CASE UNCHANGED vars
    BY <1>2, <1>11 DEF vars
  <1>12. ASSUME NEW s \in Sessions, OwnerStep(s) PROVE CyclesStep
    BY <1>2, <1>12 DEF OwnerStep, CancelWrite, CancelRead
  <1>13. ASSUME NEW r \in Runs, RefuseRun(r) PROVE CyclesStep
    BY <1>2, <1>13 DEF RefuseRun
  <1>14. ASSUME NEW p \in Replicas, NEW r \in Runs, StartCloudRun(p, r) PROVE CyclesStep
    BY <1>2, <1>14 DEF StartCloudRun
  <1>15. ASSUME NEW t \in tasks, TaskStep(t) \/ Monitor(t) PROVE CyclesStep
    BY <1>2, <1>15 DEF TaskStep, ClaimCloud, CheckAgent, Monitor, ReadReceipt,
       SetCloudExecution, SendTurn, FinishAgent, ReportEvent, FinishScript, CompleteCloud
  <1>16. ASSUME NEW u \in Runners, RunnerStep(u) PROVE CyclesStep
    BY <1>2, <1>16 DEF RunnerStep, ClaimDesktop, DeliverAssignment, SkipRun,
       HeartbeatDesktop, PostEvent, FinishDesktop, PostTerminal, CompleteDesktop, RunnerLost
  <1>17. QED
    BY <1>5, <1>6, <1>7, <1>8, <1>9, <1>10, <1>11, <1>12, <1>13, <1>14, <1>15, <1>16
       DEF Next, CycleStep

\* A lease that looks expired after a RunStep is one that was not touched by it.
LEMMA LeaseUntouched ==
    ASSUME IInv, RunStep, NEW r \in Runs, NEW t \in Nat, t <= now,
           run'[r].expires # NoTime, run'[r].expires < t
    PROVE  run'[r].expires = run[r].expires /\ run'[r].attempt = run[r].attempt
  <1> USE IInvFacts
  <1>1. CASE run' = run
    BY <1>1
  <1>2. ASSUME NEW q \in Runs, NEW new \in Rows, run' = [run EXCEPT ![q] = new],
               RowStep(run[q], new)
        PROVE  run'[r].expires = run[r].expires /\ run'[r].attempt = run[r].attempt
    <2>1. CASE q = r
      <3>1. run'[r] = new
        BY <1>2, <2>1
      <3>2. new.expires \in Nat
        BY DEF Rows
      <3>3. ~(new.expires = NoTime) /\ ~(new.expires > now)
        BY <3>1, <3>2
      <3>4. QED
        BY <1>2, <2>1, <3>1, <3>3 DEF RowStep
    <2>2. CASE q # r
      BY <1>2, <2>2
    <2>3. QED
      BY <2>1, <2>2
  <1>3. QED
    BY <1>1, <1>2 DEF RunStep

\* What a cycle listed stays at or below the attempts of the run.
LEMMA SnapshotsStep ==
    ASSUME IInv, RunStep, CyclesStep
    PROVE  SnapshotsOK'
  <1> USE IInvFacts
  <1> SUFFICES ASSUME NEW p \in Replicas
               PROVE  /\ tick'[p].now <= now'
                      /\ \A row \in tick'[p].rows : SelectedLease(p, row)'
    BY DEF SnapshotsOK
  <1>1. tick'[p].now <= now'
    BY DEF CyclesStep
  <1>2. ASSUME NEW row \in tick'[p].rows,
               run'[row.run].expires # NoTime, run'[row.run].expires < tick'[p].now
        PROVE  run'[row.run].attempt = row.attempt
    <2>1. tick[p] \in Cycles /\ tick[p].now \in Nat /\ tick[p].now <= now
      BY DEF IInv, SnapshotsOK, LocalTypes, Cycles
    <2>2. CASE tick'[p].now = tick[p].now /\ tick'[p].rows \subseteq tick[p].rows
      <3>1. row \in tick[p].rows
        BY <1>2, <2>2
      <3>2. row.run \in Runs
        BY <2>1, <3>1 DEF Cycles, Snapshots
      <3>3. /\ run'[row.run].expires = run[row.run].expires
            /\ run'[row.run].attempt = run[row.run].attempt
        BY <1>2, <2>1, <2>2, <3>2, LeaseUntouched
      <3>4. SelectedLease(p, row)
        BY <3>1 DEF IInv, SnapshotsOK
      <3>5. QED
        BY <1>2, <2>2, <3>3, <3>4 DEF SelectedLease
    <2>3. CASE tick'[p].rows = ExpiredRows(now) /\ run' = run
      BY <1>2, <2>3 DEF ExpiredRows
    <2>4. QED
      BY <1>2, <2>2, <2>3 DEF CyclesStep
  <1>3. QED
    BY <1>1, <1>2 DEF SelectedLease

\* The invariant holds initially.
LEMMA InitIInv ==
    ASSUME Init
    PROVE  IInv
  <1>1. \A kind \in Kinds, first \in {"queued", "skipped"} :
            NewRow(kind, first, 1) \in Rows /\ RowOK(NewRow(kind, first, 1))
    BY ConstantsAssumption DEF ConstantsAssumption, NewRow, Rows, RowOK, Statuses,
       Terminal, Errors, NoTime, AUTOMATION_MAXIMUM_ATTEMPTS
  <1>2. run \in [Runs -> Rows] /\ RowsOK
    <2>1. PICK kind \in [Runs -> Kinds], first \in [Runs -> {"queued", "skipped"}] :
               run = [r \in Runs |-> NewRow(kind[r], first[r], 1)]
      BY DEF Init
    <2>2. QED
      BY <1>1, <2>1 DEF RowsOK
  <1>3. /\ IdleCycle \in Cycles
        /\ IdleCycle.rows = {}
        /\ IdleCycle.now = 0
        /\ IdleRunner \in SoundAssignments
        /\ NoRequest \in [run : Runs \cup {NoRun}, status : Statuses]
    BY DEF IdleCycle, Cycles, CyclePhases, NoTime, IdleRunner, SoundAssignments,
       Assignments, RunnerPhases, NoRequest, Statuses
  <1>4. LocalTypes
    BY <1>3 DEF Init, LocalTypes
  <1>5. SnapshotsOK
    BY <1>3 DEF Init, SnapshotsOK
  <1>6. QED
    BY <1>2, <1>4, <1>5 DEF IInv

\* Every step keeps the invariant.
LEMMA NextIInv ==
    ASSUME IInv, [Next]_vars
    PROVE  IInv'
  BY EveryStep, EveryCyclesStep, RowsStep, SnapshotsStep DEF IInv

\* The inductive invariant holds in every reachable state.
THEOREM InductiveInvariant == Spec => []IInv
  BY InitIInv, NextIInv, PTL DEF Spec

-----------------------------------------------------------------------------
(* What follows from it.                                                   *)

\* Type correctness: every variable of AutomationRuns keeps its type.
THEOREM TypeCorrect == Spec => []TypeOK
  <1>1. IInv => TypeOK
    BY DEF IInv, LocalTypes, TypeOK, SoundTasks, SoundAssignments
  <1>2. QED
    BY <1>1, InductiveInvariant, PTL

\* No run is executed more than AUTOMATION_MAXIMUM_ATTEMPTS times, however many
\* replicas recover and claim it from whatever snapshots.
THEOREM AttemptsBounded == Spec => []AttemptBound
  <1>1. IInv => AttemptBound
    BY DEF IInv, RowsOK, RowOK, AttemptBound
  <1>2. QED
    BY <1>1, InductiveInvariant, PTL

\* A RunStep leaves a finished row that nobody asked to cancel in its status.
LEMMA FinishedStays ==
    ASSUME IInv, RunStep, NEW r \in Runs, run[r].status \in Terminal, ~run'[r].cancel
    PROVE  run'[r].status = run[r].status
  <1> USE IInvFacts
  <1>1. CASE run' = run
    BY <1>1
  <1>2. ASSUME NEW q \in Runs, NEW new \in Rows, run' = [run EXCEPT ![q] = new],
               RowStep(run[q], new)
        PROVE  run'[r].status = run[r].status
    BY <1>2 DEF RowStep
  <1>3. QED
    BY <1>1, <1>2 DEF RunStep

\* A finished run that nobody asked to cancel stays as it finished: no late
\* heartbeat, recovery, skip or second result of any process changes it.
THEOREM FinishedIsFinal == Spec => UncancelledTerminalIsFinal
  <1>1. IInv /\ [Next]_vars =>
          [\A r \in Runs :
              run[r].status \in Terminal /\ ~run'[r].cancel
                  => run'[r].status = run[r].status]_vars
    BY EveryStep, FinishedStays
  <1>2. QED
    BY <1>1, InductiveInvariant, PTL DEF Spec, UncancelledTerminalIsFinal

-----------------------------------------------------------------------------
(* AutomationRuns implements RunLifecycle.                                 *)

\* The lifecycle columns of the rows, as the refinement mapping reads them.
statusBar == [r \in Runs |-> run[r].status]
attemptBar == [r \in Runs |-> run[r].attempt]
cancelBar == [r \in Runs |-> run[r].cancel]

\* Initial states are initial states of the lifecycle.
LEMMA InitMaps ==
    ASSUME Init
    PROVE  Lifecycle!LifecycleInit
  BY DEF Init, NewRow, Lifecycle!LifecycleInit

\* A LifeStep of one row is a step of the abstract lifecycle, or a stutter.
LEMMA LifecycleRow ==
    ASSUME NEW r \in Runs, NEW old \in Rows, NEW new \in Rows, LifeStep(old, new),
           statusBar[r] = old.status, attemptBar[r] = old.attempt,
           cancelBar[r] = old.cancel,
           statusBar' = [statusBar EXCEPT ![r] = new.status],
           attemptBar' = [attemptBar EXCEPT ![r] = new.attempt],
           cancelBar' = [cancelBar EXCEPT ![r] = new.cancel]
    PROVE  [Lifecycle!LifecycleNext]_(Lifecycle!lifecycleVars)
  <1>1. /\ new.status = old.status => statusBar' = statusBar
        /\ new.attempt = old.attempt => attemptBar' = attemptBar
        /\ new.cancel = old.cancel => cancelBar' = cancelBar
    BY DEF statusBar, attemptBar, cancelBar
  <1>2. CASE new.status = old.status /\ new.attempt = old.attempt /\ new.cancel = old.cancel
    BY <1>1, <1>2 DEF Lifecycle!lifecycleVars, statusBar, attemptBar, cancelBar
  <1>3. SUFFICES ASSUME ~(/\ new.status = old.status
                          /\ new.attempt = old.attempt
                          /\ new.cancel = old.cancel)
                 PROVE  Lifecycle!RunStep(r)
    BY <1>2, <1>3 DEF Lifecycle!LifecycleNext
  <1> DEFINE S == {"absent", "queued", "running"} \cup Terminal
  <1>4. new.status \in S /\ S = Lifecycle!RunStatuses
        /\ Terminal = Lifecycle!TerminalStatuses
    BY DEF Rows, Statuses, Terminal, Lifecycle!RunStatuses, Lifecycle!TerminalStatuses
  <1>5. CASE /\ old.status = "queued"
             /\ old.attempt < AUTOMATION_MAXIMUM_ATTEMPTS
             /\ new.status = "running"
             /\ new.attempt = old.attempt + 1
             /\ new.cancel = old.cancel
    <2>1. Lifecycle!StartRun(r)
      BY <1>1, <1>5 DEF Lifecycle!StartRun, statusBar, attemptBar, cancelBar
    <2>2. QED
      BY <2>1 DEF Lifecycle!RunStep
  <1>6. CASE /\ old.status = "running"
             /\ old.attempt < AUTOMATION_MAXIMUM_ATTEMPTS
             /\ new.status = "queued"
             /\ new.attempt = old.attempt
             /\ new.cancel = old.cancel
    <2>1. Lifecycle!Requeue(r)
      BY <1>1, <1>6 DEF Lifecycle!Requeue, statusBar, attemptBar, cancelBar
    <2>2. QED
      BY <2>1 DEF Lifecycle!RunStep
  <1>7. CASE /\ old.status \in {"queued", "running"}
             /\ new.status \in Terminal
             /\ new.attempt = old.attempt
             /\ new.cancel = old.cancel
    <2>1. Lifecycle!Finish(r, new.status)
      BY <1>1, <1>4, <1>7 DEF Lifecycle!Finish, statusBar, attemptBar, cancelBar
    <2>2. QED
      BY <1>4, <2>1 DEF Lifecycle!RunStep
  <1>8. CASE /\ new.status \in {"running"} \cup Terminal
             /\ new.attempt = old.attempt
             /\ new.cancel = TRUE
    <2>1. old.status # "absent" /\ new.status \in S \ {"absent", "queued"}
      BY <1>8 DEF Rows, Statuses, Terminal
    <2>2. Lifecycle!Cancel(r, new.status)
      BY <1>1, <1>4, <1>8, <2>1 DEF Lifecycle!Cancel, statusBar, attemptBar, cancelBar
    <2>3. QED
      BY <1>4, <2>2 DEF Lifecycle!RunStep
  <1>9. CASE /\ old.cancel
             /\ old.status \in Terminal
             /\ \/ new.status = "failed"
                \/ new.status = "queued" /\ old.attempt < AUTOMATION_MAXIMUM_ATTEMPTS
             /\ new.attempt = old.attempt
             /\ new.cancel = old.cancel
    <2>1. Lifecycle!RecoverCancelled(r, new.status)
      BY <1>1, <1>4, <1>9 DEF Lifecycle!RecoverCancelled, statusBar, attemptBar, cancelBar
    <2>2. QED
      BY <1>4, <2>1 DEF Lifecycle!RunStep
  <1>10. QED
    BY <1>3, <1>5, <1>6, <1>7, <1>8, <1>9 DEF LifeStep

\* Every change of the run rows is a step of the lifecycle or a stutter.
LEMMA StepMaps ==
    ASSUME IInv, RunStep
    PROVE  [Lifecycle!LifecycleNext]_(Lifecycle!lifecycleVars)
  <1> USE IInvFacts
  <1>1. CASE run' = run
    BY <1>1 DEF Lifecycle!lifecycleVars
  <1>2. ASSUME NEW r \in Runs, NEW new \in Rows, run' = [run EXCEPT ![r] = new],
               RowStep(run[r], new)
        PROVE  [Lifecycle!LifecycleNext]_(Lifecycle!lifecycleVars)
    <2>1. /\ statusBar' = [statusBar EXCEPT ![r] = new.status]
          /\ attemptBar' = [attemptBar EXCEPT ![r] = new.attempt]
          /\ cancelBar' = [cancelBar EXCEPT ![r] = new.cancel]
      BY <1>2 DEF statusBar, attemptBar, cancelBar
    <2>2. /\ statusBar[r] = run[r].status
          /\ attemptBar[r] = run[r].attempt
          /\ cancelBar[r] = run[r].cancel
      BY DEF statusBar, attemptBar, cancelBar
    <2>3. LifeStep(run[r], new)
      BY <1>2 DEF RowStep
    <2>4. QED
      BY <2>1, <2>2, <2>3, LifecycleRow
  <1>3. QED
    BY <1>1, <1>2 DEF RunStep

\* The run table goes through the abstract lifecycle and through nothing else:
\* every step of every handler is one lifecycle step of one run, or none.
THEOREM RunsImplementLifecycle == Spec => ImplementsLifecycle
  <1>1. IInv /\ [Next]_vars => [Lifecycle!LifecycleNext]_(Lifecycle!lifecycleVars)
    BY EveryStep, StepMaps
  <1>2. QED
    BY <1>1, InitMaps, InductiveInvariant, PTL
       DEF Spec, ImplementsLifecycle, Lifecycle!LifecycleSpec

=============================================================================
