----------------------- MODULE AutomationRunsTaskProofs -----------------------
(***************************************************************************)
(* Theorems about the executions of AutomationRuns: which task may complete *)
(* a run, to which thread its turn is sent, which events its log holds and *)
(* how many runs execute at once, for every value of the constants.        *)
(*                                                                         *)
(* A step changes the rows in one of four ways (RowKinds): an update that  *)
(* gives the run to nobody, a claim, an event, a stored receipt.  Each of  *)
(* the invariants below is about one of them and survives the others.      *)
(***************************************************************************)
EXTENDS AutomationRunsProofs, FiniteSetTheorems

-----------------------------------------------------------------------------
(* The four ways to change the rows.                                       *)

\* An update that leaves what an execution relies on: the owner keeps the run or
\* loses it, the cursor moves only when the owner goes, and without a cancellation
\* nothing starts to run.
Quiet(old, new) ==
    /\ new.kind = old.kind
    /\ new.attempt = old.attempt
    /\ new.receipt = old.receipt
    /\ old.cancel => new.cancel
    /\ new.owner \in {old.owner, NoOwner}
    /\ new.owner # NoOwner => new.seq = old.seq
    /\ new.status = "running" /\ ~new.cancel => old.status = "running"
    /\ new.status = "queued" => new.owner = NoOwner /\ new.seq = 0

QuietStep ==
    /\ events' = events
    /\ \/ run' = run
       \/ \E r \in Runs : \E new \in Rows :
            run' = [run EXCEPT ![r] = new] /\ Quiet(run[r], new)

\* A claim by a desktop runner; a replica's claim is a step of one of its tasks.
DesktopTakes ==
    /\ events' = events
    /\ tasks' = tasks
    /\ submitted' = submitted
    /\ \E u \in Runners : \E r \in Runs :
        Claimable(r) /\ run' = [run EXCEPT ![r] = Leased(@, u)]

CloudTakes(t) == ClaimCloud(t) /\ CloudAdmits(t.run)

\* An accepted event: the cursor may move, and the lease may be renewed with it.
Logged(r, n, seq, new) ==
    /\ new.kind = run[r].kind
    /\ new.status = run[r].status
    /\ new.attempt = run[r].attempt
    /\ new.owner = run[r].owner
    /\ new.cancel = run[r].cancel
    /\ new.receipt = run[r].receipt
    /\ new.seq = AppendRow(r, n, seq).seq

LogStep ==
    \E r \in Runs : \E owner \in Owners : \E n, seq \in Nat : \E new \in Rows :
        /\ AppendAllowed(r, owner, n, seq)
        /\ events' = events \cup {Event(r, n, seq)}
        /\ run' = [run EXCEPT ![r] = new]
        /\ Logged(r, n, seq, new)

Admits(t) == SetCloudExecution(t) /\ AdmitAllowed(t)

RowKinds ==
    \/ QuietStep
    \/ DesktopTakes
    \/ \E t \in tasks : CloudTakes(t)
    \/ LogStep
    \/ \E t \in tasks : Admits(t)

\* The row updates of the handlers that are quiet.
LEMMA QuietRows ==
    ASSUME now \in Nat, NEW row \in Rows
    PROVE  /\ row.status = "running" => Quiet(row, Renewed(row))
           /\ \A result \in Results : Quiet(row, Completed(row, result))
           /\ \A error \in Errors : Quiet(row, Skipped(row, error))
           /\ Quiet(row, Refused(row))
           /\ \A status \in Statuses : Quiet(row, CancelledRow(row, status))
           /\ \A n, seq \in Nat : Quiet(row, RecoveredRow(row, n, seq))
  <1>1. row.status = "running" => Quiet(row, Renewed(row))
    BY DEF Quiet, Renewed, Rows
  <1>2. \A result \in Results : Quiet(row, Completed(row, result))
    <2> TAKE result \in Results
    <2>1. result # "running" /\ result # "queued"
      BY DEF Results
    <2>2. QED
      BY <2>1 DEF Quiet, Completed, Rows
  <1>3. \A error \in Errors : Quiet(row, Skipped(row, error))
    BY DEF Quiet, Skipped, Rows
  <1>4. Quiet(row, Refused(row))
    BY DEF Quiet, Refused, Skipped, Rows
  <1>5. \A status \in Statuses : Quiet(row, CancelledRow(row, status))
    BY DEF Quiet, CancelledRow, Rows
  <1>6. \A n, seq \in Nat : Quiet(row, RecoveredRow(row, n, seq))
    BY DEF Quiet, RecoveredRow, Rows
  <1>7. QED
    BY <1>1, <1>2, <1>3, <1>4, <1>5, <1>6

\* A quiet update of one row is a quiet step.
LEMMA OneQuietRow ==
    ASSUME IInv, IInv', NEW r \in Runs, NEW new, events' = events,
           run' = [run EXCEPT ![r] = new], Quiet(run[r], new)
    PROVE  QuietStep
  <1>1. new \in Rows
    BY DEF IInv
  <1>2. QED
    BY <1>1 DEF QuietStep

\* The steps of the owner, of the cycles, and of everything that is not an execution.
LEMMA CycleKinds ==
    ASSUME IInv, IInv',
           \/ Tick
           \/ \E s \in Sessions : OwnerStep(s)
           \/ \E r \in Runs : RefuseRun(r)
           \/ \E p \in Replicas : \/ CycleStep(p)
                                  \/ Crash(p)
                                  \/ \E r \in Runs : StartCloudRun(p, r)
    PROVE  QuietStep
  <1> USE IInvFacts
  <1>1. CASE run' = run /\ events' = events
    BY <1>1 DEF QuietStep
  <1>2. ASSUME NEW s \in Sessions, CancelWrite(s) PROVE QuietStep
    <2> DEFINE r == cancelling[s].run
    <2>1. r \in Runs /\ cancelling[s].status \in Statuses
      BY <1>2 DEF CancelWrite, LocalTypes
    <2>2. Quiet(run[r], CancelledRow(run[r], cancelling[s].status))
      BY <2>1, QuietRows
    <2>3. /\ run' = [run EXCEPT ![r] = CancelledRow(run[r], cancelling[s].status)]
          /\ events' = events
      BY <1>2, <2>1 DEF CancelWrite
    <2>4. QED
      BY <2>1, <2>2, <2>3, OneQuietRow
  <1>3. ASSUME NEW r \in Runs, RefuseRun(r) PROVE QuietStep
    <2>1. Quiet(run[r], Refused(run[r]))
      BY QuietRows
    <2>2. run' = [run EXCEPT ![r] = Refused(run[r])] /\ events' = events
      BY <1>3 DEF RefuseRun
    <2>3. QED
      BY <2>1, <2>2, OneQuietRow
  <1>4. ASSUME NEW p \in Replicas, RecoverRow(p) PROVE QuietStep
    <2>1. PICK row \in tick[p].rows :
            run' = IF RecoverMatches(p, row)
                   THEN [run EXCEPT ![row.run] = RecoveredRow(@, row.attempt, row.seq)]
                   ELSE run
      BY <1>4 DEF RecoverRow
    <2>2. events' = events
      BY <1>4 DEF RecoverRow
    <2>3. row \in Snapshots
      BY DEF LocalTypes, Cycles
    <2>4. row.run \in Runs /\ row.attempt \in Nat /\ row.seq \in Nat
      BY <2>3 DEF Snapshots
    <2>5. Quiet(run[row.run], RecoveredRow(run[row.run], row.attempt, row.seq))
      BY <2>4, QuietRows
    <2>6. CASE RecoverMatches(p, row)
      <3>1. run' = [run EXCEPT ![row.run] = RecoveredRow(run[row.run], row.attempt, row.seq)]
        BY <2>1, <2>4, <2>6
      <3>2. QED
        BY <2>2, <2>4, <2>5, <3>1, OneQuietRow
    <2>7. CASE ~RecoverMatches(p, row)
      BY <2>1, <2>2, <2>7 DEF QuietStep
    <2>8. QED
      BY <2>6, <2>7
  <1>5. ASSUME NEW p \in Replicas, ExpireUnclaimedDesktop(p) PROVE QuietStep
    <2>1. PICK r \in tick[p].missed :
            run' = IF run[r].status = "queued"
                   THEN [run EXCEPT ![r] = Skipped(@, "runner_unavailable")]
                   ELSE run
      BY <1>5 DEF ExpireUnclaimedDesktop
    <2>2. events' = events
      BY <1>5 DEF ExpireUnclaimedDesktop
    <2>3. r \in Runs
      BY DEF LocalTypes, Cycles
    <2>4. Quiet(run[r], Skipped(run[r], "runner_unavailable"))
      BY <2>3, QuietRows DEF Errors
    <2>5. CASE run[r].status = "queued"
      <3>1. run' = [run EXCEPT ![r] = Skipped(run[r], "runner_unavailable")]
        BY <2>1, <2>3, <2>5
      <3>2. QED
        BY <2>2, <2>3, <2>4, <3>1, OneQuietRow
    <2>6. CASE run[r].status # "queued"
      BY <2>1, <2>2, <2>6 DEF QuietStep
    <2>7. QED
      BY <2>5, <2>6
  <1>6. QED
    BY <1>1, <1>2, <1>3, <1>4, <1>5
       DEF Tick, OwnerStep, CancelRead, CycleStep, TickStart, SelectUnclaimed, Crash,
           StartCloudRun

\* The steps of a task.
LEMMA TaskKinds ==
    ASSUME IInv, IInv', NEW t \in tasks, TaskStep(t) \/ Monitor(t)
    PROVE  RowKinds
  <1> USE IInvFacts
  <1>1. t \in Tasks
    BY DEF LocalTypes, SoundTasks
  <1>2. /\ t.run \in Runs
        /\ t.replica \in Owners
        /\ t.attempt \in Nat
        /\ t.seq + 1 \in Nat
        /\ run[t.run] \in Rows
    BY <1>1 DEF Tasks, Owners
  <1>3. CASE run' = run /\ events' = events
    BY <1>3 DEF RowKinds, QuietStep
  <1>4. ASSUME MonitorOk(t), run' = [run EXCEPT ![t.run] = Renewed(@)], events' = events
        PROVE  RowKinds
    <2>1. run[t.run].status = "running"
      BY <1>4 DEF MonitorOk, LeaseValid
    <2>2. Quiet(run[t.run], Renewed(run[t.run]))
      BY <1>2, <2>1, QuietRows
    <2>3. QED
      BY <1>2, <1>4, <2>2, OneQuietRow DEF RowKinds
  <1>5. CASE CheckAgent(t) \/ Monitor(t)
    BY <1>3, <1>4, <1>5 DEF CheckAgent, Monitor
  <1>6. CASE ClaimCloud(t)
    BY <1>3, <1>6 DEF ClaimCloud, CloudTakes, RowKinds
  <1>7. CASE SetCloudExecution(t)
    BY <1>3, <1>7 DEF SetCloudExecution, Admits, RowKinds
  <1>8. CASE CompleteCloud(t)
    <2>1. t.result \in Results
      BY <1>8 DEF LocalTypes, SoundTasks, CompleteCloud
    <2>2. Quiet(run[t.run], Completed(run[t.run], t.result))
      BY <1>2, <2>1, QuietRows
    <2>3. ASSUME CompleteAllowed(t.run, t.replica) PROVE RowKinds
      <3>1. run' = [run EXCEPT ![t.run] = Completed(run[t.run], t.result)] /\ events' = events
        BY <1>8, <2>3 DEF CompleteCloud
      <3>2. QED
        BY <1>2, <2>2, <3>1, OneQuietRow DEF RowKinds
    <2>4. QED
      BY <1>3, <1>8, <2>3 DEF CompleteCloud
  <1>9. CASE ReportEvent(t)
    <2> DEFINE n == t.seq + 1
               appended == AppendRow(t.run, t.attempt, n)
    <2>1. appended \in Rows /\ Logged(t.run, t.attempt, n, appended)
      BY <1>2, AppendRowStep DEF RowStep, AppendRow, Rows, Logged
    <2>2. Renewed(appended) \in Rows /\ Logged(t.run, t.attempt, n, Renewed(appended))
      <3>1. now + LeaseTime \in Nat
        BY ConstantsAssumption DEF ConstantsAssumption
      <3> HIDE DEF appended
      <3>2. QED
        BY <2>1, <3>1 DEF Renewed, Rows, Logged
    <2>3. ASSUME ReportAllowed(t), Reported(t), NEW new \in Rows,
                 run' = [run EXCEPT ![t.run] = new], Logged(t.run, t.attempt, n, new)
          PROVE  RowKinds
      <3>1. AppendAllowed(t.run, t.replica, t.attempt, n)
        BY <2>3 DEF ReportAllowed
      <3>2. events' = events \cup {Event(t.run, t.attempt, n)}
        BY <2>3 DEF Reported
      <3>3. LogStep
        BY <1>2, <2>3, <3>1, <3>2 DEF LogStep
      <3>4. QED
        BY <3>3 DEF RowKinds
    <2>4. QED
      BY <1>3, <1>9, <2>1, <2>2, <2>3 DEF ReportEvent
  <1>10. CASE ReadReceipt(t) \/ SendTurn(t) \/ FinishAgent(t) \/ FinishScript(t)
    BY <1>3, <1>10 DEF ReadReceipt, SendTurn, FinishAgent, FinishScript
  <1>11. QED
    BY <1>5, <1>6, <1>7, <1>8, <1>9, <1>10 DEF TaskStep

\* The steps of a desktop runner.
LEMMA RunnerKinds ==
    ASSUME IInv, IInv', NEW u \in Runners, RunnerStep(u)
    PROVE  RowKinds
  <1> USE IInvFacts
  <1> DEFINE r == runner[u].run
             n == runner[u].seq + 1
  <1>1. runner[u] \in SoundAssignments /\ runner[u] \in Assignments
    BY DEF LocalTypes, SoundAssignments
  <1>2. runner[u].attempt \in Nat /\ n \in Nat /\ u \in Owners
    BY <1>1 DEF Assignments, Owners
  <1>3. ASSUME runner[u].phase # "idle" PROVE r \in Runs /\ run[r] \in Rows
    BY <1>1, <1>3 DEF SoundAssignments
  <1>4. CASE run' = run /\ events' = events
    BY <1>4 DEF RowKinds, QuietStep
  <1>5. ASSUME NEW q \in Runs, ClaimDesktop(u, q) PROVE RowKinds
    BY <1>4, <1>5 DEF ClaimDesktop, DesktopTakes, RowKinds
  <1>6. CASE SkipRun(u)
    <2>1. r \in Runs /\ run[r] \in Rows
      BY <1>3, <1>6 DEF SkipRun
    <2>2. Quiet(run[r], Refused(run[r]))
      BY <2>1, QuietRows
    <2>3. ASSUME SkipAllowed(r) PROVE RowKinds
      <3>1. run' = [run EXCEPT ![r] = Refused(run[r])] /\ events' = events
        BY <1>6, <2>3 DEF SkipRun
      <3>2. QED
        BY <2>1, <2>2, <3>1, OneQuietRow DEF RowKinds
    <2>4. QED
      BY <1>4, <1>6, <2>3 DEF SkipRun
  <1>7. CASE HeartbeatDesktop(u)
    <2>1. ASSUME HeartbeatAllowed(u) PROVE RowKinds
      <3>1. r \in Runs /\ run[r] \in Rows
        BY <1>3, <1>7 DEF HeartbeatDesktop
      <3>2. Quiet(run[r], Renewed(run[r]))
        BY <2>1, <3>1, QuietRows DEF HeartbeatAllowed, LeaseValid
      <3>3. run' = [run EXCEPT ![r] = Renewed(run[r])] /\ events' = events
        BY <1>7, <2>1 DEF HeartbeatDesktop
      <3>4. QED
        BY <3>1, <3>2, <3>3, OneQuietRow DEF RowKinds
    <2>2. QED
      BY <1>4, <1>7, <2>1 DEF HeartbeatDesktop
  <1>8. ASSUME Appended(u), runner[u].phase # "idle" PROVE RowKinds
    <2> DEFINE appended == AppendRow(r, runner[u].attempt, n)
    <2>1. r \in Runs
      BY <1>3, <1>8
    <2>2. appended \in Rows /\ Logged(r, runner[u].attempt, n, appended)
      BY <1>2, <2>1, AppendRowStep DEF RowStep, AppendRow, Rows, Logged
    <2>3. /\ AppendAllowed(r, u, runner[u].attempt, n)
          /\ events' = events \cup {Event(r, runner[u].attempt, n)}
          /\ run' = [run EXCEPT ![r] = appended]
      BY <1>8 DEF Appended, EventAllowed
    <2> HIDE DEF appended
    <2>4. LogStep
      BY <1>2, <2>1, <2>2, <2>3 DEF LogStep
    <2>5. QED
      BY <2>4 DEF RowKinds
  <1>9. CASE PostEvent(u) \/ PostTerminal(u)
    BY <1>4, <1>8, <1>9 DEF PostEvent, PostTerminal
  <1>10. CASE CompleteDesktop(u)
    <2>1. r \in Runs /\ run[r] \in Rows /\ runner[u].result \in Results
      BY <1>1, <1>3, <1>10 DEF CompleteDesktop, SoundAssignments
    <2>2. Quiet(run[r], Completed(run[r], runner[u].result))
      BY <2>1, QuietRows
    <2>3. ASSUME CompleteAllowed(r, u) /\ run[r].attempt = runner[u].attempt PROVE RowKinds
      <3>1. /\ run' = [run EXCEPT ![r] = Completed(run[r], runner[u].result)]
            /\ events' = events
        BY <1>10, <2>3 DEF CompleteDesktop
      <3>2. QED
        BY <2>1, <2>2, <3>1, OneQuietRow DEF RowKinds
    <2>4. QED
      BY <1>4, <1>10, <2>3 DEF CompleteDesktop
  <1>11. CASE DeliverAssignment(u) \/ FinishDesktop(u) \/ RunnerLost(u)
    BY <1>4, <1>11 DEF DeliverAssignment, FinishDesktop, RunnerLost
  <1>12. QED
    BY <1>5, <1>6, <1>7, <1>9, <1>10, <1>11 DEF RunnerStep

\* Every step changes the rows in one of the four ways, or not at all.
LEMMA EveryStepKinds ==
    ASSUME IInv, [Next]_vars
    PROVE  RowKinds
  <1>1. IInv'
    BY NextIInv
  <1>2. CASE UNCHANGED vars
    BY <1>2 DEF vars, RowKinds, QuietStep
  <1>3. CASE Next
    BY <1>1, <1>3, CycleKinds, TaskKinds, RunnerKinds DEF Next, RowKinds
  <1>4. QED
    BY <1>2, <1>3

-----------------------------------------------------------------------------
(* The limit on running Cloud runs.  Only a claim adds one, and the claim  *)
(* counts them.                                                            *)

Counted == {r \in RunningCloud : ~run[r].cancel}

\* A step other than a replica's claim adds no run to the ones that are counted.
LEMMA OthersAddNone ==
    ASSUME IInv, IInv', QuietStep \/ DesktopTakes \/ LogStep \/ \E t \in tasks : Admits(t)
    PROVE  Counted' \subseteq Counted
  <1> USE IInvFacts
  <1>1. run' \in [Runs -> Rows]
    BY DEF IInv
  <1>2. ASSUME NEW r \in Runs, NEW new, run' = [run EXCEPT ![r] = new],
               new.kind = run[r].kind,
               new.kind = "desktop" \/ new.cancel \/ new.status # "running"
                 \/ (run[r].status = "running" /\ ~run[r].cancel)
        PROVE  Counted' \subseteq Counted
    BY <1>2 DEF Counted, RunningCloud
  <1>3. CASE run' = run
    BY <1>3 DEF Counted, RunningCloud
  <1>4. CASE QuietStep
    BY <1>2, <1>3, <1>4 DEF QuietStep, Quiet
  <1>5. CASE DesktopTakes
    <2>1. PICK u \in Runners, r \in Runs :
            Claimable(r) /\ run' = [run EXCEPT ![r] = Leased(@, u)]
      BY <1>5 DEF DesktopTakes
    <2>2. Leased(run[r], u).kind = "desktop" /\ run[r].kind = "desktop"
      BY <2>1 DEF Leased, Claimable, Rows
    <2>3. run' = [run EXCEPT ![r] = Leased(run[r], u)]
      BY <2>1
    <2>4. QED
      BY <1>2, <2>2, <2>3
  <1>6. CASE LogStep
    BY <1>2, <1>6 DEF LogStep, Logged
  <1>7. ASSUME NEW t \in tasks, Admits(t) PROVE Counted' \subseteq Counted
    <2>1. t.run \in Runs
      BY DEF LocalTypes, SoundTasks, Tasks
    <2> DEFINE new == [run[t.run] EXCEPT !.receipt = t.thread]
    <2>2. /\ new.kind = run[t.run].kind
          /\ new.status = run[t.run].status
          /\ new.cancel = run[t.run].cancel
      BY <2>1 DEF Rows
    <2>3. run' = [run EXCEPT ![t.run] = new]
      BY <1>7, <2>1 DEF Admits, SetCloudExecution
    <2> HIDE DEF new
    <2>4. QED
      BY <1>2, <2>1, <2>2, <2>3
  <1>8. QED
    BY <1>4, <1>5, <1>6, <1>7

\* A replica's claim adds one run, and only below the limit.
LEMMA ClaimAddsOne ==
    ASSUME IInv, NEW t \in tasks, CloudTakes(t)
    PROVE  RunningWithinLimit'
  <1> USE IInvFacts
  <1>1. t.run \in Runs
    BY DEF LocalTypes, SoundTasks, Tasks
  <1>2. run' = [run EXCEPT ![t.run] = Leased(run[t.run], t.replica)]
    BY <1>1 DEF CloudTakes, ClaimCloud
  <1> DEFINE more == RunningCloud \cup {t.run}
  <1>3. Counted' \subseteq more
    BY <1>1, <1>2 DEF Counted, RunningCloud
  <1>4. IsFiniteSet(RunningCloud)
    BY RunsAreFinite, FS_Subset DEF RunningCloud
  <1>5. Cardinality(RunningCloud) < MaxConcurrency
    BY DEF CloudTakes, CloudAdmits
  <1>6. /\ IsFiniteSet(more)
        /\ \/ Cardinality(more) = Cardinality(RunningCloud)
           \/ Cardinality(more) = Cardinality(RunningCloud) + 1
    BY <1>4, FS_AddElement
  <1> HIDE DEF more
  <1>7. Cardinality(Counted') <= Cardinality(more)
    BY <1>3, <1>6, FS_Subset
  <1>8. /\ Cardinality(RunningCloud) \in Nat
        /\ Cardinality(more) \in Nat
        /\ Cardinality(Counted') \in Nat
        /\ MaxConcurrency \in Nat
    BY <1>3, <1>4, <1>6, FS_Subset, FS_CardinalityType, ConstantsAssumption
       DEF ConstantsAssumption
  <1>9. Cardinality(Counted') <= MaxConcurrency
    BY <1>5, <1>6, <1>7, <1>8
  <1>10. QED
    BY <1>9 DEF RunningWithinLimit, Counted

\* Only a claim adds a running run, and it counts those there are first.
LEMMA LimitStep ==
    ASSUME IInv, RunningWithinLimit, [Next]_vars
    PROVE  RunningWithinLimit'
  <1>1. IInv'
    BY NextIInv
  <1>2. CASE \E t \in tasks : CloudTakes(t)
    BY <1>2, ClaimAddsOne
  <1>3. CASE QuietStep \/ DesktopTakes \/ LogStep \/ \E t \in tasks : Admits(t)
    <2>1. Counted' \subseteq Counted
      BY <1>1, <1>3, OthersAddNone
    <2>2. IsFiniteSet(Counted)
      BY RunsAreFinite, FS_Subset DEF Counted, RunningCloud
    <2>3. Cardinality(Counted') <= Cardinality(Counted)
      BY <2>1, <2>2, FS_Subset
    <2>4. Cardinality(Counted) \in Nat /\ Cardinality(Counted') \in Nat
      BY <2>1, <2>2, FS_Subset, FS_CardinalityType
    <2>5. Cardinality(Counted) <= MaxConcurrency /\ MaxConcurrency \in Nat
      BY ConstantsAssumption DEF RunningWithinLimit, Counted, ConstantsAssumption
    <2>6. Cardinality(Counted') <= MaxConcurrency
      BY <2>3, <2>4, <2>5
    <2>7. QED
      BY <2>6 DEF RunningWithinLimit, Counted
  <1>4. QED
    BY <1>2, <1>3, EveryStepKinds DEF RowKinds

\* Replicas together run no more uncancelled Cloud runs than the limit: the check
\* of one replica's own executions is not needed for it, the count taken by the
\* claim is enough.
THEOREM LimitIsKept == Spec => []RunningWithinLimit
  <1>1. Init => RunningWithinLimit
    <2>1. Init => Counted = {}
      BY DEF Init, NewRow, Counted, RunningCloud
    <2>2. 0 <= MaxConcurrency
      BY ConstantsAssumption DEF ConstantsAssumption
    <2>3. QED
      BY <2>1, <2>2, FS_EmptySet DEF RunningWithinLimit, Counted
  <1>2. IInv /\ RunningWithinLimit /\ [Next]_vars => RunningWithinLimit'
    BY LimitStep
  <1>3. QED
    BY <1>1, <1>2, InductiveInvariant, PTL DEF Spec

-----------------------------------------------------------------------------
(* The event log.  A queued row starts its next attempt at zero, the log   *)
(* has nothing of an attempt that has not begun, and while a run has an    *)
(* owner the log of the attempt is the one the cursor describes.           *)

EventsOf(log, r, n) == {e.seq : e \in {f \in log : f.run = r /\ f.attempt = n}}

LogOK(log, r, row) ==
    /\ row.status = "queued" => row.owner = NoOwner /\ row.seq = 0
    /\ \A e \in log : e.run = r => e.attempt <= row.attempt
    /\ row.owner # NoOwner => EventsOf(log, r, row.attempt) = 1..row.seq

LogsOK == \A r \in Runs : LogOK(events, r, run[r])

\* A number is in the log of an attempt when its event is stored.
LEMMA InLog ==
    ASSUME NEW log, log \subseteq [run : Runs, attempt : Nat, seq : Nat], NEW r, NEW n
    PROVE  \A seq : seq \in EventsOf(log, r, n) <=> Event(r, n, seq) \in log
  <1>1. \A e \in log : e.run = r /\ e.attempt = n => e = Event(r, n, e.seq)
    BY DEF Event
  <1>2. QED
    BY <1>1 DEF EventsOf, Event

\* An update that nobody gains by keeps the log of the row.
LEMMA QuietLog ==
    ASSUME NEW r, NEW old, NEW new, LogOK(events, r, old), Quiet(old, new)
    PROVE  LogOK(events, r, new)
  BY DEF LogOK, Quiet

\* A claim starts an attempt nothing is logged of.
LEMMA LeasedLog ==
    ASSUME IInv, NEW r \in Runs, NEW owner \in Owners, LogOK(events, r, run[r]),
           run[r].status = "queued"
    PROVE  LogOK(events, r, Leased(run[r], owner))
  <1> USE IInvFacts
  <1> DEFINE new == Leased(run[r], owner)
  <1>1. /\ new.status = "running"
        /\ new.attempt = run[r].attempt + 1
        /\ new.seq = run[r].seq
    BY DEF Leased, Rows
  <1>2. run[r].attempt \in Nat /\ run[r].seq = 0
    BY DEF Rows, LogOK
  <1>3. \A e \in events : e.attempt \in Nat
    BY DEF LocalTypes
  <1>4. \A e \in events : e.run = r => e.attempt <= run[r].attempt
    BY DEF LogOK
  <1>5. \A e \in events : e.run = r => e.attempt < run[r].attempt + 1
    BY <1>2, <1>3, <1>4
  <1>6. EventsOf(events, r, run[r].attempt + 1) = {}
    BY <1>2, <1>3, <1>5 DEF EventsOf
  <1>7. 1..0 = {}
    OBVIOUS
  <1>8. \A e \in events : e.run = r => e.attempt <= run[r].attempt + 1
    BY <1>2, <1>3, <1>5
  <1> HIDE DEF new
  <1>9. EventsOf(events, r, new.attempt) = 1..new.seq
    BY <1>1, <1>2, <1>6, <1>7
  <1>10. LogOK(events, r, new)
    BY <1>1, <1>8, <1>9 DEF LogOK
  <1>11. QED
    BY <1>10 DEF new

\* An accepted event is stored already, or is the next one of the owner's attempt.
LEMMA LoggedLog ==
    ASSUME IInv, NEW r \in Runs, NEW owner \in Owners, NEW n \in Nat, NEW seq \in Nat,
           NEW new \in Rows, LogOK(events, r, run[r]), AppendAllowed(r, owner, n, seq),
           Logged(r, n, seq, new)
    PROVE  LogOK(events \cup {Event(r, n, seq)}, r, new)
  <1> USE IInvFacts
  <1> DEFINE log == events \cup {Event(r, n, seq)}
  <1>1. /\ run[r].owner = owner
        /\ run[r].status = "running"
        /\ run[r].attempt = n
        /\ Event(r, n, seq) \in events \/ seq = run[r].seq + 1
    BY DEF AppendAllowed, LeaseValid
  <1>2. owner # NoOwner
    BY ConstantsAssumption DEF ConstantsAssumption, Owners
  <1>3. EventsOf(events, r, n) = 1..run[r].seq
    BY <1>1, <1>2 DEF LogOK
  <1>4. EventsOf(log, r, n) = EventsOf(events, r, n) \cup {seq}
    <2>1. /\ events \subseteq [run : Runs, attempt : Nat, seq : Nat]
          /\ log \subseteq [run : Runs, attempt : Nat, seq : Nat]
      BY DEF LocalTypes, Event
    <2>2. \A s : Event(r, n, s) \in log <=> Event(r, n, s) \in events \/ s = seq
      BY DEF Event
    <2> HIDE DEF log
    <2>3. QED
      BY <2>1, <2>2, InLog
  <1>5. CASE Event(r, n, seq) \in events
    <2>1. log = events /\ new.seq = run[r].seq
      BY <1>5 DEF Logged, AppendRow
    <2>2. QED
      BY <1>1, <1>3, <2>1 DEF LogOK, Logged
  <1>6. CASE Event(r, n, seq) \notin events
    <2>1. run[r].seq \in Nat /\ seq = run[r].seq + 1
      BY <1>1, <1>6 DEF Rows
    <2>2. new.seq = seq
      BY <1>6 DEF Logged, AppendRow, Rows
    <2>3. 1..seq = 1..run[r].seq \cup {seq}
      BY <2>1
    <2>4. EventsOf(log, r, n) = 1..new.seq
      BY <1>3, <1>4, <2>2, <2>3
    <2>5. \A e \in log : e.run = r => e.attempt <= run[r].attempt
      BY <1>1 DEF LogOK, Event
    <2> HIDE DEF log
    <2>6. LogOK(log, r, new)
      BY <1>1, <2>4, <2>5 DEF LogOK, Logged
    <2>7. QED
      BY <2>6 DEF log
  <1>7. QED
    BY <1>5, <1>6

\* An event of another run is not in the log of this one.
LEMMA OtherLog ==
    ASSUME NEW r, NEW row, NEW q, q # r, NEW n, NEW seq, LogOK(events, r, row)
    PROVE  LogOK(events \cup {Event(q, n, seq)}, r, row)
  <1>1. EventsOf(events \cup {Event(q, n, seq)}, r, row.attempt)
          = EventsOf(events, r, row.attempt)
    BY DEF EventsOf, Event
  <1>2. QED
    BY <1>1 DEF LogOK, Event

\* Every append moves the cursor of the row and the log together.
LEMMA LogsStep ==
    ASSUME IInv, LogsOK, [Next]_vars
    PROVE  LogsOK'
  <1> USE IInvFacts
  <1>1. run' \in [Runs -> Rows]
    BY NextIInv DEF IInv
  <1>2. ASSUME events' = events, NEW r \in Runs, NEW new, run' = [run EXCEPT ![r] = new],
               LogOK(events, r, new)
        PROVE  LogsOK'
    BY <1>2 DEF LogsOK
  <1>3. CASE QuietStep
    BY <1>2, <1>3, QuietLog DEF QuietStep, LogsOK
  <1>4. CASE DesktopTakes
    <2>1. PICK u \in Runners, r \in Runs :
            Claimable(r) /\ run' = [run EXCEPT ![r] = Leased(@, u)]
      BY <1>4 DEF DesktopTakes
    <2>2. LogOK(events, r, Leased(run[r], u))
      BY <2>1, LeasedLog DEF Claimable, LogsOK, Owners
    <2>3. run' = [run EXCEPT ![r] = Leased(run[r], u)] /\ events' = events
      BY <1>4, <2>1 DEF DesktopTakes
    <2>4. QED
      BY <1>2, <2>2, <2>3
  <1>5. ASSUME NEW t \in tasks, CloudTakes(t) PROVE LogsOK'
    <2>1. t.run \in Runs /\ t.replica \in Owners
      BY DEF LocalTypes, SoundTasks, Tasks, Owners
    <2>2. LogOK(events, t.run, Leased(run[t.run], t.replica))
      BY <1>5, <2>1, LeasedLog DEF CloudTakes, CloudAdmits, LogsOK
    <2>3. run' = [run EXCEPT ![t.run] = Leased(run[t.run], t.replica)] /\ events' = events
      BY <1>5, <2>1 DEF CloudTakes, ClaimCloud
    <2>4. QED
      BY <1>2, <2>1, <2>2, <2>3
  <1>6. CASE LogStep
    <2>1. PICK r \in Runs, owner \in Owners, n \in Nat, seq \in Nat, new \in Rows :
            /\ AppendAllowed(r, owner, n, seq)
            /\ events' = events \cup {Event(r, n, seq)}
            /\ run' = [run EXCEPT ![r] = new]
            /\ Logged(r, n, seq, new)
      BY <1>6 DEF LogStep
    <2>2. LogOK(events', r, new)
      BY <2>1, LoggedLog DEF LogsOK
    <2>3. \A q \in Runs \ {r} : LogOK(events', q, run[q])
      BY <2>1, OtherLog DEF LogsOK
    <2>4. QED
      BY <2>1, <2>2, <2>3 DEF LogsOK
  <1>7. ASSUME NEW t \in tasks, Admits(t) PROVE LogsOK'
    <2>1. t.run \in Runs
      BY DEF LocalTypes, SoundTasks, Tasks
    <2> DEFINE new == [run[t.run] EXCEPT !.receipt = t.thread]
    <2>2. /\ new.status = run[t.run].status
          /\ new.owner = run[t.run].owner
          /\ new.attempt = run[t.run].attempt
          /\ new.seq = run[t.run].seq
      BY <2>1 DEF Rows
    <2>3. run' = [run EXCEPT ![t.run] = new] /\ events' = events
      BY <1>7, <2>1 DEF Admits, SetCloudExecution
    <2> HIDE DEF new
    <2>4. LogOK(events, t.run, new)
      BY <2>1, <2>2 DEF LogsOK, LogOK
    <2>5. QED
      BY <1>2, <2>1, <2>3, <2>4
  <1>8. QED
    BY <1>3, <1>4, <1>5, <1>6, <1>7, EveryStepKinds DEF RowKinds

\* While an execution owns a run the stored events of its attempt are exactly those
\* its cursor counts, whatever was retried, lost or left by earlier attempts.
THEOREM LogsFollowCursors == Spec => []EventsFollowCursor
  <1>1. Init => LogsOK
    BY DEF Init, NewRow, LogsOK, LogOK
  <1>2. IInv /\ LogsOK /\ [Next]_vars => LogsOK'
    BY LogsStep
  <1>3. LogsOK => EventsFollowCursor
    BY DEF LogsOK, LogOK, EventsOf, EventsFollowCursor
  <1>4. QED
    BY <1>1, <1>2, <1>3, InductiveInvariant, PTL DEF Spec

-----------------------------------------------------------------------------
(* Tasks.  A replica has at most one task per run, and a lease under its   *)
(* name is the lease that task took: so the owner of a row identifies the  *)
(* execution, although the database keeps no task.  The thread a task has  *)
(* admitted is the one in the receipt, and an owner about to store one     *)
(* finds none there, unless somebody asked to cancel the run.              *)

AttemptOK(t, row) ==
    t.phase # "claiming" /\ row.owner = t.replica => t.attempt = row.attempt

ThreadOK(t, row) ==
    ~row.cancel =>
        /\ t.phase = "admitted" => t.thread = row.receipt
        /\ t.phase = "created" /\ row.owner = t.replica /\ row.status = "running"
             => row.receipt = NoThread

SentOK(pair, row) == ~row.cancel => row.receipt = pair[2]

SameExecution(t, u) == t.replica = u.replica /\ t.run = u.run

OneTaskPerRun(set) == \A t, u \in set : SameExecution(t, u) => t = u

TasksOK ==
    /\ OneTaskPerRun(tasks)
    /\ \A t \in tasks : AttemptOK(t, run[t.run]) /\ ThreadOK(t, run[t.run])
    /\ \A pair \in submitted : SentOK(pair, run[pair[1]])

\* What a task relies on, of the rows: no replica gains one, no receipt changes, a
\* cancellation stays.
Undisturbed(old, new) ==
    /\ new.owner \in Replicas => new.owner = old.owner /\ new.attempt = old.attempt
    /\ new.receipt = old.receipt
    /\ old.cancel => new.cancel
    /\ new.owner \in Replicas /\ new.status = "running" /\ ~new.cancel
         => old.status = "running"

RowsUndisturbed == \A r \in Runs : Undisturbed(run[r], run'[r])

\* Steps outside the Cloud flows leave the rows of Cloud runs as they are.
LEMMA OthersDoNotDisturb ==
    ASSUME IInv, QuietStep \/ DesktopTakes \/ LogStep
    PROVE  RowsUndisturbed
  <1> USE IInvFacts
  <1>1. NoOwner \notin Replicas /\ Replicas \cap Runners = {}
    BY ConstantsAssumption DEF ConstantsAssumption
  <1>2. \A r \in Runs : Undisturbed(run[r], run[r])
    BY DEF Undisturbed
  <1>3. ASSUME NEW r \in Runs, NEW new, run' = [run EXCEPT ![r] = new],
               Undisturbed(run[r], new)
        PROVE  RowsUndisturbed
    BY <1>2, <1>3 DEF RowsUndisturbed
  <1>4. CASE run' = run
    BY <1>2, <1>4 DEF RowsUndisturbed
  <1>5. CASE QuietStep
    <2>1. \A old, new : Quiet(old, new) => Undisturbed(old, new)
      BY <1>1 DEF Quiet, Undisturbed
    <2>2. QED
      BY <1>3, <1>4, <1>5, <2>1 DEF QuietStep
  <1>6. CASE DesktopTakes
    <2>1. PICK u \in Runners, r \in Runs :
            Claimable(r) /\ run' = [run EXCEPT ![r] = Leased(@, u)]
      BY <1>6 DEF DesktopTakes
    <2>2. Undisturbed(run[r], Leased(run[r], u))
      BY <1>1 DEF Undisturbed, Leased, Rows
    <2>3. run' = [run EXCEPT ![r] = Leased(run[r], u)]
      BY <2>1
    <2>4. QED
      BY <1>3, <2>2, <2>3
  <1>7. CASE LogStep
    <2>1. PICK r \in Runs, n \in Nat, seq \in Nat, new \in Rows :
            run' = [run EXCEPT ![r] = new] /\ Logged(r, n, seq, new)
      BY <1>7 DEF LogStep
    <2>2. Undisturbed(run[r], new)
      BY <2>1 DEF Logged, Undisturbed
    <2>3. QED
      BY <1>3, <2>1, <2>2
  <1>8. QED
    BY <1>5, <1>6, <1>7

\* A task and a sent turn stay sound in an undisturbed row.
LEMMA UndisturbedTask ==
    ASSUME NEW old, NEW new, Undisturbed(old, new), NEW t, t.replica \in Replicas
    PROVE  /\ AttemptOK(t, old) => AttemptOK(t, new)
           /\ ThreadOK(t, old) => ThreadOK(t, new)
           /\ \A pair : SentOK(pair, old) => SentOK(pair, new)
  BY DEF Undisturbed, AttemptOK, ThreadOK, SentOK

\* What one step may do to a task that is past its claim: it keeps its execution,
\* and its thread while it has one to send a turn to.
Continues(t, next) ==
    /\ SameExecution(t, next)
    /\ next.attempt = t.attempt
    /\ t.phase # "claiming"
    /\ next.phase # "claiming"
    /\ next.phase \in {"created", "admitted"} => next.phase = t.phase /\ next.thread = t.thread

TaskMove ==
    /\ submitted' = submitted
    /\ \/ tasks' \subseteq tasks
       \/ \E t \in tasks : \E next : Become(t, next) /\ Continues(t, next)

\* Every step that is not the start of a task, its claim, or one of the three steps
\* that handle its thread moves one task along, or removes some.
LEMMA EveryTaskMove ==
    ASSUME IInv, [Next]_vars
    PROVE  \/ TaskMove
           \/ \E p \in Replicas, r \in Runs : StartCloudRun(p, r)
           \/ \E t \in tasks : CloudTakes(t) \/ Admits(t) \/ ReadReceipt(t) \/ SendTurn(t)
  <1>1. ASSUME tasks' = tasks, submitted' = submitted PROVE TaskMove
    BY <1>1 DEF TaskMove
  <1>2. CASE UNCHANGED vars
    BY <1>1, <1>2 DEF vars
  <1>3. CASE Tick
    BY <1>1, <1>3 DEF Tick
  <1>4. ASSUME NEW s \in Sessions, OwnerStep(s) PROVE TaskMove
    BY <1>1, <1>4 DEF OwnerStep, CancelRead, CancelWrite
  <1>5. ASSUME NEW r \in Runs, RefuseRun(r) PROVE TaskMove
    BY <1>1, <1>5 DEF RefuseRun
  <1>6. ASSUME NEW p \in Replicas, CycleStep(p) PROVE TaskMove
    BY <1>1, <1>6 DEF CycleStep, TickStart, RecoverRow, SelectUnclaimed, ExpireUnclaimedDesktop
  <1>7. ASSUME NEW p \in Replicas, Crash(p) PROVE TaskMove
    BY <1>7 DEF Crash, TaskMove
  <1>8. ASSUME NEW u \in Runners, RunnerStep(u) PROVE TaskMove
    BY <1>1, <1>8 DEF RunnerStep, ClaimDesktop, DeliverAssignment, SkipRun, HeartbeatDesktop,
       PostEvent, FinishDesktop, PostTerminal, CompleteDesktop, RunnerLost
  <1>9. ASSUME NEW t \in tasks, TaskStep(t) \/ Monitor(t)
        PROVE  TaskMove \/ CloudTakes(t) \/ Admits(t) \/ ReadReceipt(t) \/ SendTurn(t)
    <2>1. t \in Tasks
      BY DEF IInv, LocalTypes, SoundTasks
    <2>2. ASSUME NEW next, Become(t, next), Continues(t, next), submitted' = submitted
          PROVE  TaskMove
      BY <2>2 DEF TaskMove
    <2>3. ASSUME Leave(t), submitted' = submitted PROVE TaskMove
      BY <2>3 DEF Leave, TaskMove
    <2>4. CASE ClaimCloud(t)
      BY <2>3, <2>4 DEF ClaimCloud, CloudTakes
    <2>5. CASE CheckAgent(t)
      <3>1. /\ Continues(t, [t EXCEPT !.phase = "starting"])
            /\ Continues(t, [t EXCEPT !.phase = "completing", !.result = "cancelled"])
            /\ Continues(t, [t EXCEPT !.phase = "completing", !.result = "failed"])
        BY <2>1, <2>5 DEF Continues, SameExecution, Tasks, CheckAgent
      <3>2. QED
        BY <2>2, <2>5, <3>1 DEF CheckAgent
    <2>6. CASE Monitor(t)
      <3>1. Continues(t, [t EXCEPT !.aborted = TRUE])
        BY <2>1, <2>6 DEF Continues, SameExecution, Tasks, Monitor, Executing
      <3>2. QED
        BY <1>1, <2>2, <2>6, <3>1 DEF Monitor
    <2>7. CASE SetCloudExecution(t)
      <3>1. Continues(t, [t EXCEPT !.phase = "reporting", !.result = "failed",
                                   !.thread = NoThread])
        BY <2>1, <2>7 DEF Continues, SameExecution, Tasks, SetCloudExecution
      <3>2. QED
        BY <2>2, <2>7, <3>1 DEF SetCloudExecution, Admits
    <2>8. CASE FinishAgent(t)
      <3>1. \A result \in Results :
              Continues(t, [t EXCEPT !.phase = "reporting", !.result = result,
                                     !.thread = NoThread])
        BY <2>1, <2>8 DEF Continues, SameExecution, Tasks, FinishAgent, Executing
      <3>2. QED
        BY <2>2, <2>8, <3>1 DEF FinishAgent
    <2>9. CASE ReportEvent(t)
      <3>1. \A phase \in {"reporting", "completing"} :
              Continues(t, [t EXCEPT !.seq = @ + 1, !.phase = phase])
        BY <2>1, <2>9 DEF Continues, SameExecution, Tasks, ReportEvent
      <3>2. QED
        BY <2>2, <2>3, <2>9, <3>1 DEF ReportEvent, Reported
    <2>10. CASE FinishScript(t)
      <3>1. \A result \in {"succeeded", "failed"} :
              Continues(t, [t EXCEPT !.phase = "completing", !.result = result])
        BY <2>1, <2>10 DEF Continues, SameExecution, Tasks, FinishScript
      <3>2. QED
        BY <2>2, <2>10, <3>1 DEF FinishScript
    <2>11. CASE CompleteCloud(t)
      BY <2>3, <2>11 DEF CompleteCloud
    <2>12. QED
      BY <1>9, <2>4, <2>5, <2>6, <2>7, <2>8, <2>9, <2>10, <2>11 DEF TaskStep
  <1>10. QED
    BY <1>2, <1>3, <1>4, <1>5, <1>6, <1>7, <1>8, <1>9 DEF Next

\* A task that moves along stays the only one of its replica and run.
LEMMA BecomeUnique ==
    ASSUME OneTaskPerRun(tasks), NEW t \in tasks, NEW next, Become(t, next),
           SameExecution(t, next)
    PROVE  OneTaskPerRun(tasks')
  BY DEF OneTaskPerRun, SameExecution, Become

\* The types of the Cloud flows and of the turns submitted.
LEMMA TaskTypes ==
    ASSUME IInv
    PROVE  /\ \A t \in tasks : /\ t \in Tasks
                               /\ t.replica \in Replicas
                               /\ t.run \in Runs
                               /\ t.phase \in {"created", "admitted"} => t.thread \in Threads
           /\ \A pair \in submitted : pair[1] \in Runs /\ pair[2] \in Threads
           /\ NoThread \notin Threads
           /\ NoOwner \notin Replicas
  BY ConstantsAssumption DEF IInv, LocalTypes, SoundTasks, Tasks, Threads, ConstantsAssumption

\* In undisturbed rows the tasks and turns of before the step are still sound.
LEMMA UndisturbedTasks ==
    ASSUME IInv, TasksOK, RowsUndisturbed
    PROVE  /\ \A t \in tasks : AttemptOK(t, run'[t.run]) /\ ThreadOK(t, run'[t.run])
           /\ \A pair \in submitted : SentOK(pair, run'[pair[1]])
  <1>1. ASSUME NEW t \in tasks
        PROVE  AttemptOK(t, run'[t.run]) /\ ThreadOK(t, run'[t.run])
    <2>1. t.replica \in Replicas /\ Undisturbed(run[t.run], run'[t.run])
      BY TaskTypes DEF RowsUndisturbed
    <2>2. AttemptOK(t, run[t.run]) /\ ThreadOK(t, run[t.run])
      BY DEF TasksOK
    <2>3. QED
      BY <2>1, <2>2, UndisturbedTask
  <1>2. ASSUME NEW pair \in submitted PROVE SentOK(pair, run'[pair[1]])
    <2>1. Undisturbed(run[pair[1]], run'[pair[1]])
      BY TaskTypes DEF RowsUndisturbed
    <2>2. SentOK(pair, run[pair[1]])
      BY DEF TasksOK
    <2>3. QED
      BY <2>1, <2>2 DEF Undisturbed, SentOK
  <1>3. QED
    BY <1>1, <1>2

\* A step of one flow keeps what all flows know of their runs.
LEMMA TaskMoveKeeps ==
    ASSUME IInv, TasksOK, RowsUndisturbed, TaskMove
    PROVE  TasksOK'
  <1>1. /\ \A t \in tasks : AttemptOK(t, run'[t.run]) /\ ThreadOK(t, run'[t.run])
        /\ \A pair \in submitted' : SentOK(pair, run'[pair[1]])
    BY UndisturbedTasks DEF TaskMove
  <1>2. CASE tasks' \subseteq tasks
    BY <1>1, <1>2 DEF TasksOK, OneTaskPerRun
  <1>3. ASSUME NEW t \in tasks, NEW next, Become(t, next), Continues(t, next) PROVE TasksOK'
    <2>1. OneTaskPerRun(tasks')
      BY <1>3, BecomeUnique DEF TasksOK, Continues
    <2>2. AttemptOK(next, run'[t.run]) /\ ThreadOK(next, run'[t.run])
      BY <1>1, <1>3 DEF Continues, SameExecution, AttemptOK, ThreadOK
    <2>3. next.run = t.run
      BY <1>3 DEF Continues, SameExecution
    <2>4. \A u \in tasks' : u = next \/ u \in tasks
      BY <1>3 DEF Become
    <2>5. \A u \in tasks' : AttemptOK(u, run'[u.run]) /\ ThreadOK(u, run'[u.run])
      BY <1>1, <2>2, <2>3, <2>4
    <2>6. QED
      BY <1>1, <2>1, <2>5 DEF TasksOK
  <1>4. QED
    BY <1>2, <1>3 DEF TaskMove

\* A new task is the first one of its replica and run, and has nothing yet.
LEMMA StartKeeps ==
    ASSUME IInv, TasksOK, NEW p \in Replicas, NEW r \in Runs, StartCloudRun(p, r)
    PROVE  TasksOK'
  <1> DEFINE new == NewTask(p, r)
  <1>1. run' = run /\ submitted' = submitted /\ tasks' = tasks \cup {new}
    BY DEF StartCloudRun
  <1>2. new.replica = p /\ new.run = r /\ new.phase = "claiming"
    BY DEF NewTask
  <1> HIDE DEF new
  <1>3. AttemptOK(new, run[new.run]) /\ ThreadOK(new, run[new.run])
    BY <1>2 DEF AttemptOK, ThreadOK
  <1>4. OneTaskPerRun(tasks')
    BY <1>1, <1>2 DEF StartCloudRun, TasksOf, TasksOK, OneTaskPerRun, SameExecution
  <1>5. QED
    BY <1>1, <1>3, <1>4 DEF TasksOK

\* The receipt a task reads is the thread it will use; without one, in a row its
\* own lease keeps running, the receipt is empty.
LEMMA ReadKeeps ==
    ASSUME IInv, TasksOK, NEW t \in tasks, ReadReceipt(t)
    PROVE  TasksOK'
  <1> DEFINE row == run[t.run]
             created == [t EXCEPT !.phase = "created", !.thread = <<t.replica, t.attempt>>]
             admitted == [t EXCEPT !.phase = "admitted", !.thread = row.receipt]
  <1>1. run' = run /\ submitted' = submitted /\ t.phase = "starting"
    BY DEF ReadReceipt
  <1>2. /\ SameExecution(t, created) /\ SameExecution(t, admitted)
        /\ created.phase = "created" /\ admitted.phase = "admitted"
        /\ created.attempt = t.attempt /\ admitted.attempt = t.attempt
        /\ admitted.thread = row.receipt
    BY TaskTypes DEF SameExecution, Tasks
  <1>3. \/ Become(t, created) /\ (row.status = "running" => row.receipt = NoThread)
        \/ Become(t, admitted)
    BY DEF ReadReceipt
  <1>4. AttemptOK(t, row)
    BY DEF TasksOK
  <1> HIDE DEF row, created, admitted
  <1>5. ASSUME NEW next, Become(t, next), SameExecution(t, next), AttemptOK(next, row),
               ThreadOK(next, row)
        PROVE  TasksOK'
    <2>1. OneTaskPerRun(tasks')
      BY <1>5, BecomeUnique DEF TasksOK
    <2>2. \A u \in tasks' : u = next \/ u \in tasks
      BY <1>5 DEF Become
    <2>3. next.run = t.run
      BY <1>5 DEF SameExecution
    <2>4. QED
      BY <1>1, <1>5, <2>1, <2>2, <2>3 DEF TasksOK, row
  <1>6. /\ AttemptOK(created, row) /\ AttemptOK(admitted, row)
        /\ ThreadOK(admitted, row)
        /\ (row.status = "running" => row.receipt = NoThread) => ThreadOK(created, row)
    BY <1>1, <1>2, <1>4 DEF AttemptOK, ThreadOK, SameExecution
  <1>7. QED
    BY <1>2, <1>3, <1>5, <1>6

\* A turn goes to the thread that was admitted.
LEMMA SendKeeps ==
    ASSUME IInv, TasksOK, NEW t \in tasks, SendTurn(t)
    PROVE  TasksOK'
  <1> DEFINE next == [t EXCEPT !.phase = "waiting"]
             pair == <<t.run, t.thread>>
  <1>1. /\ run' = run /\ t.phase = "admitted" /\ Become(t, next)
        /\ submitted' = submitted \cup {pair}
    BY DEF SendTurn
  <1>2. /\ SameExecution(t, next) /\ next.phase = "waiting" /\ next.attempt = t.attempt
        /\ pair[1] = t.run /\ pair[2] = t.thread
    BY TaskTypes DEF SameExecution, Tasks
  <1> HIDE DEF next, pair
  <1>3. AttemptOK(t, run[t.run]) /\ ThreadOK(t, run[t.run])
    BY DEF TasksOK
  <1>4. /\ AttemptOK(next, run[next.run]) /\ ThreadOK(next, run[next.run])
        /\ SentOK(pair, run[pair[1]])
    BY <1>1, <1>2, <1>3 DEF AttemptOK, ThreadOK, SentOK, SameExecution
  <1>5. OneTaskPerRun(tasks')
    BY <1>1, <1>2, BecomeUnique DEF TasksOK
  <1>6. \A u \in tasks' : u = next \/ u \in tasks
    BY <1>1 DEF Become
  <1>7. QED
    BY <1>1, <1>4, <1>5, <1>6 DEF TasksOK

\* A claim gives the run to the only task its replica has for it.
LEMMA ClaimKeeps ==
    ASSUME IInv, TasksOK, NEW t \in tasks, CloudTakes(t)
    PROVE  TasksOK'
  <1> DEFINE row == run[t.run]
             new == Leased(row, t.replica)
             next == [t EXCEPT !.attempt = row.attempt + 1,
                               !.phase = IF row.kind = "agent" THEN "checking" ELSE "scripting"]
  <1>1. t.run \in Runs /\ t \in Tasks /\ run \in [Runs -> Rows] /\ row \in Rows
    BY TaskTypes DEF IInv
  <1>2. /\ run' = [run EXCEPT ![t.run] = new]
        /\ Become(t, next)
        /\ submitted' = submitted
    BY <1>1 DEF CloudTakes, ClaimCloud
  <1>3. /\ new.owner = t.replica
        /\ new.attempt = row.attempt + 1
        /\ new.receipt = row.receipt
        /\ new.cancel = row.cancel
    BY <1>1 DEF Leased, Rows
  <1>4. /\ SameExecution(t, next)
        /\ next.attempt = row.attempt + 1
        /\ next.phase \in {"checking", "scripting"}
    BY <1>1 DEF SameExecution, Tasks
  <1> HIDE DEF new, next
  <1>5. AttemptOK(next, new) /\ ThreadOK(next, new)
    BY <1>3, <1>4 DEF AttemptOK, ThreadOK, SameExecution
  <1>6. ASSUME NEW u \in tasks, u # t
        PROVE  AttemptOK(u, run'[u.run]) /\ ThreadOK(u, run'[u.run])
    <2>1. AttemptOK(u, run[u.run]) /\ ThreadOK(u, run[u.run]) /\ u.run \in Runs
      BY TaskTypes DEF TasksOK
    <2>2. CASE u.run = t.run
      <3>1. u.replica # t.replica
        BY <1>6, <2>2 DEF TasksOK, OneTaskPerRun, SameExecution
      <3>2. run'[u.run] = new
        BY <1>1, <1>2, <2>2
      <3>3. QED
        BY <1>3, <2>1, <2>2, <3>1, <3>2 DEF AttemptOK, ThreadOK
    <2>3. CASE u.run # t.run
      BY <1>1, <1>2, <2>1, <2>3
    <2>4. QED
      BY <2>2, <2>3
  <1>7. ASSUME NEW pair \in submitted PROVE SentOK(pair, run'[pair[1]])
    <2>1. SentOK(pair, run[pair[1]]) /\ pair[1] \in Runs
      BY TaskTypes DEF TasksOK
    <2>2. QED
      BY <1>1, <1>2, <1>3, <2>1 DEF SentOK
  <1>8. OneTaskPerRun(tasks')
    BY <1>2, <1>4, BecomeUnique DEF TasksOK
  <1>9. \A u \in tasks' : u = next \/ (u \in tasks /\ u # t)
    BY <1>2 DEF Become
  <1>10. run'[next.run] = new
    BY <1>1, <1>2, <1>4 DEF SameExecution
  <1>11. QED
    BY <1>2, <1>5, <1>6, <1>7, <1>8, <1>9, <1>10 DEF TasksOK

\* Storing a receipt overwrites none of a run that nobody asked to cancel: nothing
\* was sent for it yet, and no other task of the run holds a thread.
LEMMA AdmitKeeps ==
    ASSUME IInv, TasksOK, NEW t \in tasks, Admits(t)
    PROVE  TasksOK'
  <1> DEFINE row == run[t.run]
             new == [row EXCEPT !.receipt = t.thread]
             next == [t EXCEPT !.phase = "admitted"]
  <1>1. t.run \in Runs /\ t \in Tasks /\ run \in [Runs -> Rows] /\ row \in Rows
    BY TaskTypes DEF IInv
  <1>2. /\ run' = [run EXCEPT ![t.run] = new]
        /\ Become(t, next)
        /\ submitted' = submitted
        /\ t.phase = "created"
        /\ row.owner = t.replica
        /\ row.status = "running"
    BY <1>1 DEF Admits, AdmitAllowed, SetCloudExecution
  <1>3. /\ new.owner = row.owner
        /\ new.attempt = row.attempt
        /\ new.status = row.status
        /\ new.cancel = row.cancel
        /\ new.receipt = t.thread
    BY <1>1 DEF Rows
  <1>4. /\ SameExecution(t, next)
        /\ next.attempt = t.attempt
        /\ next.thread = t.thread
        /\ next.phase = "admitted"
    BY <1>1 DEF SameExecution, Tasks
  <1>5. AttemptOK(t, row) /\ (~row.cancel => row.receipt = NoThread)
    BY <1>2 DEF TasksOK, ThreadOK
  <1> HIDE DEF new, next
  <1>6. AttemptOK(next, new) /\ ThreadOK(next, new)
    BY <1>2, <1>3, <1>4, <1>5 DEF AttemptOK, ThreadOK, SameExecution
  <1>7. ASSUME NEW u \in tasks, u # t
        PROVE  AttemptOK(u, run'[u.run]) /\ ThreadOK(u, run'[u.run])
    <2>1. AttemptOK(u, run[u.run]) /\ ThreadOK(u, run[u.run]) /\ u.run \in Runs
      BY TaskTypes DEF TasksOK
    <2>2. CASE u.run = t.run
      <3>1. u.replica # t.replica
        BY <1>7, <2>2 DEF TasksOK, OneTaskPerRun, SameExecution
      <3>2. run'[u.run] = new
        BY <1>1, <1>2, <2>2
      <3>3. AttemptOK(u, new)
        BY <1>3, <2>1, <2>2 DEF AttemptOK
      <3>4. u.phase = "admitted" => row.cancel
        BY <1>5, <2>1, <2>2, TaskTypes DEF ThreadOK
      <3>5. ThreadOK(u, new)
        BY <1>2, <1>3, <3>1, <3>4 DEF ThreadOK
      <3>6. QED
        BY <3>2, <3>3, <3>5
    <2>3. CASE u.run # t.run
      BY <1>1, <1>2, <2>1, <2>3
    <2>4. QED
      BY <2>2, <2>3
  <1>8. ASSUME NEW pair \in submitted PROVE SentOK(pair, run'[pair[1]])
    <2>1. SentOK(pair, run[pair[1]]) /\ pair[1] \in Runs
      BY TaskTypes DEF TasksOK
    <2>2. CASE pair[1] = t.run
      <3>1. row.cancel
        BY <1>5, <2>1, <2>2, TaskTypes DEF SentOK
      <3>2. QED
        BY <1>1, <1>2, <1>3, <2>2, <3>1 DEF SentOK
    <2>3. CASE pair[1] # t.run
      BY <1>1, <1>2, <2>1, <2>3
    <2>4. QED
      BY <2>2, <2>3
  <1>9. OneTaskPerRun(tasks')
    BY <1>2, <1>4, BecomeUnique DEF TasksOK
  <1>10. \A u \in tasks' : u = next \/ (u \in tasks /\ u # t)
    BY <1>2 DEF Become
  <1>11. run'[next.run] = new
    BY <1>1, <1>2, <1>4 DEF SameExecution
  <1>12. QED
    BY <1>2, <1>6, <1>7, <1>8, <1>9, <1>10, <1>11 DEF TasksOK

\* Every step keeps what the flows know of their runs.
LEMMA TasksStep ==
    ASSUME IInv, TasksOK, [Next]_vars
    PROVE  TasksOK'
  <1>1. CASE \E t \in tasks : CloudTakes(t) \/ Admits(t)
    BY <1>1, ClaimKeeps, AdmitKeeps
  <1>2. CASE ~ \E t \in tasks : CloudTakes(t) \/ Admits(t)
    <2>1. RowsUndisturbed
      BY <1>2, EveryStepKinds, OthersDoNotDisturb DEF RowKinds
    <2>2. \/ TaskMove
          \/ \E p \in Replicas, r \in Runs : StartCloudRun(p, r)
          \/ \E t \in tasks : ReadReceipt(t) \/ SendTurn(t)
      BY <1>2, EveryTaskMove
    <2>3. QED
      BY <2>1, <2>2, TaskMoveKeeps, StartKeeps, ReadKeeps, SendKeeps
  <1>3. QED
    BY <1>1, <1>2

\* The owner named in a row identifies the execution: the replica has one task for
\* the run, and once past its claim that task is in the attempt of the row.
THEOREM OwnersAreTasks == Spec => []TasksOK
  <1>1. Init => TasksOK
    BY DEF Init, TasksOK, OneTaskPerRun
  <1>2. IInv /\ TasksOK /\ [Next]_vars => TasksOK'
    BY TasksStep
  <1>3. QED
    BY <1>1, <1>2, InductiveInvariant, PTL DEF Spec

\* All the attempts of a run nobody asked to cancel send its turn to one native
\* thread, whichever replicas execute them and wherever they crash.
THEOREM OneThreadPerRun == Spec => []TurnSentToOneThread
  <1>1. IInv /\ TasksOK => TurnSentToOneThread
    <2>1. SUFFICES ASSUME IInv, TasksOK, NEW pair \in submitted, NEW other \in submitted,
                          pair[1] = other[1], ~run[pair[1]].cancel
                   PROVE  pair = other
      BY DEF TurnSentToOneThread
    <2>2. pair[2] = other[2]
      BY <2>1 DEF TasksOK, SentOK
    <2>3. pair \in Runs \X Threads /\ other \in Runs \X Threads
      BY <2>1 DEF IInv, LocalTypes
    <2>4. QED
      BY <2>1, <2>2, <2>3
  <1>2. QED
    BY <1>1, InductiveInvariant, OwnersAreTasks, PTL

\* A task that leaves while completing and changes the status of its run does so as
\* the owner of the run.
LEMMA CompletedByOwner ==
    ASSUME IInv, TasksOK, [Next]_vars, NEW t \in tasks, t.phase = "completing",
           t \notin tasks', run'[t.run].status # run[t.run].status
    PROVE  t.attempt = run[t.run].attempt
  <1>1. ASSUME tasks' = tasks PROVE FALSE
    BY <1>1
  <1>2. ASSUME run' = run PROVE FALSE
    BY <1>2
  <1>3. CASE UNCHANGED vars
    BY <1>1, <1>3 DEF vars
  <1>4. CASE Tick
    BY <1>1, <1>4 DEF Tick
  <1>5. ASSUME NEW s \in Sessions, OwnerStep(s) PROVE FALSE
    BY <1>1, <1>5 DEF OwnerStep, CancelRead, CancelWrite
  <1>6. ASSUME NEW r \in Runs, RefuseRun(r) PROVE FALSE
    BY <1>1, <1>6 DEF RefuseRun
  <1>7. ASSUME NEW p \in Replicas,
               CycleStep(p) \/ Crash(p) \/ \E r \in Runs : StartCloudRun(p, r)
        PROVE  FALSE
    BY <1>1, <1>2, <1>7 DEF CycleStep, TickStart, RecoverRow, SelectUnclaimed,
       ExpireUnclaimedDesktop, Crash, StartCloudRun
  <1>8. ASSUME NEW u \in Runners, RunnerStep(u) PROVE FALSE
    BY <1>1, <1>8 DEF RunnerStep, ClaimDesktop, DeliverAssignment, SkipRun, HeartbeatDesktop,
       PostEvent, FinishDesktop, PostTerminal, CompleteDesktop, RunnerLost
  <1>9. ASSUME NEW u \in tasks, TaskStep(u) \/ Monitor(u)
        PROVE  t.attempt = run[t.run].attempt
    <2>1. u = t
      BY <1>9 DEF TaskStep, Monitor, ClaimCloud, CheckAgent, ReadReceipt, SetCloudExecution,
         SendTurn, FinishAgent, ReportEvent, Reported, FinishScript, CompleteCloud, Become, Leave
    <2>2. CompleteCloud(t)
      BY <1>9, <2>1 DEF TaskStep, Monitor, ClaimCloud, CheckAgent, ReadReceipt,
         SetCloudExecution, SendTurn, FinishAgent, ReportEvent, FinishScript, Executing
    <2>3. CompleteAllowed(t.run, t.replica)
      BY <1>2, <2>2 DEF CompleteCloud
    <2>4. run[t.run].owner = t.replica
      BY <2>3 DEF CompleteAllowed, LeaseValid
    <2>5. AttemptOK(t, run[t.run])
      BY DEF TasksOK
    <2>6. QED
      BY <2>4, <2>5 DEF AttemptOK
  <1>10. QED
    BY <1>3, <1>4, <1>5, <1>6, <1>7, <1>8, <1>9 DEF Next

\* The result of a Cloud task is that of the run's latest attempt, although
\* completeCloud sends no attempt number: the owner it does send is enough.
THEOREM ResultsOfLatestAttempt == Spec => ResultByLatestAttempt
  <1>1. IInv /\ TasksOK /\ [Next]_vars =>
          [\A t \in tasks :
              (/\ t.phase = "completing"
               /\ t \notin tasks'
               /\ run'[t.run].status # run[t.run].status)
                  => t.attempt = run[t.run].attempt]_vars
    BY CompletedByOwner
  <1>2. QED
    BY <1>1, InductiveInvariant, OwnersAreTasks, PTL DEF Spec, ResultByLatestAttempt

=============================================================================
