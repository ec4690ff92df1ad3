---------------------------- MODULE RunLifecycle ----------------------------
(***************************************************************************)
(* What the Automation run table promises its readers: the statuses a run  *)
(* goes through, how often it is started, and what a cancellation request  *)
(* may do to it.  AutomationRuns implements it; AutomationSchedule takes   *)
(* it as the behaviour of the runs it creates.                             *)
(***************************************************************************)
EXTENDS Naturals

CONSTANTS Runs, MaximumAttempts

ASSUME MaximumAttemptsAssumption == MaximumAttempts \in Nat \ {0}

VARIABLES status, attempt, cancel

lifecycleVars == <<status, attempt, cancel>>

TerminalStatuses == {"succeeded", "failed", "cancelled", "skipped"}
RunStatuses == {"absent", "queued", "running"} \cup TerminalStatuses

LifecycleTypeOK ==
    /\ status \in [Runs -> RunStatuses]
    /\ attempt \in [Runs -> Nat]
    /\ cancel \in [Runs -> BOOLEAN]

LifecycleInit ==
    /\ status \in [Runs -> {"absent", "queued", "skipped"}]
    /\ attempt = [r \in Runs |-> 0]
    /\ cancel = [r \in Runs |-> FALSE]

\* A claim inserts the run: queued, or skipped because another one is active.
Create(r, first) ==
    /\ status[r] = "absent"
    /\ first \in {"queued", "skipped"}
    /\ status' = [status EXCEPT ![r] = first]
    /\ UNCHANGED <<attempt, cancel>>

\* An executor takes the run.
StartRun(r) ==
    /\ status[r] = "queued"
    /\ attempt[r] < MaximumAttempts
    /\ status' = [status EXCEPT ![r] = "running"]
    /\ attempt' = [attempt EXCEPT ![r] = @ + 1]
    /\ UNCHANGED cancel

\* Its lease expired and an attempt is left.
Requeue(r) ==
    /\ status[r] = "running"
    /\ attempt[r] < MaximumAttempts
    /\ status' = [status EXCEPT ![r] = "queued"]
    /\ UNCHANGED <<attempt, cancel>>

\* It ends, executed or not.
Finish(r, last) ==
    /\ status[r] \in {"queued", "running"}
    /\ last \in TerminalStatuses
    /\ status' = [status EXCEPT ![r] = last]
    /\ UNCHANGED <<attempt, cancel>>

\* The owner's request is recorded together with a status that was read
\* earlier; only "queued" is never written.
Cancel(r, written) ==
    /\ status[r] # "absent"
    /\ written \in RunStatuses \ {"absent", "queued"}
    /\ cancel' = [cancel EXCEPT ![r] = TRUE]
    /\ status' = [status EXCEPT ![r] = written]
    /\ UNCHANGED attempt

\* A run recorded as cancelled while its lease was still held is recovered
\* when that lease expires.
RecoverCancelled(r, recovered) ==
    /\ cancel[r]
    /\ status[r] \in TerminalStatuses
    /\ recovered \in {"queued", "failed"}
    /\ recovered = "queued" => attempt[r] < MaximumAttempts
    /\ status' = [status EXCEPT ![r] = recovered]
    /\ UNCHANGED <<attempt, cancel>>

RunStep(r) ==
    \/ StartRun(r)
    \/ Requeue(r)
    \/ \E s \in RunStatuses : Finish(r, s) \/ Cancel(r, s) \/ RecoverCancelled(r, s)

LifecycleNext == \E r \in Runs : RunStep(r) \/ \E s \in RunStatuses : Create(r, s)

LifecycleSpec == LifecycleInit /\ [][LifecycleNext]_lifecycleVars

\* No run is started more often than allowed (AUTOMATION_MAXIMUM_ATTEMPTS).
LifecycleAttemptBound == \A r \in Runs : attempt[r] <= MaximumAttempts

=============================================================================
