---------------------------- MODULE CloudWorkers ----------------------------
(***************************************************************************)
(* The cloud worker of one member: its row, the record of its sandbox, the *)
(* sandboxes the provider has for it, and the flows of every replica of    *)
(* Den that change them: the instance request of a browser, waking, first  *)
(* provisioning and healing, the idle stop loop, the reconcile loop, and   *)
(* the runs of cloud Automations that need the worker up.                  *)
(*                                                                         *)
(* A step is one statement that changes the database, or one call of the   *)
(* provider, with what is read for it.                                     *)
(* The sandbox under the name of the current snapshot is "named"; the one  *)
(* of the snapshot before the last deployment is "older", and is found by  *)
(* the record only.  A sandbox whose OpenWork process answers is serving,  *)
(* and posts a heartbeat every minute, which touches the row.              *)
(*                                                                         *)
(* Source: ee/apps/den-api/src/workers/cloud-lifecycle.ts, reconciler.ts,  *)
(* daytona.ts, routes/workers/shared.ts, routes/workers/activity.ts,       *)
(* routes/cloud/index.ts, automations/cloud-agent-executor.ts.  Two rows   *)
(* made for one member, deletion, previews and providers are left out.     *)
(***************************************************************************)
EXTENDS Integers, FiniteSets

CONSTANTS
    Replicas,
    Gateways,     \* replicas the member's browser is routed to
    Executors,    \* replicas that execute runs
    Stoppers,     \* replicas whose idle loop is switched on
    Reconcilers,  \* replicas whose reconcile loop is switched on
    MaxDeploys,   \* BOUND: new snapshots
    MaxFaults     \* BOUND: crashes of a replica, sandboxes the provider loses, and
                  \* operations that outlast the 20 minutes of the reconciler

ASSUME CloudAssumption ==
    /\ Gateways \cup Executors \cup Stoppers \cup Reconcilers \subseteq Replicas
    /\ MaxDeploys \in 0..1  \* the sandboxes of two snapshots are told apart
    /\ MaxFaults \in Nat

VARIABLES
    worker,   \* the row; idle and overdue say what its two time stamps are older than
    record,   \* which sandbox the row of the sandbox table points to
    sandbox,  \* the provider
    run,      \* the claimed or running cloud run of the member
    flow,     \* what each replica has in progress
    deploys, faults,
    takenOver \* history: the reconciler took over a worker that was not left behind

cloudVars == <<worker, record, sandbox, run, flow, deploys, faults, takenOver>>

NoWorker == [status |-> "absent", tokens |-> FALSE, outdated |-> TRUE, used |-> FALSE,
             idle |-> FALSE, overdue |-> FALSE]

NoGet == [phase |-> "none", outdated |-> FALSE]

NoFlow == [get |-> NoGet, wake |-> "none", provision |-> "none", stop |-> "none",
           reconcile |-> "none"]

Statuses == {"provisioning", "healthy", "stopped", "failed"}

TypeOK ==
    /\ worker \in [status : Statuses, tokens : BOOLEAN, outdated : BOOLEAN, used : BOOLEAN,
                   idle : BOOLEAN, overdue : BOOLEAN] \cup {NoWorker}
    /\ worker.overdue => worker.status = "provisioning"
    /\ record \in {"none", "named", "older"}
    /\ sandbox \in [{"named", "older"} -> {"none", "stopped", "booting", "serving"}]
    /\ run \in {"none", "claimed", "using"}
    /\ flow \in [Replicas ->
        [get : [phase : {"none", "creating", "healing"} \cup Statuses, outdated : BOOLEAN],
         wake : {"none", "called", "reserved", "up", "upgraded", "failed"},
         provision : {"none", "called", "up", "failed"},
         stop : {"none", "listed", "reserved", "stopped", "failed"},
         reconcile : {"none", "listed", "awaiting"}]]
    /\ deploys \in 0..MaxDeploys /\ faults \in 0..MaxFaults
    /\ takenOver \in BOOLEAN

Init ==
    /\ worker = NoWorker
    /\ record = "none"
    /\ sandbox = [s \in {"named", "older"} |-> "none"]
    /\ run = "none"
    /\ flow = [p \in Replicas |-> NoFlow]
    /\ deploys = 0 /\ faults = 0
    /\ takenOver = FALSE

Up == {"booting", "serving"}

-----------------------------------------------------------------------------
(* The row.                                                                *)

\* Mutant of Written: updated_at is left alone.
WrittenUntouched(w, status) == [w EXCEPT !.status = status]

\* The row with another status: updated_at is new, and so is the time idleness is
\* counted from as long as there is no last_active_at.
Written(w, status) ==
    [w EXCEPT !.status = status, !.overdue = FALSE, !.idle = @ /\ w.used]

\* UPDATE ... SET status = to WHERE status IN (from).
Cas(from, to) == worker' = IF worker.status \in from THEN Written(worker, to) ELSE worker

\* The same with the image version of the worker, which is the current snapshot.
CasUpgraded(from, to) ==
    worker' = IF worker.status \in from THEN [Written(worker, to) EXCEPT !.outdated = FALSE]
              ELSE worker

\* wakeInFlight and cloudProvisioningInFlight: a call joins the one in progress.
Called(phase) == IF phase = "none" THEN "called" ELSE phase

Operating(p) ==
    \/ flow[p].get.phase = "creating"
    \/ flow[p].wake \notin {"none", "called"}
    \/ flow[p].provision # "none"
    \/ flow[p].stop \notin {"none", "listed"}

-----------------------------------------------------------------------------
(* GET /v1/cloud/instance, and the same for the gateway.                   *)

\* ensureCloudWorker: the row, then the tokens, then provisioning.
InsertCloudWorker(p) ==
    /\ p \in Gateways
    /\ worker.status = "absent"
    /\ worker' = [NoWorker EXCEPT !.status = "provisioning"]
    /\ flow' = [flow EXCEPT ![p].get.phase = "creating"]
    /\ UNCHANGED <<record, sandbox, run, deploys, faults, takenOver>>

InsertWorkerTokens(p) ==
    /\ flow[p].get.phase = "creating"
    /\ worker' = [worker EXCEPT !.tokens = TRUE]
    /\ flow' = [flow EXCEPT ![p].get = NoGet, ![p].provision = Called(@)]
    /\ UNCHANGED <<record, sandbox, run, deploys, faults, takenOver>>

\* A worker that is provisioning is answered without doing anything.
GetCloudWorker(p) ==
    /\ p \in Gateways
    /\ flow[p].get = NoGet
    /\ worker.status \in Statuses \ {"provisioning"}
    /\ flow' = [flow EXCEPT ![p].get = [phase |-> worker.status, outdated |-> worker.outdated]]
    /\ UNCHANGED <<worker, record, sandbox, run, deploys, faults, takenOver>>

StartWake(p) == flow' = [flow EXCEPT ![p].get = NoGet, ![p].wake = Called(@)]

Answer(p) == flow' = [flow EXCEPT ![p].get = NoGet]

\* Without its tokens the worker that was claimed fails again.
StartFailedCloudHeal(p) ==
    IF worker.status = "failed" /\ worker.tokens
    THEN /\ worker' = Written(worker, "provisioning")
         /\ flow' = [flow EXCEPT ![p].get = NoGet, ![p].provision = Called(@)]
    ELSE /\ Cas({"failed"}, "failed")
         /\ Answer(p)

\* The healing that comes next is a statement of its own.
MarkHealthyWorkerFailed(p) ==
    /\ Cas({"healthy"}, "failed")
    /\ flow' = [flow EXCEPT ![p].get = [phase |-> "healing", outdated |-> FALSE]]

\* startStaleStoppedRecycle, with the image the row had when it was read.
StaleStopped(p) ==
    /\ record # "none"
    /\ flow[p].get.outdated
    /\ sandbox[record] = "stopped"

Recycle(p) ==
    /\ Cas({"healthy", "stopped"}, "provisioning")
    /\ IF worker.status \in {"healthy", "stopped"} THEN StartWake(p) ELSE Answer(p)

\* The record of a sandbox is taken for a sandbox to be woken.
ResolveFailed(p) ==
    /\ flow[p].get.phase = "failed"
    /\ IF record = "none" THEN StartFailedCloudHeal(p)
       ELSE /\ Cas({"failed"}, "provisioning")
            /\ IF worker.status = "failed" THEN StartWake(p) ELSE Answer(p)
    /\ UNCHANGED <<record, sandbox, run, deploys, faults, takenOver>>

ResolveStopped(p) ==
    /\ flow[p].get.phase = "stopped"
    /\ IF StaleStopped(p) THEN Recycle(p) ELSE StartWake(p) /\ UNCHANGED worker
    /\ UNCHANGED <<record, sandbox, run, deploys, faults, takenOver>>

\* A serving sandbox answers the probe, or misses its 2.5 seconds.
ResolveHealthy(p) ==
    /\ flow[p].get.phase = "healthy"
    /\ \/ record = "none" /\ MarkHealthyWorkerFailed(p)
       \/ record # "none" /\ StaleStopped(p) /\ Recycle(p)
       \/ /\ record # "none" /\ ~StaleStopped(p)
          /\ \/ sandbox[record] = "serving" /\ Answer(p) /\ UNCHANGED worker
             \/ sandbox[record] = "stopped" /\ StartWake(p) /\ UNCHANGED worker
             \/ sandbox[record] # "stopped" /\ MarkHealthyWorkerFailed(p)
    /\ UNCHANGED <<record, sandbox, run, deploys, faults, takenOver>>

HealFailed(p) ==
    /\ flow[p].get.phase = "healing"
    /\ StartFailedCloudHeal(p)
    /\ UNCHANGED <<record, sandbox, run, deploys, faults, takenOver>>

\* requestCloudInstanceUpdate: the sandbox is flushed and stopped, the row is left.
RequestUpdate ==
    /\ worker.outdated
    /\ record # "none"
    /\ sandbox[record] \in Up
    /\ sandbox' = [sandbox EXCEPT ![record] = "stopped"]
    /\ UNCHANGED <<worker, record, run, flow, deploys, faults, takenOver>>

-----------------------------------------------------------------------------
(* Bringing a sandbox up.                                                  *)

\* provisionWorkerOnDaytona adopts the sandbox of that name or creates it.  When the
\* process does not come up the sandbox stays, and is not recorded.
Provisioned ==
    /\ sandbox' = [sandbox EXCEPT !["named"] = "serving"]
    /\ record' = "named"

NotProvisioned ==
    /\ \/ UNCHANGED sandbox
       \/ sandbox' = [sandbox EXCEPT !["named"] = "booting"]
    /\ UNCHANGED record

\* wakeWorkerOnDaytona finds the sandbox of the record.
Recorded == record # "none" /\ sandbox[record] # "none"

\* wakeExistingDaytonaSandbox starts it when it is stopped, and its process anyhow.
Woken == sandbox' = [sandbox EXCEPT ![record] = "serving"] /\ UNCHANGED record

NotWoken ==
    /\ \/ UNCHANGED sandbox
       \/ sandbox' = [sandbox EXCEPT ![record] = "booting"]
    /\ UNCHANGED record

\* recycleDaytonaSandbox: the replacement takes the name, the old one is deleted.
Recycled ==
    /\ worker.outdated
    /\ sandbox[record] = "stopped"
    /\ sandbox["named"] = "none"
    /\ sandbox' = [sandbox EXCEPT !["named"] = "serving", !["older"] = "none"]
    /\ record' = "named"

-----------------------------------------------------------------------------
(* wakeCloudWorker.                                                        *)

\* Mutant of ReserveWake: the status is not part of the WHERE clause.
ReserveWakeAlways(p) ==
    /\ flow[p].wake = "called"
    /\ worker' = Written(worker, "provisioning")
    /\ flow' = [flow EXCEPT ![p].wake = "reserved"]
    /\ UNCHANGED <<record, sandbox, run, deploys, faults, takenOver>>

\* Whoever finds another status than stopped returns without doing anything.
ReserveWake(p) ==
    /\ flow[p].wake = "called"
    /\ Cas({"stopped"}, "provisioning")
    /\ flow' = [flow EXCEPT ![p].wake = IF worker.status = "stopped" THEN "reserved" ELSE "none"]
    /\ UNCHANGED <<record, sandbox, run, deploys, faults, takenOver>>

WakeWorker(p) ==
    /\ flow[p].wake = "reserved"
    /\ \E result \in {"up", "upgraded", "failed"} :
        /\ flow' = [flow EXCEPT ![p].wake = result]
        /\ \/ ~worker.tokens /\ result = "failed" /\ UNCHANGED <<sandbox, record>>
           \/ /\ worker.tokens /\ ~Recorded
              /\ \/ result = "upgraded" /\ Provisioned
                 \/ result = "failed" /\ NotProvisioned
           \/ /\ worker.tokens /\ Recorded
              /\ \/ result = "upgraded" /\ Recycled
                 \/ result = "up" /\ Woken
                 \/ result = "failed" /\ NotWoken
    /\ UNCHANGED <<worker, run, deploys, faults, takenOver>>

WriteWoken(p) ==
    /\ flow[p].wake \in {"up", "upgraded", "failed"}
    /\ \/ flow[p].wake = "up" /\ Cas({"provisioning"}, "healthy")
       \/ flow[p].wake = "upgraded" /\ CasUpgraded({"provisioning"}, "healthy")
       \/ flow[p].wake = "failed" /\ Cas({"provisioning"}, "failed")
    /\ flow' = [flow EXCEPT ![p].wake = "none"]
    /\ UNCHANGED <<record, sandbox, run, deploys, faults, takenOver>>

-----------------------------------------------------------------------------
(* continueCloudProvisioning.                                              *)

ProvisionWorker(p) ==
    /\ flow[p].provision = "called"
    /\ \/ Provisioned /\ flow' = [flow EXCEPT ![p].provision = "up"]
       \/ NotProvisioned /\ flow' = [flow EXCEPT ![p].provision = "failed"]
    /\ UNCHANGED <<worker, run, deploys, faults, takenOver>>

\* A success is written over a failure that another replica recorded meanwhile.
WriteProvisioned(p) ==
    /\ flow[p].provision \in {"up", "failed"}
    /\ IF flow[p].provision = "up" THEN CasUpgraded({"provisioning", "failed"}, "healthy")
       ELSE Cas({"provisioning"}, "failed")
    /\ flow' = [flow EXCEPT ![p].provision = "none",
                            ![p].reconcile = IF @ = "awaiting" THEN "none" ELSE @]
    /\ UNCHANGED <<record, sandbox, run, deploys, faults, takenOver>>

-----------------------------------------------------------------------------
(* reconcileStaleProvisioningWorkers.                                      *)

\* Mutant of Stale: only a worker that has its tokens is listed.
StaleWithTokens == worker.status = "provisioning" /\ worker.overdue /\ worker.tokens

Stale == worker.status = "provisioning" /\ worker.overdue

ListProvisioning(p) ==
    /\ p \in Reconcilers
    /\ flow[p].reconcile = "none"
    /\ Stale
    /\ flow' = [flow EXCEPT ![p].reconcile = "listed"]
    /\ UNCHANGED <<worker, record, sandbox, run, deploys, faults, takenOver>>

\* The worker was not left behind: its transition has resolved since it was listed, or
\* a replica is still at it, other than with the provisioning this one joins.
TakesOver(p) ==
    \/ worker.status # "provisioning"
    \/ \E q \in Replicas : Operating(q) /\ ~(q = p /\ flow[p].provision # "none")

\* The status is not read again, and nothing is claimed.  The loop waits for the
\* provisioning it started or joined before it goes on.
ReconcileWorker(p) ==
    /\ flow[p].reconcile = "listed"
    /\ takenOver' = (takenOver \/ TakesOver(p))
    /\ IF worker.tokens
       THEN /\ flow' = [flow EXCEPT ![p].provision = Called(@), ![p].reconcile = "awaiting"]
            /\ UNCHANGED worker
       ELSE /\ flow' = [flow EXCEPT ![p].reconcile = "none"]
            /\ Cas({"provisioning"}, "failed")
    /\ UNCHANGED <<record, sandbox, run, deploys, faults>>

-----------------------------------------------------------------------------
(* stopIdleCloudWorkers.                                                   *)

Idle == worker.status = "healthy" /\ worker.idle

\* Mutant of MayStop: a run is looked for when the workers are listed only.
MayStopListed == Idle

\* What the WHERE clause of reserveIdleStop asks again.
MayStop == Idle /\ run = "none"

ListIdle(p) ==
    /\ p \in Stoppers
    /\ flow[p].stop = "none"
    /\ Idle
    /\ run = "none"
    /\ flow' = [flow EXCEPT ![p].stop = "listed"]
    /\ UNCHANGED <<worker, record, sandbox, run, deploys, faults, takenOver>>

ReserveIdleStop(p) ==
    /\ flow[p].stop = "listed"
    /\ IF MayStop
       THEN /\ worker' = Written(worker, "provisioning")
            /\ flow' = [flow EXCEPT ![p].stop = "reserved"]
       ELSE /\ UNCHANGED worker
            /\ flow' = [flow EXCEPT ![p].stop = "none"]
    /\ UNCHANGED <<record, sandbox, run, deploys, faults, takenOver>>

\* A call that timed out may have stopped the sandbox.
StopWorker(p) ==
    /\ flow[p].stop = "reserved"
    /\ \/ /\ IF record = "none" THEN UNCHANGED sandbox
             ELSE sandbox[record] # "none" /\ sandbox' = [sandbox EXCEPT ![record] = "stopped"]
          /\ \E result \in {"stopped", "failed"} : flow' = [flow EXCEPT ![p].stop = result]
       \/ UNCHANGED sandbox /\ flow' = [flow EXCEPT ![p].stop = "failed"]
    /\ UNCHANGED <<worker, record, run, deploys, faults, takenOver>>

\* Mutant of AfterStop: the worker is stopped whatever the provider said.
AfterStopStopped(result) == "stopped"

AfterStop(result) == IF result = "stopped" THEN "stopped" ELSE "healthy"

WriteStopped(p) ==
    /\ flow[p].stop \in {"stopped", "failed"}
    /\ Cas({"provisioning"}, AfterStop(flow[p].stop))
    /\ flow' = [flow EXCEPT ![p].stop = "none"]
    /\ UNCHANGED <<record, sandbox, run, deploys, faults, takenOver>>

-----------------------------------------------------------------------------
(* A run of a cloud Automation, and readyWorker.                           *)

AdmitRun ==
    /\ run = "none"
    /\ worker.status # "absent"
    /\ run' = "claimed"
    /\ UNCHANGED <<worker, record, sandbox, flow, deploys, faults, takenOver>>

\* One turn of the loop of readyWorker.
ReadyWorker(p) ==
    /\ p \in Executors
    /\ run = "claimed"
    /\ \/ /\ worker.status = "stopped"
          /\ flow' = [flow EXCEPT ![p].wake = Called(@)]
          /\ UNCHANGED run
       \/ /\ worker.status = "healthy"
          /\ worker.tokens /\ record # "none" /\ sandbox[record] = "serving"
          /\ run' = "using"
          /\ UNCHANGED flow
    /\ UNCHANGED <<worker, record, sandbox, deploys, faults, takenOver>>

\* It finished, or it failed: no worker became ready in time, or the worker failed.
EndRun ==
    /\ run # "none"
    /\ run' = "none"
    /\ UNCHANGED <<worker, record, sandbox, flow, deploys, faults, takenOver>>

-----------------------------------------------------------------------------
(* Time and the provider.                                                  *)

Reporting == \E s \in {"named", "older"} : sandbox[s] = "serving"

\* A heartbeat that says the worker was active.
ActiveHeartbeat ==
    /\ worker.tokens
    /\ Reporting
    /\ worker' = [worker EXCEPT !.idle = FALSE, !.used = TRUE, !.overdue = FALSE]
    /\ UNCHANGED <<record, sandbox, run, flow, deploys, faults, takenOver>>

\* The half hour since the last activity passes.
BecomeIdle ==
    /\ worker.status # "absent"
    /\ worker' = [worker EXCEPT !.idle = TRUE]
    /\ UNCHANGED <<record, sandbox, run, flow, deploys, faults, takenOver>>

\* Twenty minutes pass in which no statement and no heartbeat touch the row, while
\* nobody is at the worker or while somebody still is.
BecomeOverdue ==
    /\ worker.status = "provisioning" /\ ~worker.overdue
    /\ ~Reporting
    /\ IF \E p \in Replicas : Operating(p)
       THEN faults < MaxFaults /\ faults' = faults + 1
       ELSE UNCHANGED faults
    /\ worker' = [worker EXCEPT !.overdue = TRUE]
    /\ UNCHANGED <<record, sandbox, run, flow, deploys, takenOver>>

\* A process nobody waited for any more comes up.
Boot(s) ==
    /\ sandbox[s] = "booting"
    /\ sandbox' = [sandbox EXCEPT ![s] = "serving"]
    /\ UNCHANGED <<worker, record, run, flow, deploys, faults, takenOver>>

LoseSandbox(s) ==
    /\ faults < MaxFaults
    /\ sandbox[s] # "none"
    /\ sandbox' = [sandbox EXCEPT ![s] = "none"]
    /\ faults' = faults + 1
    /\ UNCHANGED <<worker, record, run, flow, deploys, takenOver>>

\* Den is restarted with a new snapshot, between operations.
Deploy ==
    /\ deploys < MaxDeploys
    /\ \A p \in Replicas : ~Operating(p)
    /\ deploys' = deploys + 1
    /\ worker' = [worker EXCEPT !.outdated = TRUE]
    /\ sandbox' = [named |-> "none", older |-> sandbox["named"]]
    /\ record' = IF record = "named" THEN "older" ELSE record
    /\ flow' = [p \in Replicas |-> NoFlow]
    /\ UNCHANGED <<run, faults, takenOver>>

\* The flows of a replica are lost, and the run it executes.
Crash(p) ==
    /\ faults < MaxFaults
    /\ flow[p] # NoFlow
    /\ flow' = [flow EXCEPT ![p] = NoFlow]
    /\ faults' = faults + 1
    /\ UNCHANGED <<worker, record, sandbox, run, deploys, takenOver>>

InstanceStep(p) ==
    \/ InsertCloudWorker(p) \/ InsertWorkerTokens(p) \/ GetCloudWorker(p)
    \/ ResolveFailed(p) \/ ResolveStopped(p) \/ ResolveHealthy(p) \/ HealFailed(p)

\* What a replica has begun goes on.
OperationStep(p) ==
    \/ InsertWorkerTokens(p)
    \/ ReserveWake(p) \/ WakeWorker(p) \/ WriteWoken(p)
    \/ ProvisionWorker(p) \/ WriteProvisioned(p)
    \/ ReserveIdleStop(p) \/ StopWorker(p) \/ WriteStopped(p)

ReconcileStep(p) == ListProvisioning(p) \/ ReconcileWorker(p)

Next ==
    \/ \E p \in Replicas :
        \/ InstanceStep(p) \/ OperationStep(p) \/ ReconcileStep(p)
        \/ ListIdle(p) \/ ReadyWorker(p) \/ Crash(p)
    \/ RequestUpdate
    \/ AdmitRun \/ EndRun
    \/ ActiveHeartbeat \/ BecomeIdle \/ BecomeOverdue
    \/ \E s \in {"named", "older"} : Boot(s) \/ LoseSandbox(s)
    \/ Deploy

Spec == Init /\ [][Next]_cloudVars

\* An operation a replica has begun ends, its reconcile loop has a timer, and time
\* passes.  Browsers, runs and processes that come up late owe nothing.
FairSpec ==
    /\ Spec
    /\ \A p \in Replicas : WF_cloudVars(OperationStep(p)) /\ WF_cloudVars(ReconcileStep(p))
    /\ WF_cloudVars(BecomeOverdue)

-----------------------------------------------------------------------------
(* Properties.                                                             *)

\* The status of the row is the mutex of the replicas: of all that wake, provision
\* and stop the worker, one at most is at the provider.
OneProviderAction ==
    Cardinality({p \in Replicas : flow[p].wake = "reserved"})
    + Cardinality({p \in Replicas : flow[p].provision = "called"})
    + Cardinality({p \in Replicas : flow[p].stop = "reserved"}) <= 1

\* It is, for those who claim the row with a conditional update (the first request,
\* waking, healing, idle stops) and for a reconciler that finds it left behind: two of
\* them are at the provider only after a reconciler has taken over a worker that was not.
ClaimsExclude == takenOver \/ OneProviderAction

\* Up to then the idle loop does not stop the worker a run is using, although the run
\* is admitted and the workers are listed by different replicas.
IdleStopSparesRuns ==
    takenOver \/ (run = "using" => \A p \in Replicas : flow[p].stop # "reserved")

\* What requests conclude from the status alone: a healthy worker has its tokens and
\* a record of its sandbox, whatever the reconcilers do, and until one of them takes
\* over, the sandbox of a stopped worker is not left running.
StatusIsTrue ==
    /\ worker.status = "healthy" => worker.tokens /\ record # "none"
    /\ worker.status = "stopped" /\ record # "none" => takenOver \/ sandbox[record] \notin Up

\* A worker that is provisioning with no process that reports does not stay so:
\* the reconciler finishes what a crash, a lost sandbox or a wake that found
\* another status left behind.
SilentIsReconciled ==
    worker.status = "provisioning" /\ ~Reporting
        ~> worker.status # "provisioning" \/ Reporting

\* What those who poll a provisioning worker wait for: the transition resolves.
ProvisioningEnds == worker.status = "provisioning" ~> worker.status # "provisioning"
=============================================================================
