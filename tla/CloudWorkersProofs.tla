------------------------ MODULE CloudWorkersProofs ------------------------
(***************************************************************************)
(* Theorems about CloudWorkers, for any number of replicas that answer     *)
(* browsers, execute runs, stop idle workers and reconcile: types, the     *)
(* mutex that the status of the row is, and what a status promises.        *)
(*                                                                         *)
(* Nothing in the code claims an overdue worker, so the status is a mutex  *)
(* until a reconciler takes over a worker that was not left behind: that   *)
(* step is what takenOver remembers, and no other step breaks exclusion.   *)
(***************************************************************************)
EXTENDS CloudWorkers, FiniteSetTheorems, TLAPS

\* What a replica has in progress is one thing, and the row says provisioning.
Creating(f) == f.get.phase = "creating"
Waking(f) == f.wake \notin {"none", "called"}
Provisioning(f) == f.provision # "none"
Stopping(f) == f.stop \notin {"none", "listed"}

OneThing(f) ==
    /\ Creating(f) => ~Waking(f) /\ ~Provisioning(f) /\ ~Stopping(f)
    /\ Waking(f) => ~Provisioning(f) /\ ~Stopping(f)
    /\ Provisioning(f) => ~Stopping(f)

MutexOK ==
    /\ \A p \in Replicas : Operating(p) => worker.status = "provisioning" /\ OneThing(flow[p])
    /\ \A p, q \in Replicas : Operating(p) /\ Operating(q) => p = q

\* What the flows and the status have made sure of; that the sandbox is halted, until a
\* reconciler takes over.
Recoverable == worker.tokens /\ record # "none"
Halted == takenOver \/ (record \in {"named", "older"} /\ sandbox[record] \notin Up)

KnownOK ==
    /\ worker.status \in {"healthy", "stopped"} => Recoverable
    /\ worker.status = "stopped" => Halted
    /\ \A p \in Replicas :
        /\ flow[p].provision # "none" => worker.tokens
        /\ flow[p].provision = "up" => Recoverable
        /\ flow[p].wake \in {"up", "upgraded"} => Recoverable
        /\ Stopping(flow[p]) => Recoverable
        /\ flow[p].stop = "stopped" => Halted
    /\ deploys = 0 => record # "older"

-----------------------------------------------------------------------------
(* The row.                                                                *)

Rows == [status : Statuses, tokens : BOOLEAN, outdated : BOOLEAN, used : BOOLEAN,
         idle : BOOLEAN, overdue : BOOLEAN]

RowOK == /\ worker \in Rows \cup {NoWorker}
         /\ worker.overdue => worker.status = "provisioning"

\* A write of the status restarts its age and keeps the tokens.
LEMMA WrittenTyped ==
    ASSUME NEW w \in Rows, NEW status \in Statuses
    PROVE  /\ Written(w, status) \in Rows
           /\ Written(w, status).status = status
           /\ Written(w, status).tokens = w.tokens
           /\ Written(w, status).overdue = FALSE
  <1> DEFINE b == w.idle /\ w.used
  <1>1. b \in BOOLEAN
    OBVIOUS
  <1>2. Written(w, status) = [w EXCEPT !.status = status, !.overdue = FALSE, !.idle = b]
    BY DEF Written
  <1> HIDE DEF b
  <1>3. QED
    BY <1>1, <1>2 DEF Rows

\* The status moved on, or the statement found another one.
Moves(from, to) ==
    /\ worker.status \in from => /\ worker'.status = to /\ worker'.overdue = FALSE
                                 /\ worker'.tokens = worker.tokens
    /\ worker.status \notin from => UNCHANGED worker

\* A conditional update moves the row from one of its statuses.
LEMMA CasMoves ==
    ASSUME RowOK, NEW from \in SUBSET Statuses, NEW to \in Statuses,
           Cas(from, to) \/ CasUpgraded(from, to)
    PROVE  RowOK' /\ Moves(from, to)
  <1>1. CASE worker.status \in from
    <2>1. worker \in Rows
      BY <1>1 DEF RowOK, NoWorker, Statuses
    <2> DEFINE w == Written(worker, to)
    <2>2. /\ w \in Rows /\ w.status = to /\ w.tokens = worker.tokens /\ w.overdue = FALSE
      BY <2>1, WrittenTyped
    <2>3. worker' = w \/ worker' = [w EXCEPT !.outdated = FALSE]
      BY <1>1 DEF Cas, CasUpgraded
    <2> HIDE DEF w
    <2>4. /\ worker' \in Rows /\ worker'.status = to /\ worker'.tokens = worker.tokens
          /\ worker'.overdue = FALSE
      BY <2>2, <2>3 DEF Rows
    <2>5. QED
      BY <1>1, <2>4 DEF RowOK, Moves
  <1>2. CASE worker.status \notin from
    BY <1>2 DEF Cas, CasUpgraded, RowOK, Moves
  <1>3. QED
    BY <1>1, <1>2

\* The row keeps its shape and its tokens, and does not go away.
RowStep ==
    /\ RowOK'
    /\ worker.status # "absent" => worker'.status # "absent"
    /\ worker.tokens => worker'.tokens

\* A healing moves the row as rows may move.
LEMMA HealMoves ==
    ASSUME RowOK, NEW p \in Replicas, StartFailedCloudHeal(p)
    PROVE  RowStep
  <1>1. CASE worker.status = "failed" /\ worker.tokens
    <2>1. worker' = Written(worker, "provisioning")
      BY <1>1 DEF StartFailedCloudHeal
    <2>2. worker \in Rows /\ "provisioning" \in Statuses
      BY <1>1 DEF RowOK, NoWorker, Statuses, RowStep
    <2>3. QED
      BY <2>1, <2>2, WrittenTyped DEF RowOK, RowStep
  <1>2. CASE ~(worker.status = "failed" /\ worker.tokens)
    <2>1. {"failed"} \in SUBSET Statuses /\ "failed" \in Statuses
      BY DEF Statuses
    <2>2. QED
      BY <1>2, <2>1, CasMoves DEF StartFailedCloudHeal, Moves, RowStep
  <1>3. QED
    BY <1>1, <1>2

\* A row that was made is not absent again, and is there before its tokens are.
PresentOK ==
    worker.status = "absent" => \A p \in Replicas : flow[p].get.phase # "creating"

\* Every step moves the row as rows may move.
LEMMA StepRow ==
    ASSUME TypeOK, PresentOK, Next
    PROVE  RowStep
  <1>0. RowOK
    BY DEF TypeOK, RowOK, Rows
  <1>1. CASE UNCHANGED worker
    BY <1>0, <1>1 DEF RowOK, RowStep, NoWorker, Statuses
  <1>2. ASSUME NEW from \in SUBSET Statuses, NEW to \in Statuses,
               Cas(from, to) \/ CasUpgraded(from, to)
        PROVE  RowStep
    <2>1. RowOK' /\ Moves(from, to) /\ to # "absent"
      BY <1>0, <1>2, CasMoves DEF Statuses
    <2>2. QED
      BY <2>1 DEF Moves, RowStep
  <1>3. \A x \in Statuses : {x} \in SUBSET Statuses
    OBVIOUS
  <1>4. {"healthy", "provisioning", "failed", "stopped"} \subseteq Statuses
    BY DEF Statuses
  <1>5. {"healthy", "stopped"} \in SUBSET Statuses /\ {"provisioning", "failed"} \in SUBSET Statuses
    BY DEF Statuses
  <1>6. ASSUME NEW p \in Replicas, InsertCloudWorker(p) PROVE RowStep
    <2>1. worker = NoWorker
      BY <1>0, <1>6 DEF InsertCloudWorker, RowOK, Rows, Statuses
    <2>2. worker' = [NoWorker EXCEPT !.status = "provisioning"]
      BY <1>6 DEF InsertCloudWorker
    <2>3. QED
      BY <2>1, <2>2 DEF RowOK, Rows, NoWorker, Statuses, RowStep
  <1>7. ASSUME NEW p \in Replicas, InsertWorkerTokens(p) PROVE RowStep
    <2>1. worker \in Rows /\ worker' = [worker EXCEPT !.tokens = TRUE]
      BY <1>0, <1>7 DEF InsertWorkerTokens, RowOK, PresentOK, NoWorker, RowStep
    <2>2. QED
      BY <1>0, <2>1 DEF RowOK, Rows, RowStep, NoWorker, Statuses
  <1>8. ASSUME NEW p \in Replicas, ResolveFailed(p) PROVE RowStep
    <2>1. StartFailedCloudHeal(p) \/ Cas({"failed"}, "provisioning")
      BY <1>8 DEF ResolveFailed
    <2>2. QED
      BY <1>0, <1>2, <1>3, <1>4, <2>1, HealMoves
  <1>9. ASSUME NEW p \in Replicas, ResolveStopped(p) PROVE RowStep
    BY <1>1, <1>2, <1>4, <1>5, <1>9 DEF ResolveStopped, Recycle
  <1>10. ASSUME NEW p \in Replicas, ResolveHealthy(p) PROVE RowStep
    BY <1>1, <1>2, <1>3, <1>4, <1>5, <1>10 DEF ResolveHealthy, Recycle, MarkHealthyWorkerFailed
  <1>11. ASSUME NEW p \in Replicas, HealFailed(p) PROVE RowStep
    BY <1>0, <1>11, HealMoves DEF HealFailed
  <1>12. ASSUME NEW p \in Replicas, ReserveWake(p) PROVE RowStep
    BY <1>2, <1>3, <1>4, <1>12 DEF ReserveWake
  <1>13. ASSUME NEW p \in Replicas, WriteWoken(p) PROVE RowStep
    BY <1>2, <1>3, <1>4, <1>13 DEF WriteWoken
  <1>14. ASSUME NEW p \in Replicas, WriteProvisioned(p) PROVE RowStep
    BY <1>2, <1>3, <1>4, <1>5, <1>14 DEF WriteProvisioned
  <1>15. ASSUME NEW p \in Replicas, ReconcileWorker(p) PROVE RowStep
    BY <1>1, <1>2, <1>3, <1>4, <1>15 DEF ReconcileWorker
  <1>16. ASSUME NEW p \in Replicas, ReserveIdleStop(p) PROVE RowStep
    <2>1. CASE MayStop
      <3>1. worker \in Rows /\ worker' = Written(worker, "provisioning")
        BY <1>0, <1>16, <2>1 DEF ReserveIdleStop, MayStop, Idle, RowOK, NoWorker, RowStep
      <3>2. QED
        BY <1>4, <3>1, WrittenTyped DEF RowOK, RowStep, NoWorker, Statuses
    <2>2. CASE ~MayStop
      BY <1>1, <1>16, <2>2 DEF ReserveIdleStop
    <2>3. QED
      BY <2>1, <2>2
  <1>17. ASSUME NEW p \in Replicas, WriteStopped(p) PROVE RowStep
    BY <1>2, <1>3, <1>4, <1>17 DEF WriteStopped, AfterStop
  <1>18. CASE ActiveHeartbeat
    <2>1. worker \in Rows /\ worker' = [worker EXCEPT !.idle = FALSE, !.used = TRUE, !.overdue = FALSE]
      BY <1>0, <1>18 DEF ActiveHeartbeat, RowOK, NoWorker, RowStep
    <2>2. QED
      BY <2>1 DEF RowOK, Rows, RowStep, NoWorker, Statuses
  <1>19. CASE BecomeIdle
    <2>1. worker \in Rows /\ worker' = [worker EXCEPT !.idle = TRUE]
      BY <1>0, <1>19 DEF BecomeIdle, RowOK, NoWorker, RowStep
    <2>2. QED
      BY <1>0, <2>1 DEF RowOK, Rows, RowStep, NoWorker, Statuses
  <1>20. CASE BecomeOverdue
    <2>1. /\ worker \in Rows /\ worker' = [worker EXCEPT !.overdue = TRUE]
          /\ worker.status = "provisioning"
      BY <1>0, <1>20 DEF BecomeOverdue, RowOK, NoWorker, RowStep
    <2>2. QED
      BY <2>1 DEF RowOK, Rows, RowStep, NoWorker, Statuses
  <1>21. CASE Deploy
    <2>1. worker' = [worker EXCEPT !.outdated = TRUE]
      BY <1>21 DEF Deploy
    <2>2. CASE worker \in Rows
      BY <1>0, <2>1, <2>2 DEF RowOK, Rows, RowStep, NoWorker, Statuses
    <2>3. CASE worker = NoWorker
      BY <2>1, <2>3 DEF RowOK, NoWorker, RowStep
    <2>4. QED
      BY <1>0, <2>2, <2>3 DEF RowOK, RowStep, NoWorker, Statuses
  <1>22. QED
    BY <1>1, <1>6, <1>7, <1>8, <1>9, <1>10, <1>11, <1>12, <1>13, <1>14, <1>15, <1>16, <1>17,
       <1>18, <1>19, <1>20, <1>21
       DEF Next, InstanceStep, OperationStep, ReconcileStep, GetCloudWorker, WakeWorker,
           ProvisionWorker, ListProvisioning, ListIdle, ReadyWorker, StopWorker, Crash,
           RequestUpdate, AdmitRun, EndRun, Boot, LoseSandbox

-----------------------------------------------------------------------------
(* The flows and the provider.                                             *)

Flows ==
    [get : [phase : {"none", "creating", "healing"} \cup Statuses, outdated : BOOLEAN],
     wake : {"none", "called", "reserved", "up", "upgraded", "failed"},
     provision : {"none", "called", "up", "failed"},
     stop : {"none", "listed", "reserved", "stopped", "failed"},
     reconcile : {"none", "listed", "awaiting"}]

RestOK ==
    /\ record \in {"none", "named", "older"}
    /\ sandbox \in [{"named", "older"} -> {"none", "stopped", "booting", "serving"}]
    /\ run \in {"none", "claimed", "using"}
    /\ flow \in [Replicas -> Flows]
    /\ deploys \in 0..MaxDeploys /\ faults \in 0..MaxFaults /\ takenOver \in BOOLEAN

\* The type invariant, as the row's part and the rest.
LEMMA TypeParts == TypeOK <=> RowOK /\ RestOK
  BY DEF TypeOK, RowOK, Rows, RestOK, Flows

\* The flow of a replica after a step of its own.
To(p, get, wake, provision, stop, reconcile) ==
    flow' = [flow EXCEPT ![p] =
        [get |-> get, wake |-> wake, provision |-> provision, stop |-> stop,
         reconcile |-> reconcile]]

\* What a replica's flows are after an assignment of all five.
LEMMA FlowFields ==
    ASSUME RestOK, NEW p \in Replicas,
           NEW g, NEW w, NEW v, NEW s, NEW r, To(p, g, w, v, s, r)
    PROVE  /\ flow'[p].get = g /\ flow'[p].wake = w /\ flow'[p].provision = v
           /\ flow'[p].stop = s /\ flow'[p].reconcile = r
           /\ \A q \in Replicas \ {p} : flow'[q] = flow[q]
           /\ [get |-> g, wake |-> w, provision |-> v, stop |-> s, reconcile |-> r] \in Flows
                => flow' \in [Replicas -> Flows]
  BY DEF To, RestOK

\* The types of a replica's five flows.
LEMMA FlowTypes ==
    ASSUME RestOK, NEW p \in Replicas
    PROVE  /\ flow[p].get \in [phase : {"none", "creating", "healing"} \cup Statuses,
                               outdated : BOOLEAN]
           /\ flow[p].wake \in {"none", "called", "reserved", "up", "upgraded", "failed"}
           /\ flow[p].provision \in {"none", "called", "up", "failed"}
           /\ flow[p].stop \in {"none", "listed", "reserved", "stopped", "failed"}
           /\ flow[p].reconcile \in {"none", "listed", "awaiting"}
  BY DEF RestOK, Flows

\* One part of the flow changes.
GetTo(p, g) == To(p, g, flow[p].wake, flow[p].provision, flow[p].stop, flow[p].reconcile)
WakeTo(p, w) == To(p, flow[p].get, w, flow[p].provision, flow[p].stop, flow[p].reconcile)
StopTo(p, x) == To(p, flow[p].get, flow[p].wake, flow[p].provision, x, flow[p].reconcile)
ReconcileTo(p, v, r) == To(p, flow[p].get, flow[p].wake, v, flow[p].stop, r)
ToWake(p) ==
    To(p, NoGet, Called(flow[p].wake), flow[p].provision, flow[p].stop, flow[p].reconcile)
ToProvision(p) ==
    To(p, NoGet, flow[p].wake, Called(flow[p].provision), flow[p].stop, flow[p].reconcile)
ToHealing(p) == GetTo(p, [phase |-> "healing", outdated |-> FALSE])

\* Updates of one field, written out.
LEMMA FlowParts ==
    ASSUME NEW f \in Flows, NEW g, NEW w, NEW v, NEW x, NEW r
    PROVE  /\ [f EXCEPT !.get = g] =
                [get |-> g, wake |-> f.wake, provision |-> f.provision,
                 stop |-> f.stop, reconcile |-> f.reconcile]
           /\ [f EXCEPT !.wake = w] =
                [get |-> f.get, wake |-> w, provision |-> f.provision,
                 stop |-> f.stop, reconcile |-> f.reconcile]
           /\ [f EXCEPT !.provision = v] =
                [get |-> f.get, wake |-> f.wake, provision |-> v,
                 stop |-> f.stop, reconcile |-> f.reconcile]
           /\ [f EXCEPT !.stop = x] =
                [get |-> f.get, wake |-> f.wake, provision |-> f.provision,
                 stop |-> x, reconcile |-> f.reconcile]
           /\ [f EXCEPT !.reconcile = r] =
                [get |-> f.get, wake |-> f.wake, provision |-> f.provision,
                 stop |-> f.stop, reconcile |-> r]
  BY DEF Flows

\* An update of the request and the wake, written out.
LEMMA FlowGetWake ==
    ASSUME NEW f \in Flows, NEW g, NEW w
    PROVE  [f EXCEPT !.get = g, !.wake = w] =
            [get |-> g, wake |-> w, provision |-> f.provision,
             stop |-> f.stop, reconcile |-> f.reconcile]
  <1> DEFINE h == [f EXCEPT !.get = g]
  <1>1. h = [get |-> g, wake |-> f.wake, provision |-> f.provision,
             stop |-> f.stop, reconcile |-> f.reconcile]
    BY DEF Flows
  <1>2. [f EXCEPT !.get = g, !.wake = w] = [h EXCEPT !.wake = w]
    OBVIOUS
  <1> HIDE DEF h
  <1>3. QED
    BY <1>1, <1>2

\* An update of the request and the provisioning, written out.
LEMMA FlowGetProvision ==
    ASSUME NEW f \in Flows, NEW g, NEW v
    PROVE  [f EXCEPT !.get = g, !.provision = v] =
            [get |-> g, wake |-> f.wake, provision |-> v,
             stop |-> f.stop, reconcile |-> f.reconcile]
  <1> DEFINE h == [f EXCEPT !.get = g]
  <1>1. h = [get |-> g, wake |-> f.wake, provision |-> f.provision,
             stop |-> f.stop, reconcile |-> f.reconcile]
    BY DEF Flows
  <1>2. [f EXCEPT !.get = g, !.provision = v] = [h EXCEPT !.provision = v]
    OBVIOUS
  <1> HIDE DEF h
  <1>3. QED
    BY <1>1, <1>2

\* An update of the provisioning and the reconciler, written out.
LEMMA FlowProvisionReconcile ==
    ASSUME NEW f \in Flows, NEW v, NEW r
    PROVE  [f EXCEPT !.provision = v, !.reconcile = r] =
            [get |-> f.get, wake |-> f.wake, provision |-> v,
             stop |-> f.stop, reconcile |-> r]
  <1> DEFINE h == [f EXCEPT !.provision = v]
  <1>1. h = [get |-> f.get, wake |-> f.wake, provision |-> v,
             stop |-> f.stop, reconcile |-> f.reconcile]
    BY DEF Flows
  <1>2. [f EXCEPT !.provision = v, !.reconcile = r] = [h EXCEPT !.reconcile = r]
    OBVIOUS
  <1> HIDE DEF h
  <1>3. QED
    BY <1>1, <1>2

\* A call of provisioning by a request, written out.
LEMMA ProvisionParts ==
    ASSUME NEW f \in Flows
    PROVE  [f EXCEPT !.get = NoGet, !.provision = Called(f.provision)] =
            [get |-> NoGet, wake |-> f.wake, provision |-> Called(f.provision),
             stop |-> f.stop, reconcile |-> f.reconcile]
  BY FlowGetProvision

\* What each step does to the flows of its replica.
LEMMA Effects ==
    ASSUME RestOK, NEW p \in Replicas
    PROVE  /\ InsertCloudWorker(p) => GetTo(p, [flow[p].get EXCEPT !.phase = "creating"])
           /\ InsertWorkerTokens(p) => ToProvision(p)
           /\ GetCloudWorker(p)
                => GetTo(p, [phase |-> worker.status, outdated |-> worker.outdated])
           /\ Answer(p) => GetTo(p, NoGet)
           /\ StartWake(p) => ToWake(p)
           /\ StartFailedCloudHeal(p) => IF worker.status = "failed" /\ worker.tokens
                                         THEN ToProvision(p) ELSE GetTo(p, NoGet)
           /\ MarkHealthyWorkerFailed(p) => ToHealing(p)
           /\ ReserveWake(p) =>
                WakeTo(p, IF worker.status = "stopped" THEN "reserved" ELSE "none")
           /\ WakeWorker(p) => \E x \in {"up", "upgraded", "failed"} : WakeTo(p, x)
           /\ WriteWoken(p) => WakeTo(p, "none")
           /\ ProvisionWorker(p)
                => \E x \in {"up", "failed"} : ReconcileTo(p, x, flow[p].reconcile)
           /\ WriteProvisioned(p) => ReconcileTo(p, "none",
                IF flow[p].reconcile = "awaiting" THEN "none" ELSE flow[p].reconcile)
           /\ ListProvisioning(p) => ReconcileTo(p, flow[p].provision, "listed")
           /\ ReconcileWorker(p) =>
                IF worker.tokens THEN ReconcileTo(p, Called(flow[p].provision), "awaiting")
                ELSE ReconcileTo(p, flow[p].provision, "none")
           /\ ListIdle(p) => StopTo(p, "listed")
           /\ ReserveIdleStop(p) => StopTo(p, IF MayStop THEN "reserved" ELSE "none")
           /\ StopWorker(p) => \E x \in {"stopped", "failed"} : StopTo(p, x)
           /\ WriteStopped(p) => StopTo(p, "none")
           /\ ReadyWorker(p) => UNCHANGED flow \/ WakeTo(p, Called(flow[p].wake))
           /\ Crash(p) => To(p, NoGet, "none", "none", "none", "none")
  <1>0. flow[p] \in Flows
    BY DEF RestOK
  <1>1. ASSUME InsertCloudWorker(p) PROVE GetTo(p, [flow[p].get EXCEPT !.phase = "creating"])
    <2>1. flow' = [flow EXCEPT ![p] = [flow[p] EXCEPT !.get = [flow[p].get EXCEPT !.phase = "creating"]]]
      BY <1>1 DEF InsertCloudWorker
    <2>2. QED
      BY <1>0, <2>1, FlowParts DEF GetTo, To
  <1>2. ASSUME InsertWorkerTokens(p) PROVE ToProvision(p)
    <2>1. flow' = [flow EXCEPT ![p] = [flow[p] EXCEPT !.get = NoGet, !.provision = Called(flow[p].provision)]]
      BY <1>2 DEF InsertWorkerTokens
    <2>2. QED
      BY <1>0, <2>1, ProvisionParts DEF ToProvision, To
  <1>3. ASSUME GetCloudWorker(p) PROVE GetTo(p, [phase |-> worker.status, outdated |-> worker.outdated])
    <2>1. flow' = [flow EXCEPT ![p] = [flow[p] EXCEPT !.get = [phase |-> worker.status, outdated |-> worker.outdated]]]
      BY <1>3 DEF GetCloudWorker
    <2>2. QED
      BY <1>0, <2>1, FlowParts DEF GetTo, To
  <1>4. ASSUME Answer(p) PROVE GetTo(p, NoGet)
    <2>1. flow' = [flow EXCEPT ![p] = [flow[p] EXCEPT !.get = NoGet]]
      BY <1>4 DEF Answer
    <2>2. QED
      BY <1>0, <2>1, FlowParts DEF GetTo, To
  <1>5. ASSUME StartWake(p) PROVE ToWake(p)
    <2>1. flow' = [flow EXCEPT ![p] = [flow[p] EXCEPT !.get = NoGet, !.wake = Called(flow[p].wake)]]
      BY <1>5 DEF StartWake
    <2>2. QED
      BY <1>0, <2>1, FlowGetWake DEF ToWake, To
  <1>6. ASSUME StartFailedCloudHeal(p)
        PROVE  IF worker.status = "failed" /\ worker.tokens THEN ToProvision(p)
               ELSE GetTo(p, NoGet)
    <2>1. CASE worker.status = "failed" /\ worker.tokens
      <3>1. flow' = [flow EXCEPT ![p] =
                [flow[p] EXCEPT !.get = NoGet, !.provision = Called(flow[p].provision)]]
        BY <1>6, <2>1 DEF StartFailedCloudHeal
      <3>2. QED
        BY <1>0, <2>1, <3>1, ProvisionParts DEF ToProvision, To
    <2>2. CASE ~(worker.status = "failed" /\ worker.tokens)
      BY <1>4, <1>6, <2>2 DEF StartFailedCloudHeal
    <2>3. QED
      BY <2>1, <2>2
  <1>7. ASSUME MarkHealthyWorkerFailed(p) PROVE ToHealing(p)
    <2>1. flow' = [flow EXCEPT ![p] = [flow[p] EXCEPT !.get = [phase |-> "healing", outdated |-> FALSE]]]
      BY <1>7 DEF MarkHealthyWorkerFailed, NoGet
    <2>2. QED
      BY <1>0, <2>1, FlowParts DEF ToHealing, GetTo, To
  <1>8. ASSUME ReserveWake(p) PROVE WakeTo(p, IF worker.status = "stopped" THEN "reserved" ELSE "none")
    <2>1. flow' = [flow EXCEPT ![p] = [flow[p] EXCEPT !.wake = IF worker.status = "stopped" THEN "reserved" ELSE "none"]]
      BY <1>8 DEF ReserveWake
    <2>2. QED
      BY <1>0, <2>1, FlowParts DEF WakeTo, To
  <1>9. ASSUME WakeWorker(p) PROVE \E x \in {"up", "upgraded", "failed"} : WakeTo(p, x)
    <2>1. PICK x \in {"up", "upgraded", "failed"} :
            flow' = [flow EXCEPT ![p] = [flow[p] EXCEPT !.wake = x]]
      BY <1>9 DEF WakeWorker
    <2>2. QED
      BY <1>0, <2>1, FlowParts DEF WakeTo, To
  <1>10. ASSUME WriteWoken(p) PROVE WakeTo(p, "none")
    <2>1. flow' = [flow EXCEPT ![p] = [flow[p] EXCEPT !.wake = "none"]]
      BY <1>10 DEF WriteWoken
    <2>2. QED
      BY <1>0, <2>1, FlowParts DEF WakeTo, To
  <1>11. ASSUME ProvisionWorker(p) PROVE \E x \in {"up", "failed"} : ReconcileTo(p, x, flow[p].reconcile)
    <2>1. PICK x \in {"up", "failed"} :
            flow' = [flow EXCEPT ![p] = [flow[p] EXCEPT !.provision = x]]
      BY <1>11 DEF ProvisionWorker
    <2>2. QED
      BY <1>0, <2>1, FlowParts DEF ReconcileTo, To
  <1>12. ASSUME WriteProvisioned(p) PROVE ReconcileTo(p, "none",
                IF flow[p].reconcile = "awaiting" THEN "none" ELSE flow[p].reconcile)
    <2>1. flow' = [flow EXCEPT ![p] = [flow[p] EXCEPT !.provision = "none",
                !.reconcile = IF flow[p].reconcile = "awaiting" THEN "none" ELSE flow[p].reconcile]]
      BY <1>12 DEF WriteProvisioned
    <2>2. QED
      BY <1>0, <2>1, FlowProvisionReconcile DEF ReconcileTo, To
  <1>13. ASSUME ListProvisioning(p) PROVE ReconcileTo(p, flow[p].provision, "listed")
    <2>1. flow' = [flow EXCEPT ![p] = [flow[p] EXCEPT !.reconcile = "listed"]]
      BY <1>13 DEF ListProvisioning
    <2>2. QED
      BY <1>0, <2>1, FlowParts DEF ReconcileTo, To
  <1>14. ASSUME ReconcileWorker(p)
         PROVE  IF worker.tokens THEN ReconcileTo(p, Called(flow[p].provision), "awaiting")
                ELSE ReconcileTo(p, flow[p].provision, "none")
    <2>1. CASE worker.tokens
      <3>1. flow' = [flow EXCEPT ![p] = [flow[p] EXCEPT !.provision = Called(flow[p].provision),
                                                        !.reconcile = "awaiting"]]
        BY <1>14, <2>1 DEF ReconcileWorker
      <3>2. QED
        BY <1>0, <2>1, <3>1, FlowProvisionReconcile DEF ReconcileTo, To
    <2>2. CASE ~worker.tokens
      <3>1. flow' = [flow EXCEPT ![p] = [flow[p] EXCEPT !.reconcile = "none"]]
        BY <1>14, <2>2 DEF ReconcileWorker
      <3>2. QED
        BY <1>0, <2>2, <3>1, FlowParts DEF ReconcileTo, To
    <2>3. QED
      BY <2>1, <2>2
  <1>15. ASSUME ListIdle(p) PROVE StopTo(p, "listed")
    <2>1. flow' = [flow EXCEPT ![p] = [flow[p] EXCEPT !.stop = "listed"]]
      BY <1>15 DEF ListIdle
    <2>2. QED
      BY <1>0, <2>1, FlowParts DEF StopTo, To
  <1>16. ASSUME ReserveIdleStop(p) PROVE StopTo(p, IF MayStop THEN "reserved" ELSE "none")
    <2>1. flow' = [flow EXCEPT ![p] = [flow[p] EXCEPT !.stop = IF MayStop THEN "reserved" ELSE "none"]]
      BY <1>16 DEF ReserveIdleStop
    <2>2. QED
      BY <1>0, <2>1, FlowParts DEF StopTo, To
  <1>17. ASSUME StopWorker(p) PROVE \E x \in {"stopped", "failed"} : StopTo(p, x)
    <2>1. PICK x \in {"stopped", "failed"} :
            flow' = [flow EXCEPT ![p] = [flow[p] EXCEPT !.stop = x]]
      BY <1>17 DEF StopWorker
    <2>2. QED
      BY <1>0, <2>1, FlowParts DEF StopTo, To
  <1>18. ASSUME WriteStopped(p) PROVE StopTo(p, "none")
    <2>1. flow' = [flow EXCEPT ![p] = [flow[p] EXCEPT !.stop = "none"]]
      BY <1>18 DEF WriteStopped
    <2>2. QED
      BY <1>0, <2>1, FlowParts DEF StopTo, To
  <1>19. ASSUME ReadyWorker(p) PROVE UNCHANGED flow \/ WakeTo(p, Called(flow[p].wake))
    <2>1. \/ UNCHANGED flow
          \/ flow' = [flow EXCEPT ![p] = [flow[p] EXCEPT !.wake = Called(flow[p].wake)]]
      BY <1>19 DEF ReadyWorker
    <2>2. QED
      BY <1>0, <2>1, FlowParts DEF WakeTo, To
  <1>20. ASSUME Crash(p) PROVE To(p, NoGet, "none", "none", "none", "none")
    BY <1>20 DEF Crash, NoFlow, To
  <1>21. QED
    BY <1>1, <1>2, <1>3, <1>4, <1>5, <1>6, <1>7, <1>8, <1>9, <1>10, <1>11, <1>12, <1>13, <1>14, <1>15, <1>16, <1>17, <1>18, <1>19, <1>20

Gets == [phase : {"none", "creating", "healing"} \cup Statuses, outdated : BOOLEAN]

\* A step of the request keeps the types.
LEMMA GetTyped ==
    ASSUME RestOK, NEW p \in Replicas,
           NEW g \in Gets, GetTo(p, g)
    PROVE  flow' \in [Replicas -> Flows]
  <1>1. [get |-> g, wake |-> flow[p].wake, provision |-> flow[p].provision,
         stop |-> flow[p].stop, reconcile |-> flow[p].reconcile] \in Flows
    BY FlowTypes DEF Flows, Gets
  <1>2. flow' = [flow EXCEPT ![p] =
        [get |-> g, wake |-> flow[p].wake, provision |-> flow[p].provision,
         stop |-> flow[p].stop, reconcile |-> flow[p].reconcile]]
    BY DEF GetTo, To
  <1>3. QED
    BY <1>1, <1>2 DEF RestOK

\* A step of the wake keeps the types.
LEMMA WakeTyped ==
    ASSUME RestOK, NEW p \in Replicas,
           NEW w \in {"none", "called", "reserved", "up", "upgraded", "failed"}, WakeTo(p, w)
    PROVE  flow' \in [Replicas -> Flows]
  <1>1. [get |-> flow[p].get, wake |-> w, provision |-> flow[p].provision,
         stop |-> flow[p].stop, reconcile |-> flow[p].reconcile] \in Flows
    BY FlowTypes DEF Flows, Gets
  <1>2. flow' = [flow EXCEPT ![p] =
        [get |-> flow[p].get, wake |-> w, provision |-> flow[p].provision,
         stop |-> flow[p].stop, reconcile |-> flow[p].reconcile]]
    BY DEF WakeTo, To
  <1>3. QED
    BY <1>1, <1>2 DEF RestOK

\* A step of the idle stop keeps the types.
LEMMA StopTyped ==
    ASSUME RestOK, NEW p \in Replicas,
           NEW x \in {"none", "listed", "reserved", "stopped", "failed"}, StopTo(p, x)
    PROVE  flow' \in [Replicas -> Flows]
  <1>1. [get |-> flow[p].get, wake |-> flow[p].wake, provision |-> flow[p].provision,
         stop |-> x, reconcile |-> flow[p].reconcile] \in Flows
    BY FlowTypes DEF Flows, Gets
  <1>2. flow' = [flow EXCEPT ![p] =
        [get |-> flow[p].get, wake |-> flow[p].wake, provision |-> flow[p].provision,
         stop |-> x, reconcile |-> flow[p].reconcile]]
    BY DEF StopTo, To
  <1>3. QED
    BY <1>1, <1>2 DEF RestOK

\* A step of the reconciler keeps the types.
LEMMA ReconcileTyped ==
    ASSUME RestOK, NEW p \in Replicas,
           NEW v \in {"none", "called", "up", "failed"},
           NEW r \in {"none", "listed", "awaiting"}, ReconcileTo(p, v, r)
    PROVE  flow' \in [Replicas -> Flows]
  <1>1. [get |-> flow[p].get, wake |-> flow[p].wake, provision |-> v,
         stop |-> flow[p].stop, reconcile |-> r] \in Flows
    BY FlowTypes DEF Flows, Gets
  <1>2. flow' = [flow EXCEPT ![p] =
        [get |-> flow[p].get, wake |-> flow[p].wake, provision |-> v,
         stop |-> flow[p].stop, reconcile |-> r]]
    BY DEF ReconcileTo, To
  <1>3. QED
    BY <1>1, <1>2 DEF RestOK

\* A step of the request that calls another flow keeps the types.
LEMMA BothTyped ==
    ASSUME RestOK, NEW p \in Replicas,
           NEW g \in Gets,
           NEW w \in {"none", "called", "reserved", "up", "upgraded", "failed"},
           NEW v \in {"none", "called", "up", "failed"}, To(p, g, w, v, flow[p].stop, flow[p].reconcile)
    PROVE  flow' \in [Replicas -> Flows]
  <1>1. [get |-> g, wake |-> w, provision |-> v,
         stop |-> flow[p].stop, reconcile |-> flow[p].reconcile] \in Flows
    BY FlowTypes DEF Flows, Gets
  <1>2. flow' = [flow EXCEPT ![p] =
        [get |-> g, wake |-> w, provision |-> v,
         stop |-> flow[p].stop, reconcile |-> flow[p].reconcile]]
    BY DEF To
  <1>3. QED
    BY <1>1, <1>2 DEF RestOK

\* Every step of a replica keeps the types of its flows.
LEMMA StepFlow ==
    ASSUME TypeOK, NEW p \in Replicas,
           \/ InstanceStep(p) \/ OperationStep(p) \/ ReconcileStep(p)
           \/ ListIdle(p) \/ ReadyWorker(p) \/ Crash(p)
    PROVE  flow' \in [Replicas -> Flows]
  <1>0. RestOK /\ RowOK
    BY TypeParts
  <1>1. NoGet \in Gets
    BY DEF NoGet, Gets
  <1>2. /\ Called(flow[p].wake) \in {"none", "called", "reserved", "up", "upgraded", "failed"}
        /\ Called(flow[p].provision) \in {"none", "called", "up", "failed"}
    BY <1>0, FlowTypes DEF Called
  <1>3. CASE GetTo(p, NoGet)
    BY <1>0, <1>1, <1>3, GetTyped
  <1>4. CASE ToWake(p)
    BY <1>0, <1>1, <1>2, <1>4, FlowTypes, BothTyped DEF ToWake
  <1>5. CASE ToProvision(p)
    BY <1>0, <1>1, <1>2, <1>5, FlowTypes, BothTyped DEF ToProvision
  <1>6. CASE StartFailedCloudHeal(p)
    <2>1. ToProvision(p) \/ GetTo(p, NoGet)
      BY <1>0, <1>6, Effects
    <2>2. QED
      BY <1>3, <1>5, <2>1
  <1>7. CASE MarkHealthyWorkerFailed(p)
    <2>1. ToHealing(p)
      BY <1>0, <1>7, Effects
    <2>2. [phase |-> "healing", outdated |-> FALSE]
            \in Gets
      BY DEF Gets
    <2>3. GetTo(p, [phase |-> "healing", outdated |-> FALSE])
      BY <2>1 DEF ToHealing
    <2>4. QED
      BY <1>0, <2>2, <2>3, GetTyped
  <1>8. CASE ResolveFailed(p) \/ ResolveStopped(p) \/ ResolveHealthy(p) \/ HealFailed(p)
    <2>1. Answer(p) \/ StartWake(p) \/ StartFailedCloudHeal(p) \/ MarkHealthyWorkerFailed(p)
      BY <1>8 DEF ResolveFailed, ResolveStopped, ResolveHealthy, HealFailed, Recycle
    <2>2. QED
      BY <1>0, <1>3, <1>4, <1>6, <1>7, <2>1, Effects
  <1>9. CASE InsertCloudWorker(p)
    <2>1. [flow[p].get EXCEPT !.phase = "creating"]
            \in Gets
      BY <1>0, FlowTypes DEF Gets
    <2>2. GetTo(p, [flow[p].get EXCEPT !.phase = "creating"])
      BY <1>0, <1>9, Effects
    <2>3. QED
      BY <1>0, <2>1, <2>2, GetTyped
  <1>10. CASE InsertWorkerTokens(p)
    BY <1>0, <1>5, <1>10, Effects
  <1>11. CASE GetCloudWorker(p)
    <2>1. [phase |-> worker.status, outdated |-> worker.outdated]
            \in Gets
      <3>1. worker \in Rows
        BY <1>0, <1>11 DEF GetCloudWorker, RowOK, NoWorker, Statuses
      <3>2. QED
        BY <3>1 DEF Rows, Gets
    <2>2. GetTo(p, [phase |-> worker.status, outdated |-> worker.outdated])
      BY <1>0, <1>11, Effects
    <2>3. QED
      BY <1>0, <2>1, <2>2, GetTyped
  <1>12. CASE ReserveWake(p) \/ WakeWorker(p) \/ WriteWoken(p)
    <2>1. PICK x \in {"none", "reserved", "up", "upgraded", "failed"} : WakeTo(p, x)
      BY <1>0, <1>12, Effects
    <2>2. QED
      BY <1>0, <2>1, WakeTyped
  <1>13. CASE ProvisionWorker(p) \/ WriteProvisioned(p)
    <2>1. \E x \in {"none", "up", "failed"}, y \in {"none", flow[p].reconcile} :
            ReconcileTo(p, x, y)
      BY <1>0, <1>13, Effects
    <2>2. QED
      BY <1>0, <2>1, FlowTypes, ReconcileTyped
  <1>14. CASE ListProvisioning(p) \/ ReconcileWorker(p)
    <2>1. \E x \in {flow[p].provision, Called(flow[p].provision)},
             y \in {"none", "listed", "awaiting"} : ReconcileTo(p, x, y)
      BY <1>0, <1>14, Effects
    <2>2. QED
      BY <1>0, <1>2, <2>1, FlowTypes, ReconcileTyped
  <1>15. CASE ListIdle(p) \/ ReserveIdleStop(p) \/ StopWorker(p) \/ WriteStopped(p)
    <2>1. PICK x \in {"none", "listed", "reserved", "stopped", "failed"} : StopTo(p, x)
      BY <1>0, <1>15, Effects
    <2>2. QED
      BY <1>0, <2>1, StopTyped
  <1>16. CASE ReadyWorker(p)
    <2>1. UNCHANGED flow \/ WakeTo(p, Called(flow[p].wake))
      BY <1>0, <1>16, Effects
    <2>2. CASE UNCHANGED flow
      BY <1>0, <2>2 DEF RestOK
    <2>3. CASE WakeTo(p, Called(flow[p].wake))
      BY <1>0, <1>2, <2>3, WakeTyped
    <2>4. QED
      BY <2>1, <2>2, <2>3
  <1>17. CASE Crash(p)
    BY <1>0, <1>17 DEF Crash, NoFlow, NoGet, RestOK, Flows
  <1>18. QED
    BY <1>8, <1>9, <1>10, <1>11, <1>12, <1>13, <1>14, <1>15, <1>16, <1>17
       DEF InstanceStep, OperationStep, ReconcileStep

\* The provider and the bounds.
LEMMA StepProvider ==
    ASSUME RestOK, Next
    PROVE  /\ record' \in {"none", "named", "older"}
           /\ sandbox' \in [{"named", "older"} -> {"none", "stopped", "booting", "serving"}]
           /\ run' \in {"none", "claimed", "using"}
           /\ deploys' \in 0..MaxDeploys /\ faults' \in 0..MaxFaults /\ takenOver' \in BOOLEAN
  <1> DEFINE Goal == /\ record' \in {"none", "named", "older"}
                     /\ sandbox' \in [{"named", "older"} ->
                                        {"none", "stopped", "booting", "serving"}]
                     /\ run' \in {"none", "claimed", "using"}
                     /\ deploys' \in 0..MaxDeploys /\ faults' \in 0..MaxFaults
                     /\ takenOver' \in BOOLEAN
  <1>1. CASE UNCHANGED <<record, sandbox, run, deploys, faults, takenOver>>
    BY <1>1 DEF RestOK
  <1>2. ASSUME NEW p \in Replicas, WakeWorker(p) PROVE Goal
    BY <1>2 DEF WakeWorker, Provisioned, NotProvisioned, Recorded, Woken, NotWoken, Recycled,
                RestOK
  <1>3. ASSUME NEW p \in Replicas, ProvisionWorker(p) PROVE Goal
    <2>1. Provisioned \/ NotProvisioned
      BY <1>3 DEF ProvisionWorker
    <2>2. UNCHANGED <<run, deploys, faults, takenOver>>
      BY <1>3 DEF ProvisionWorker
    <2>3. QED
      BY <2>1, <2>2 DEF Provisioned, NotProvisioned, RestOK
  <1>4. ASSUME NEW p \in Replicas, StopWorker(p) PROVE Goal
    BY <1>4 DEF StopWorker, RestOK
  <1>5. ASSUME NEW p \in Replicas, ReadyWorker(p) PROVE Goal
    BY <1>5 DEF ReadyWorker, RestOK
  <1>6. ASSUME NEW p \in Replicas, Crash(p) PROVE Goal
    BY <1>6, CloudAssumption DEF Crash, RestOK
  <1>7. CASE RequestUpdate \/ AdmitRun \/ EndRun
    BY <1>7 DEF RequestUpdate, AdmitRun, EndRun, RestOK
  <1>8. ASSUME NEW s \in {"named", "older"}, Boot(s) \/ LoseSandbox(s) PROVE Goal
    BY <1>8, CloudAssumption DEF Boot, LoseSandbox, RestOK
  <1>9. CASE Deploy
    BY <1>9, CloudAssumption DEF Deploy, RestOK
  <1>10. ASSUME NEW p \in Replicas, InstanceStep(p) \/ ReserveWake(p) \/ WriteWoken(p)
                    \/ WriteProvisioned(p) \/ ReserveIdleStop(p) \/ WriteStopped(p)
                    \/ ListProvisioning(p) \/ ListIdle(p)
         PROVE  UNCHANGED <<record, sandbox, run, deploys, faults, takenOver>>
    BY <1>10 DEF InstanceStep, InsertCloudWorker, InsertWorkerTokens, GetCloudWorker,
        ResolveFailed, ResolveStopped, ResolveHealthy, HealFailed, ReserveWake, WriteWoken,
        WriteProvisioned, ReserveIdleStop, WriteStopped, ListProvisioning, ListIdle
  <1>11. CASE ActiveHeartbeat \/ BecomeIdle
    BY <1>1, <1>11 DEF ActiveHeartbeat, BecomeIdle
  <1>12. CASE BecomeOverdue
    BY <1>12, CloudAssumption DEF BecomeOverdue, RestOK
  <1>13. ASSUME NEW p \in Replicas, ReconcileWorker(p) PROVE Goal
    <2>1. TakesOver(p) \in BOOLEAN
      BY DEF TakesOver
    <2>2. QED
      BY <1>13, <2>1 DEF ReconcileWorker, RestOK
  <1>14. QED
    BY <1>1, <1>2, <1>3, <1>4, <1>5, <1>6, <1>7, <1>8, <1>9, <1>10, <1>11, <1>12, <1>13
       DEF Next, InstanceStep, OperationStep, ReconcileStep

\* Every step keeps the types.
LEMMA StepTyped ==
    ASSUME TypeOK, PresentOK, Next
    PROVE  TypeOK'
  <1>0. RestOK
    BY TypeParts
  <1>1. flow' \in [Replicas -> Flows]
    <2>1. CASE UNCHANGED flow
      BY <1>0, <2>1 DEF RestOK
    <2>2. CASE Deploy
      BY <2>2 DEF Deploy, NoFlow, NoGet, Flows
    <2>3. QED
      BY <2>1, <2>2, StepFlow
         DEF Next, RequestUpdate, AdmitRun, EndRun, ActiveHeartbeat, BecomeIdle, BecomeOverdue,
             Boot, LoseSandbox
  <1>2. RestOK'
    BY <1>0, <1>1, StepProvider DEF RestOK
  <1>3. RowOK'
    BY StepRow DEF RowStep
  <1>4. QED
    BY <1>2, <1>3 DEF TypeOK, RowOK, Rows, RestOK, Flows

-----------------------------------------------------------------------------
(* The mutex.                                                              *)

\* Nobody operates.
Free == \A p \in Replicas : ~Operating(p)

\* A replica operates on what it did before, or no more.
Keeps(p) ==
    /\ \A q \in Replicas \ {p} : flow'[q] = flow[q]
    /\ Creating(flow'[p]) => Creating(flow[p])
    /\ Waking(flow'[p]) => flow'[p].wake = flow[p].wake
    /\ Provisioning(flow'[p]) => flow'[p].provision = flow[p].provision
    /\ Stopping(flow'[p]) => flow'[p].stop = flow[p].stop

\* A replica operates on one thing now.
Takes(p) ==
    /\ \A q \in Replicas \ {p} : flow'[q] = flow[q]
    /\ OneThing(flow'[p])

\* A replica operates no more.
Gives(p) ==
    /\ \A q \in Replicas \ {p} : flow'[q] = flow[q]
    /\ ~Creating(flow'[p]) /\ ~Waking(flow'[p])
    /\ ~Provisioning(flow'[p]) /\ ~Stopping(flow'[p])

SameStatus == worker'.status = worker.status

\* A replica operates on the worker in one of four flows.
LEMMA OperatingDef ==
    ASSUME NEW p \in Replicas
    PROVE  /\ Operating(p) <=> \/ Creating(flow[p]) \/ Waking(flow[p])
                               \/ Provisioning(flow[p]) \/ Stopping(flow[p])
           /\ Operating(p)' <=> \/ Creating(flow'[p]) \/ Waking(flow'[p])
                                \/ Provisioning(flow'[p]) \/ Stopping(flow'[p])
  BY DEF Operating, Creating, Waking, Provisioning, Stopping

\* Unless the row says provisioning nobody operates.
LEMMA MutexFree ==
    ASSUME MutexOK, worker.status # "provisioning"
    PROVE  Free
  BY DEF MutexOK, Free

\* A step that starts no operation and leaves the status keeps exclusion.
LEMMA KeepsMutex ==
    ASSUME MutexOK, NEW p \in Replicas, Keeps(p), SameStatus
    PROVE  MutexOK'
  <1>1. \A q \in Replicas : Operating(q)' => Operating(q) /\ (OneThing(flow[q]) => OneThing(flow[q])')
    BY OperatingDef DEF Keeps, OneThing, Creating, Waking, Provisioning, Stopping
  <1>2. QED
    BY <1>1 DEF MutexOK, SameStatus

\* The row moves, and no replica begins or ends anything.
LEMMA MovesMutex ==
    ASSUME MutexOK, NEW p \in Replicas, Keeps(p), worker.status # "provisioning"
    PROVE  MutexOK'
  <1>1. \A q \in Replicas : ~Operating(q)'
    BY MutexFree, OperatingDef DEF Keeps, Free, Creating, Waking, Provisioning, Stopping
  <1>2. QED
    BY <1>1 DEF MutexOK

\* Who is alone with a provisioning row may operate.
LEMMA AloneMutex ==
    ASSUME NEW p \in Replicas, Takes(p), \A q \in Replicas \ {p} : ~Operating(q),
           worker'.status = "provisioning"
    PROVE  MutexOK'
  <1>1. \A q \in Replicas : Operating(q)' => q = p
    BY OperatingDef DEF Takes
  <1>2. QED
    BY <1>1 DEF MutexOK, Takes

\* Who moves the row to provisioning may start to operate.
LEMMA TakesMutex ==
    ASSUME MutexOK, NEW p \in Replicas, Takes(p), worker.status # "provisioning",
           worker'.status = "provisioning"
    PROVE  MutexOK'
  BY MutexFree, AloneMutex DEF Free

\* Whoever operates goes on.
LEMMA GoesOnMutex ==
    ASSUME MutexOK, NEW p \in Replicas, Takes(p), Operating(p), SameStatus
    PROVE  MutexOK'
  <1>1. worker'.status = "provisioning" /\ \A q \in Replicas \ {p} : ~Operating(q)
    BY DEF MutexOK, SameStatus
  <1>2. QED
    BY <1>1, AloneMutex

\* The one who operated, if anybody did, is done.
LEMMA GivesMutex ==
    ASSUME MutexOK, NEW p \in Replicas, Gives(p),
           Operating(p) \/ \A q \in Replicas \ {p} : ~Operating(q)
    PROVE  MutexOK'
  <1>1. \A q \in Replicas : ~Operating(q)'
    BY OperatingDef DEF MutexOK, Gives
  <1>2. QED
    BY <1>1 DEF MutexOK

\* What a step does to the flow of its replica.
LEMMA GetKeeps ==
    ASSUME RestOK, NEW p \in Replicas, NEW g, GetTo(p, g), g.phase # "creating"
    PROVE  Keeps(p)
  <1>1. /\ flow'[p].get = g /\ flow'[p].wake = flow[p].wake
        /\ flow'[p].provision = flow[p].provision /\ flow'[p].stop = flow[p].stop
        /\ flow'[p].reconcile = flow[p].reconcile
        /\ \A q \in Replicas \ {p} : flow'[q] = flow[q]
    BY FlowFields DEF GetTo
  <1>2. QED
    BY <1>1 DEF Keeps, Creating

\* The steps of a request that touch no row start no operation.
LEMMA AnswerKeeps ==
    ASSUME RestOK, NEW p \in Replicas, Answer(p) \/ StartWake(p) \/ MarkHealthyWorkerFailed(p)
    PROVE  Keeps(p)
  <1>1. CASE GetTo(p, NoGet)
    <2>1. NoGet.phase # "creating"
      BY DEF NoGet
    <2>2. QED
      BY <1>1, <2>1, GetKeeps
  <1>2. CASE ToWake(p)
    <2>1. /\ flow'[p].get = NoGet /\ flow'[p].wake = Called(flow[p].wake)
          /\ flow'[p].provision = flow[p].provision /\ flow'[p].stop = flow[p].stop
          /\ flow'[p].reconcile = flow[p].reconcile
          /\ \A q \in Replicas \ {p} : flow'[q] = flow[q]
      BY <1>2, FlowFields DEF ToWake
    <2>2. QED
      BY <2>1 DEF Keeps, Creating, NoGet, Called, Waking
  <1>3. CASE ToHealing(p)
    <2>1. [phase |-> "healing", outdated |-> FALSE].phase # "creating"
      OBVIOUS
    <2>2. GetTo(p, [phase |-> "healing", outdated |-> FALSE])
      BY <1>3 DEF ToHealing
    <2>3. QED
      BY <2>1, <2>2, GetKeeps
  <1>4. QED
    BY <1>1, <1>2, <1>3, Effects

\* A step of the wake leaves the other flows.
LEMMA WakeFields ==
    ASSUME RestOK, NEW p \in Replicas, NEW w, WakeTo(p, w)
    PROVE  /\ flow'[p].get = flow[p].get /\ flow'[p].wake = w
           /\ flow'[p].provision = flow[p].provision
           /\ flow'[p].stop = flow[p].stop /\ flow'[p].reconcile = flow[p].reconcile
           /\ \A q \in Replicas \ {p} : flow'[q] = flow[q]
  BY DEF WakeTo, To, RestOK

\* A step of the idle stop leaves the other flows.
LEMMA StopFields ==
    ASSUME RestOK, NEW p \in Replicas, NEW x, StopTo(p, x)
    PROVE  /\ flow'[p].get = flow[p].get /\ flow'[p].wake = flow[p].wake
           /\ flow'[p].provision = flow[p].provision
           /\ flow'[p].stop = x /\ flow'[p].reconcile = flow[p].reconcile
           /\ \A q \in Replicas \ {p} : flow'[q] = flow[q]
  BY DEF StopTo, To, RestOK

\* A step of the reconciler leaves the request, the wake and the stop.
LEMMA ReconcileFields ==
    ASSUME RestOK, NEW p \in Replicas, NEW v, NEW r, ReconcileTo(p, v, r)
    PROVE  /\ flow'[p].get = flow[p].get /\ flow'[p].wake = flow[p].wake
           /\ flow'[p].provision = v
           /\ flow'[p].stop = flow[p].stop /\ flow'[p].reconcile = r
           /\ \A q \in Replicas \ {p} : flow'[q] = flow[q]
  BY DEF ReconcileTo, To, RestOK

\* A call of provisioning ends the request and leaves the rest.
LEMMA ProvisionFields ==
    ASSUME RestOK, NEW p \in Replicas, ToProvision(p)
    PROVE  /\ flow'[p].get = NoGet /\ flow'[p].wake = flow[p].wake
           /\ flow'[p].provision = Called(flow[p].provision)
           /\ flow'[p].stop = flow[p].stop /\ flow'[p].reconcile = flow[p].reconcile
           /\ \A q \in Replicas \ {p} : flow'[q] = flow[q]
  BY DEF ToProvision, To, RestOK

\* A statement that expects another status than provisioning, by who only answers.
LEMMA CasMutex ==
    ASSUME RowOK, MutexOK, NEW p \in Replicas, Keeps(p),
           NEW from \in SUBSET (Statuses \ {"provisioning"}), NEW to \in Statuses,
           Cas(from, to)
    PROVE  MutexOK'
  <1>1. Moves(from, to)
    BY CasMoves
  <1>2. CASE worker.status \in from
    <2>1. worker.status # "provisioning"
      BY <1>1, <1>2 DEF Moves
    <2>2. QED
      BY <2>1, MovesMutex
  <1>3. CASE worker.status \notin from
    <2>1. SameStatus
      BY <1>1, <1>3 DEF Moves, SameStatus
    <2>2. QED
      BY <2>1, KeepsMutex
  <1>4. QED
    BY <1>2, <1>3

\* Healing keeps exclusion.
LEMMA HealMutex ==
    ASSUME RowOK, RestOK, MutexOK, NEW p \in Replicas, StartFailedCloudHeal(p)
    PROVE  MutexOK'
  <1>1. CASE worker.status = "failed" /\ worker.tokens
    <2>1. worker \in Rows /\ "provisioning" \in Statuses
      BY <1>1 DEF RowOK, NoWorker, Statuses
    <2>2. worker'.status = "provisioning"
      <3>1. worker' = Written(worker, "provisioning")
        BY <1>1 DEF StartFailedCloudHeal
      <3>2. QED
        BY <2>1, <3>1, WrittenTyped
    <2>3. ToProvision(p)
      BY <1>1, Effects
    <2>4. ~Waking(flow[p]) /\ ~Provisioning(flow[p]) /\ ~Stopping(flow[p])
      BY <1>1, MutexFree, OperatingDef DEF Free
    <2>5. Takes(p)
      BY <2>3, <2>4, ProvisionFields
         DEF Takes, OneThing, Creating, Waking, Provisioning, Stopping, NoGet
    <2>6. QED
      BY <1>1, <2>2, <2>5, TakesMutex
  <1>2. CASE ~(worker.status = "failed" /\ worker.tokens)
    <2>1. Cas({"failed"}, "failed") /\ Answer(p)
      BY <1>2 DEF StartFailedCloudHeal
    <2>2. {"failed"} \in SUBSET (Statuses \ {"provisioning"}) /\ "failed" \in Statuses
      BY DEF Statuses
    <2>3. Keeps(p)
      BY <2>1, AnswerKeeps
    <2>4. QED
      BY <2>1, <2>2, <2>3, CasMutex
  <1>3. QED
    BY <1>1, <1>2

\* The steps of an instance request keep exclusion.
LEMMA InstanceMutex ==
    ASSUME RowOK, RestOK, MutexOK, NEW p \in Replicas, InstanceStep(p)
    PROVE  MutexOK'
  <1>1. CASE InsertCloudWorker(p)
    <2>1. worker.status = "absent" /\ worker' = [NoWorker EXCEPT !.status = "provisioning"]
      BY <1>1 DEF InsertCloudWorker
    <2>2. worker'.status = "provisioning"
      BY <2>1 DEF NoWorker
    <2>3. ~Waking(flow[p]) /\ ~Provisioning(flow[p]) /\ ~Stopping(flow[p])
      BY <2>1, MutexFree, OperatingDef DEF Free
    <2>4. Takes(p)
      <3>1. GetTo(p, [flow[p].get EXCEPT !.phase = "creating"])
        BY <1>1, Effects
      <3>2. /\ flow'[p].wake = flow[p].wake /\ flow'[p].provision = flow[p].provision
            /\ flow'[p].stop = flow[p].stop /\ flow'[p].reconcile = flow[p].reconcile
            /\ \A q \in Replicas \ {p} : flow'[q] = flow[q]
        BY <3>1, FlowFields DEF GetTo
      <3>3. QED
        BY <2>3, <3>2 DEF Takes, OneThing, Waking, Provisioning, Stopping
    <2>5. QED
      BY <2>1, <2>2, <2>4, TakesMutex
  <1>2. CASE InsertWorkerTokens(p)
    <2>1. Creating(flow[p]) /\ Operating(p)
      BY <1>2 DEF InsertWorkerTokens, Creating, Operating
    <2>2. ~Waking(flow[p]) /\ ~Provisioning(flow[p]) /\ ~Stopping(flow[p])
      BY <2>1 DEF MutexOK, OneThing
    <2>3. ToProvision(p)
      BY <1>2, Effects
    <2>4. Takes(p)
      BY <2>2, <2>3, ProvisionFields
         DEF Takes, OneThing, Creating, Waking, Provisioning, Stopping, NoGet
    <2>5. worker \in Rows
      BY <2>1 DEF MutexOK, RowOK, NoWorker
    <2>6. SameStatus
      BY <1>2, <2>5 DEF InsertWorkerTokens, SameStatus, Rows
    <2>7. QED
      BY <2>1, <2>4, <2>6, GoesOnMutex
  <1>3. CASE GetCloudWorker(p)
    <2>1. /\ GetTo(p, [phase |-> worker.status, outdated |-> worker.outdated])
          /\ UNCHANGED worker /\ worker.status # "creating"
      BY <1>3, Effects DEF GetCloudWorker, Statuses
    <2>2. [phase |-> worker.status, outdated |-> worker.outdated].phase # "creating"
      BY <2>1
    <2>3. Keeps(p)
      BY <2>1, <2>2, GetKeeps
    <2>4. QED
      BY <2>1, <2>3, KeepsMutex DEF SameStatus
  <1>4. ASSUME StartWake(p) \/ Answer(p), UNCHANGED worker
        PROVE  MutexOK'
    BY <1>4, AnswerKeeps, KeepsMutex DEF SameStatus
  <1>5. ASSUME StartWake(p) \/ Answer(p) \/ MarkHealthyWorkerFailed(p),
               NEW from \in SUBSET (Statuses \ {"provisioning"}), NEW to \in Statuses,
               Cas(from, to)
        PROVE  MutexOK'
    BY <1>5, AnswerKeeps, CasMutex
  <1>6. /\ {"failed"} \in SUBSET (Statuses \ {"provisioning"})
        /\ {"healthy"} \in SUBSET (Statuses \ {"provisioning"})
        /\ {"healthy", "stopped"} \in SUBSET (Statuses \ {"provisioning"})
        /\ "failed" \in Statuses /\ "provisioning" \in Statuses
    BY DEF Statuses
  <1>7. CASE MarkHealthyWorkerFailed(p)
    <2>1. Cas({"healthy"}, "failed")
      BY <1>7 DEF MarkHealthyWorkerFailed
    <2>2. QED
      BY <1>5, <1>6, <1>7, <2>1
  <1>8. CASE Recycle(p)
    BY <1>5, <1>6, <1>8 DEF Recycle
  <1>9. CASE ResolveFailed(p)
    <2>1. \/ StartFailedCloudHeal(p)
          \/ Cas({"failed"}, "provisioning") /\ (StartWake(p) \/ Answer(p))
      BY <1>9 DEF ResolveFailed
    <2>2. QED
      BY <1>5, <1>6, <2>1, HealMutex
  <1>10. CASE ResolveStopped(p)
    BY <1>4, <1>8, <1>10 DEF ResolveStopped
  <1>11. CASE ResolveHealthy(p)
    BY <1>4, <1>7, <1>8, <1>11 DEF ResolveHealthy
  <1>12. CASE HealFailed(p)
    BY <1>12, HealMutex DEF HealFailed
  <1>13. QED
    BY <1>1, <1>2, <1>3, <1>9, <1>10, <1>11, <1>12 DEF InstanceStep

\* The steps at the provider and of the reconciler keep exclusion.
LEMMA OperationMutex ==
    ASSUME RowOK, RestOK, MutexOK, KnownOK, NEW p \in Replicas,
           OperationStep(p) \/ ReconcileStep(p),
           ReconcileWorker(p) => ~TakesOver(p)
    PROVE  MutexOK'
  <1>0. {"provisioning", "failed", "healthy", "stopped"} \subseteq Statuses
    BY DEF Statuses
  <1>1. Operating(p) => OneThing(flow[p])
    BY DEF MutexOK
  <1>3. CASE InsertWorkerTokens(p)
    BY <1>3, InstanceMutex DEF InstanceStep
  <1>4. CASE ReserveWake(p)
    <2>1. CASE worker.status = "stopped"
      <3>1. worker'.status = "provisioning"
        <4>1. Cas({"stopped"}, "provisioning")
          BY <1>4 DEF ReserveWake
        <4>2. {"stopped"} \in SUBSET Statuses /\ "provisioning" \in Statuses
          BY <1>0
        <4>3. Moves({"stopped"}, "provisioning")
          BY <4>1, <4>2, CasMoves
        <4>4. QED
          BY <2>1, <4>3 DEF Moves
      <3>2. WakeTo(p, "reserved")
        BY <1>4, <2>1, Effects
      <3>3. ~Creating(flow[p]) /\ ~Provisioning(flow[p]) /\ ~Stopping(flow[p])
        BY <2>1, MutexFree, OperatingDef DEF Free
      <3>4. Takes(p)
        BY <3>2, <3>3, WakeFields
           DEF Takes, OneThing, Creating, Waking, Provisioning, Stopping
      <3>5. QED
        BY <2>1, <3>1, <3>4, TakesMutex
    <2>2. CASE worker.status # "stopped"
      <3>1. WakeTo(p, "none") /\ UNCHANGED worker
        BY <1>4, <2>2, Effects DEF ReserveWake, Cas
      <3>2. Keeps(p)
        BY <3>1, WakeFields
           DEF Keeps, Creating, Waking, Provisioning, Stopping
      <3>3. QED
        BY <3>1, <3>2, KeepsMutex DEF SameStatus
    <2>3. QED
      BY <2>1, <2>2
  <1>5. CASE WakeWorker(p)
    <2>1. PICK x \in {"up", "upgraded", "failed"} : WakeTo(p, x)
      BY <1>5, Effects
    <2>2. Waking(flow[p]) /\ Operating(p) /\ UNCHANGED worker
      BY <1>5 DEF WakeWorker, Waking, Operating
    <2>3. Takes(p)
      BY <1>1, <2>1, <2>2, WakeFields
         DEF Takes, OneThing, Creating, Waking, Provisioning, Stopping
    <2>4. QED
      BY <2>2, <2>3, GoesOnMutex DEF SameStatus
  <1>6. CASE WriteWoken(p)
    <2>1. WakeTo(p, "none")
      BY <1>6, Effects
    <2>2. Waking(flow[p]) /\ Operating(p)
      BY <1>6 DEF WriteWoken, Waking, Operating
    <2>3. Gives(p)
      BY <1>1, <2>1, <2>2, WakeFields
         DEF Gives, OneThing, Creating, Waking, Provisioning, Stopping
    <2>4. QED
      BY <2>2, <2>3, GivesMutex
  <1>7. CASE ProvisionWorker(p)
    <2>1. PICK x \in {"up", "failed"} : ReconcileTo(p, x, flow[p].reconcile)
      BY <1>7, Effects
    <2>2. Provisioning(flow[p]) /\ Operating(p) /\ UNCHANGED worker
      BY <1>7 DEF ProvisionWorker, Provisioning, Operating
    <2>3. Takes(p)
      BY <1>1, <2>1, <2>2, ReconcileFields
         DEF Takes, OneThing, Creating, Waking, Provisioning, Stopping
    <2>4. QED
      BY <2>2, <2>3, GoesOnMutex DEF SameStatus
  <1>8. CASE WriteProvisioned(p)
    <2>1. PICK r \in {"none", flow[p].reconcile} : ReconcileTo(p, "none", r)
      BY <1>8, Effects
    <2>2. Provisioning(flow[p]) /\ Operating(p)
      BY <1>8 DEF WriteProvisioned, Provisioning, Operating
    <2>3. Gives(p)
      BY <1>1, <2>1, <2>2, ReconcileFields
         DEF Gives, OneThing, Creating, Waking, Provisioning, Stopping
    <2>4. QED
      BY <2>2, <2>3, GivesMutex
  <1>9. CASE ReserveIdleStop(p)
    <2>1. CASE MayStop
      <3>1. worker \in Rows /\ worker' = Written(worker, "provisioning") /\ worker.status = "healthy"
        BY <1>9, <2>1 DEF ReserveIdleStop, MayStop, Idle, RowOK, NoWorker
      <3>2. worker'.status = "provisioning"
        BY <1>0, <3>1, WrittenTyped
      <3>3. StopTo(p, "reserved")
        BY <1>9, <2>1, Effects
      <3>4. ~Creating(flow[p]) /\ ~Waking(flow[p]) /\ ~Provisioning(flow[p])
        BY <3>1, MutexFree, OperatingDef DEF Free
      <3>5. Takes(p)
        BY <3>3, <3>4, StopFields
           DEF Takes, OneThing, Creating, Waking, Provisioning, Stopping
      <3>6. QED
        BY <3>1, <3>2, <3>5, TakesMutex
    <2>2. CASE ~MayStop
      <3>1. StopTo(p, "none") /\ UNCHANGED worker
        BY <1>9, <2>2, Effects DEF ReserveIdleStop
      <3>2. Keeps(p)
        BY <3>1, StopFields
           DEF Keeps, Creating, Waking, Provisioning, Stopping
      <3>3. QED
        BY <3>1, <3>2, KeepsMutex DEF SameStatus
    <2>3. QED
      BY <2>1, <2>2
  <1>10. CASE StopWorker(p)
    <2>1. PICK x \in {"stopped", "failed"} : StopTo(p, x)
      BY <1>10, Effects
    <2>2. Stopping(flow[p]) /\ Operating(p) /\ UNCHANGED worker
      BY <1>10 DEF StopWorker, Stopping, Operating
    <2>3. Takes(p)
      BY <1>1, <2>1, <2>2, StopFields
         DEF Takes, OneThing, Creating, Waking, Provisioning, Stopping
    <2>4. QED
      BY <2>2, <2>3, GoesOnMutex DEF SameStatus
  <1>11. CASE WriteStopped(p)
    <2>1. StopTo(p, "none")
      BY <1>11, Effects
    <2>2. Stopping(flow[p]) /\ Operating(p)
      BY <1>11 DEF WriteStopped, Stopping, Operating
    <2>3. Gives(p)
      BY <1>1, <2>1, <2>2, StopFields
         DEF Gives, OneThing, Creating, Waking, Provisioning, Stopping
    <2>4. QED
      BY <2>2, <2>3, GivesMutex
  <1>12. CASE ListProvisioning(p)
    <2>1. ReconcileTo(p, flow[p].provision, "listed") /\ UNCHANGED worker
      BY <1>12, Effects DEF ListProvisioning
    <2>2. Keeps(p)
      BY <2>1, ReconcileFields DEF Keeps, Creating, Waking, Provisioning, Stopping
    <2>3. QED
      BY <2>1, <2>2, KeepsMutex DEF SameStatus
  <1>13. CASE ReconcileWorker(p)
    <2>1. /\ worker.status = "provisioning"
          /\ \A q \in Replicas \ {p} : ~Operating(q)
          /\ Operating(p) => flow[p].provision # "none"
      BY <1>13 DEF TakesOver
    <2>2. /\ ~Creating(flow[p]) /\ ~Waking(flow[p]) /\ ~Stopping(flow[p])
          /\ flow[p].provision # "none" => worker.tokens
      BY <1>1, <2>1, OperatingDef DEF OneThing, Provisioning, KnownOK
    <2>3. CASE worker.tokens
      <3>1. ReconcileTo(p, Called(flow[p].provision), "awaiting") /\ UNCHANGED worker
        BY <1>13, <2>3, Effects DEF ReconcileWorker
      <3>2. Takes(p)
        BY <2>2, <3>1, ReconcileFields
           DEF Takes, OneThing, Creating, Waking, Provisioning, Stopping
      <3>3. QED
        BY <2>1, <3>1, <3>2, AloneMutex
    <2>4. CASE ~worker.tokens
      <3>1. ReconcileTo(p, flow[p].provision, "none")
        BY <1>13, <2>4, Effects
      <3>2. Gives(p)
        BY <2>2, <2>4, <3>1, ReconcileFields DEF Gives, Creating, Waking, Provisioning, Stopping
      <3>3. QED
        BY <2>1, <3>2, GivesMutex
    <2>5. QED
      BY <2>3, <2>4
  <1>14. QED
    BY <1>3, <1>4, <1>5, <1>6, <1>7, <1>8, <1>9, <1>10, <1>11, <1>12, <1>13
       DEF OperationStep, ReconcileStep

\* Every step but taking over keeps exclusion.
LEMMA StepMutex ==
    ASSUME TypeOK, MutexOK, KnownOK, Next, ~takenOver'
    PROVE  MutexOK'
  <1>0. RowOK /\ RestOK
    BY TypeParts
  <1>1. ASSUME UNCHANGED flow, SameStatus PROVE MutexOK'
    <2>1. \A p \in Replicas : Operating(p)' <=> Operating(p)
      BY <1>1 DEF Operating
    <2>2. QED
      BY <1>1, <2>1 DEF SameStatus, MutexOK
  <1>2. ASSUME NEW p \in Replicas, ListIdle(p) PROVE MutexOK'
    <2>1. StopTo(p, "listed") /\ UNCHANGED worker
      BY <1>0, <1>2, Effects DEF ListIdle
    <2>2. Keeps(p)
      BY <1>0, <2>1, StopFields DEF Keeps, Creating, Waking, Provisioning, Stopping
    <2>3. QED
      BY <2>1, <2>2, KeepsMutex DEF SameStatus
  <1>3. ASSUME NEW p \in Replicas, ReadyWorker(p) PROVE MutexOK'
    <2>1. UNCHANGED worker
      BY <1>3 DEF ReadyWorker
    <2>2. CASE UNCHANGED flow
      BY <1>1, <2>1, <2>2 DEF SameStatus
    <2>3. CASE WakeTo(p, Called(flow[p].wake))
      <3>1. Keeps(p)
        BY <1>0, <2>3, WakeFields
           DEF Keeps, Called, Creating, Waking, Provisioning, Stopping
      <3>2. QED
        BY <2>1, <3>1, KeepsMutex DEF SameStatus
    <2>4. QED
      BY <1>0, <1>3, <2>2, <2>3, Effects
  <1>4. ASSUME NEW p \in Replicas, Crash(p) PROVE MutexOK'
    <2>1. To(p, NoGet, "none", "none", "none", "none") /\ UNCHANGED worker
      BY <1>0, <1>4, Effects DEF Crash
    <2>2. /\ flow'[p].get = NoGet /\ flow'[p].wake = "none" /\ flow'[p].provision = "none"
          /\ flow'[p].stop = "none" /\ flow'[p].reconcile = "none"
          /\ \A q \in Replicas \ {p} : flow'[q] = flow[q]
      BY <1>0, <2>1, FlowFields
    <2>3. Keeps(p) /\ Gives(p)
      BY <2>2 DEF Keeps, Gives, Creating, Waking, Provisioning, Stopping, NoGet
    <2>4. QED
      BY <2>1, <2>2, <2>3, KeepsMutex DEF SameStatus
  <1>5. CASE RequestUpdate \/ AdmitRun \/ EndRun
    BY <1>1, <1>5 DEF RequestUpdate, AdmitRun, EndRun, SameStatus
  <1>6. CASE ActiveHeartbeat \/ BecomeIdle
    <2>1. worker \in Rows /\ UNCHANGED flow
      BY <1>0, <1>6 DEF ActiveHeartbeat, BecomeIdle, RowOK, NoWorker
    <2>2. SameStatus
      BY <1>6, <2>1 DEF ActiveHeartbeat, BecomeIdle, SameStatus, Rows
    <2>3. QED
      BY <1>1, <2>1, <2>2
  <1>7. CASE BecomeOverdue
    <2>1. worker.status = "provisioning" /\ UNCHANGED flow /\ worker' = [worker EXCEPT !.overdue = TRUE]
      BY <1>7 DEF BecomeOverdue
    <2>2. worker'.status = worker.status
      BY <1>0, <2>1 DEF RowOK, Rows, NoWorker
    <2>3. QED
      BY <1>1, <2>1, <2>2 DEF SameStatus
  <1>8. ASSUME NEW s \in {"named", "older"}, Boot(s) \/ LoseSandbox(s)
        PROVE  MutexOK'
    BY <1>1, <1>8 DEF Boot, LoseSandbox, SameStatus
  <1>9. CASE Deploy
    <2>1. flow' = [p \in Replicas |-> NoFlow]
      BY <1>9 DEF Deploy
    <2>2. \A p \in Replicas : ~Operating(p)'
      BY <2>1 DEF Operating, NoFlow, NoGet
    <2>3. QED
      BY <2>2 DEF MutexOK
  <1>10. ASSUME NEW p \in Replicas, InstanceStep(p) PROVE MutexOK'
    BY <1>0, <1>10, InstanceMutex
  <1>11. ASSUME NEW p \in Replicas, OperationStep(p) \/ ReconcileStep(p)
         PROVE  MutexOK'
    <2>1. ReconcileWorker(p) => ~TakesOver(p)
      BY DEF ReconcileWorker
    <2>2. QED
      BY <1>0, <1>11, <2>1, OperationMutex
  <1>12. QED
    BY <1>2, <1>3, <1>4, <1>5, <1>6, <1>7, <1>8, <1>9, <1>10, <1>11 DEF Next

\* A row whose tokens are about to be written is there.
LEMMA StepPresent ==
    ASSUME TypeOK, PresentOK, Next
    PROVE  PresentOK'
  <1>0. RowOK /\ RestOK
    BY TypeParts
  <1>1. worker.status # "absent" => worker'.status # "absent"
    BY StepRow DEF RowStep
  <1>2. ASSUME NEW p \in Replicas,
               \A q \in Replicas \ {p} : flow'[q] = flow[q],
               flow'[p].get.phase = "creating" => flow[p].get.phase = "creating"
        PROVE  PresentOK'
    BY <1>1, <1>2 DEF PresentOK
  <1>3. ASSUME NEW p \in Replicas, Keeps(p) PROVE PresentOK'
    BY <1>2, <1>3 DEF Keeps, Creating
  <1>4. CASE UNCHANGED flow
    BY <1>1, <1>4 DEF PresentOK
  <1>5. ASSUME NEW p \in Replicas, ToProvision(p) PROVE PresentOK'
    BY <1>0, <1>2, <1>5, ProvisionFields DEF NoGet
  <1>6. ASSUME NEW p \in Replicas, NEW x, WakeTo(p, x) PROVE PresentOK'
    BY <1>0, <1>2, <1>6, WakeFields
  <1>7. ASSUME NEW p \in Replicas, NEW x, StopTo(p, x) PROVE PresentOK'
    BY <1>0, <1>2, <1>7, StopFields
  <1>8. ASSUME NEW p \in Replicas, NEW x, NEW y, ReconcileTo(p, x, y) PROVE PresentOK'
    BY <1>0, <1>2, <1>8, ReconcileFields
  <1>9. ASSUME NEW p \in Replicas, InstanceStep(p) PROVE PresentOK'
    <2>1. CASE InsertCloudWorker(p)
      <3>1. worker'.status = "provisioning"
        BY <2>1 DEF InsertCloudWorker, NoWorker
      <3>2. QED
        BY <3>1 DEF PresentOK
    <2>2. CASE InsertWorkerTokens(p)
      BY <1>0, <1>5, <2>2, Effects
    <2>3. CASE GetCloudWorker(p)
      <3>1. GetTo(p, [phase |-> worker.status, outdated |-> worker.outdated])
        BY <1>0, <2>3, Effects
      <3>2. [phase |-> worker.status, outdated |-> worker.outdated].phase # "creating"
        BY <2>3 DEF GetCloudWorker, Statuses
      <3>3. QED
        BY <1>0, <1>3, <3>1, <3>2, GetKeeps
    <2>4. CASE Answer(p) \/ StartWake(p) \/ MarkHealthyWorkerFailed(p)
      BY <1>0, <1>3, <2>4, AnswerKeeps
    <2>5. CASE StartFailedCloudHeal(p)
      <3>1. ToProvision(p) \/ Answer(p)
        BY <1>0, <2>5, Effects DEF StartFailedCloudHeal
      <3>2. QED
        BY <1>5, <2>4, <3>1
    <2>6. CASE ResolveFailed(p) \/ ResolveStopped(p) \/ ResolveHealthy(p) \/ HealFailed(p)
      BY <2>4, <2>5, <2>6
         DEF ResolveFailed, ResolveStopped, ResolveHealthy, HealFailed, Recycle
    <2>7. QED
      BY <1>9, <2>1, <2>2, <2>3, <2>6 DEF InstanceStep
  <1>10. ASSUME NEW p \in Replicas, OperationStep(p) \/ ReconcileStep(p) \/ ListIdle(p)
         PROVE  PresentOK'
    <2>1. CASE InsertWorkerTokens(p)
      BY <1>0, <1>5, <2>1, Effects
    <2>2. CASE ReserveWake(p) \/ WakeWorker(p) \/ WriteWoken(p)
      <3>1. \E x \in {"none", "reserved", "up", "upgraded", "failed"} : WakeTo(p, x)
        BY <1>0, <2>2, Effects
      <3>2. QED
        BY <1>6, <3>1
    <2>3. CASE ProvisionWorker(p) \/ WriteProvisioned(p) \/ ListProvisioning(p)
               \/ ReconcileWorker(p)
      <3>1. \E x, y : ReconcileTo(p, x, y)
        BY <1>0, <2>3, Effects
      <3>2. QED
        BY <1>8, <3>1
    <2>4. CASE ReserveIdleStop(p) \/ StopWorker(p) \/ WriteStopped(p) \/ ListIdle(p)
      <3>1. \E x \in {"none", "listed", "reserved", "stopped", "failed"} : StopTo(p, x)
        BY <1>0, <2>4, Effects
      <3>2. QED
        BY <1>7, <3>1
    <2>5. QED
      BY <1>10, <2>1, <2>2, <2>3, <2>4 DEF OperationStep, ReconcileStep
  <1>11. ASSUME NEW p \in Replicas, ReadyWorker(p) PROVE PresentOK'
    BY <1>0, <1>4, <1>6, <1>11, Effects
  <1>12. ASSUME NEW p \in Replicas, Crash(p) PROVE PresentOK'
    <2>1. To(p, NoGet, "none", "none", "none", "none")
      BY <1>0, <1>12, Effects
    <2>2. flow'[p].get = NoGet /\ \A q \in Replicas \ {p} : flow'[q] = flow[q]
      BY <1>0, <2>1, FlowFields
    <2>3. QED
      BY <1>2, <2>2 DEF NoGet
  <1>13. CASE Deploy
    BY <1>13 DEF Deploy, PresentOK, NoFlow, NoGet
  <1>14. QED
    BY <1>4, <1>9, <1>10, <1>11, <1>12, <1>13
       DEF Next, RequestUpdate, AdmitRun, EndRun, ActiveHeartbeat, BecomeIdle, BecomeOverdue,
           Boot, LoseSandbox

\* The types and exclusion hold initially.
LEMMA InitHolds == Init => TypeOK /\ PresentOK /\ MutexOK
  <1> SUFFICES ASSUME Init PROVE TypeOK /\ PresentOK /\ MutexOK
    OBVIOUS
  <1>1. \A p \in Replicas : flow[p] = NoFlow
    BY DEF Init
  <1>2. NoFlow \in Flows
    BY DEF NoFlow, NoGet, Flows
  <1>3. TypeOK
    <2>1. RowOK
      BY DEF Init, RowOK, NoWorker
    <2>2. RestOK
      <3>1. flow \in [Replicas -> Flows]
        BY <1>2 DEF Init
      <3>2. 0 \in 0..MaxDeploys /\ 0 \in 0..MaxFaults
        BY CloudAssumption
      <3>3. QED
        BY <3>1, <3>2 DEF Init, RestOK
    <2>3. QED
      BY <2>1, <2>2, TypeParts
  <1>4. \A p \in Replicas : ~Operating(p) /\ flow[p].get.phase # "creating"
    BY <1>1 DEF Operating, NoFlow, NoGet
  <1>5. QED
    BY <1>3, <1>4 DEF PresentOK, MutexOK

\* Types: a row once made has its five parts and is never absent again, it is overdue
\* only while it is provisioning, every flow is one of those the code has, and the
\* bounds hold.
THEOREM WorkerTypes == Spec => []TypeOK
  <1>1. Init => TypeOK /\ PresentOK
    BY InitHolds
  <1>2. TypeOK /\ PresentOK /\ [Next]_cloudVars => TypeOK' /\ PresentOK'
    <2> SUFFICES ASSUME TypeOK, PresentOK, [Next]_cloudVars PROVE TypeOK' /\ PresentOK'
      OBVIOUS
    <2>1. CASE Next
      BY <2>1, StepTyped, StepPresent
    <2>2. CASE UNCHANGED cloudVars
      BY <2>2 DEF cloudVars, TypeOK, PresentOK
    <2>3. QED
      BY <2>1, <2>2
  <1>3. QED
    BY <1>1, <1>2, PTL DEF Spec

-----------------------------------------------------------------------------
(* The runs.                                                               *)

\* A stop that is reserved was reserved before.
StopsKept == \A q \in Replicas : flow'[q].stop = "reserved" => flow[q].stop = "reserved"

\* Only the reservation of an idle stop starts one.
LEMMA StepStops ==
    ASSUME TypeOK, Next, \A p \in Replicas : ~ReserveIdleStop(p)
    PROVE  StopsKept
  <1>0. RestOK
    BY TypeParts
  <1>1. ASSUME NEW p \in Replicas, NEW g, NEW w, NEW v, NEW r, NEW x,
               To(p, g, w, v, x, r), x = "reserved" => flow[p].stop = "reserved"
        PROVE  StopsKept
    BY <1>0, <1>1, FlowFields DEF StopsKept
  <1>2. CASE UNCHANGED flow
    BY <1>2 DEF StopsKept
  <1>3. ASSUME NEW p \in Replicas, NEW g, GetTo(p, g) PROVE StopsKept
    BY <1>1, <1>3 DEF GetTo
  <1>4. ASSUME NEW p \in Replicas, ToWake(p) \/ ToProvision(p) PROVE StopsKept
    BY <1>1, <1>4 DEF ToWake, ToProvision
  <1>5. ASSUME NEW p \in Replicas, NEW w, WakeTo(p, w) PROVE StopsKept
    BY <1>1, <1>5 DEF WakeTo
  <1>6. ASSUME NEW p \in Replicas, NEW v, NEW r, ReconcileTo(p, v, r) PROVE StopsKept
    BY <1>1, <1>6 DEF ReconcileTo
  <1>7. ASSUME NEW p \in Replicas, NEW x \in {"none", "listed", "stopped", "failed"},
               StopTo(p, x)
        PROVE  StopsKept
    BY <1>1, <1>7 DEF StopTo
  <1>8. ASSUME NEW p \in Replicas, InstanceStep(p) PROVE StopsKept
    <2>1. CASE InsertCloudWorker(p) \/ InsertWorkerTokens(p) \/ GetCloudWorker(p)
      BY <1>0, <1>3, <1>4, <2>1, Effects
    <2>2. CASE ResolveFailed(p) \/ ResolveStopped(p) \/ ResolveHealthy(p) \/ HealFailed(p)
      <3>1. Answer(p) \/ StartWake(p) \/ StartFailedCloudHeal(p) \/ MarkHealthyWorkerFailed(p)
        BY <2>2 DEF ResolveFailed, ResolveStopped, ResolveHealthy, HealFailed, Recycle
      <3>2. \/ GetTo(p, NoGet) \/ ToWake(p) \/ ToProvision(p)
            \/ GetTo(p, [phase |-> "healing", outdated |-> FALSE])
        BY <1>0, <3>1, Effects DEF ToHealing
      <3>3. QED
        BY <1>3, <1>4, <3>2
    <2>3. QED
      BY <1>8, <2>1, <2>2 DEF InstanceStep
  <1>9. ASSUME NEW p \in Replicas, OperationStep(p) \/ ReconcileStep(p) \/ ListIdle(p)
        PROVE  StopsKept
    <2>1. CASE InsertWorkerTokens(p)
      BY <1>0, <1>4, <2>1, Effects
    <2>2. CASE ReserveWake(p) \/ WakeWorker(p) \/ WriteWoken(p)
      <3>1. \E x \in {"none", "reserved", "up", "upgraded", "failed"} : WakeTo(p, x)
        BY <1>0, <2>2, Effects
      <3>2. QED
        BY <1>5, <3>1
    <2>3. CASE ProvisionWorker(p) \/ WriteProvisioned(p) \/ ReconcileStep(p)
      <3>1. \E x, y : ReconcileTo(p, x, y)
        BY <1>0, <2>3, Effects DEF ReconcileStep
      <3>2. QED
        BY <1>6, <3>1
    <2>4. CASE StopWorker(p) \/ WriteStopped(p) \/ ListIdle(p)
      <3>1. \E x \in {"none", "listed", "stopped", "failed"} : StopTo(p, x)
        BY <1>0, <2>4, Effects
      <3>2. QED
        BY <1>7, <3>1
    <2>5. QED
      BY <1>9, <2>1, <2>2, <2>3, <2>4 DEF OperationStep
  <1>10. ASSUME NEW p \in Replicas, ReadyWorker(p) \/ Crash(p) PROVE StopsKept
    <2>1. CASE ReadyWorker(p)
      BY <1>0, <1>2, <1>5, <2>1, Effects
    <2>2. CASE Crash(p)
      BY <1>0, <1>1, <2>2, Effects
    <2>3. QED
      BY <1>10, <2>1, <2>2
  <1>11. CASE Deploy
    BY <1>11 DEF Deploy, NoFlow, StopsKept
  <1>12. QED
    BY <1>2, <1>8, <1>9, <1>10, <1>11
       DEF Next, RequestUpdate, AdmitRun, EndRun, ActiveHeartbeat, BecomeIdle, BecomeOverdue,
           Boot, LoseSandbox

\* A run uses a worker that is healthy, and such a worker is operated on by nobody.
LEMMA StepSpares ==
    ASSUME TypeOK, MutexOK, IdleStopSparesRuns, Next, ~takenOver, ~takenOver'
    PROVE  IdleStopSparesRuns'
  <1>0. RestOK
    BY TypeParts
  <1>1. ASSUME NEW p \in Replicas, ReserveIdleStop(p) PROVE IdleStopSparesRuns'
    <2>1. CASE MayStop
      BY <1>1, <2>1 DEF ReserveIdleStop, MayStop, IdleStopSparesRuns
    <2>2. CASE ~MayStop
      <3>1. StopTo(p, "none") /\ UNCHANGED run
        BY <1>0, <1>1, <2>2, Effects DEF ReserveIdleStop
      <3>2. QED
        BY <1>0, <3>1, StopFields DEF IdleStopSparesRuns
    <2>3. QED
      BY <2>1, <2>2
  <1>2. CASE \A p \in Replicas : ~ReserveIdleStop(p)
    <2>1. StopsKept
      BY <1>2, StepStops
    <2>2. CASE run' \in {run, "none", "claimed"}
      BY <2>1, <2>2 DEF IdleStopSparesRuns, StopsKept
    <2>3. CASE worker.status = "healthy"
      <3>1. \A p \in Replicas : flow[p].stop # "reserved"
        BY <2>3 DEF MutexOK, Operating
      <3>2. QED
        BY <2>1, <3>1 DEF IdleStopSparesRuns, StopsKept
    <2>4. QED
      BY <2>2, <2>3
         DEF Next, InstanceStep, OperationStep, ReconcileStep, InsertCloudWorker,
             InsertWorkerTokens, GetCloudWorker, ResolveFailed, ResolveStopped, ResolveHealthy,
             HealFailed, ReserveWake, WakeWorker, WriteWoken, ProvisionWorker,
             WriteProvisioned, ReserveIdleStop, StopWorker, WriteStopped, ListProvisioning,
             ReconcileWorker, ListIdle, ReadyWorker, Crash, RequestUpdate, AdmitRun, EndRun,
             ActiveHeartbeat, BecomeIdle, BecomeOverdue, Boot, LoseSandbox, Deploy
  <1>3. QED
    BY <1>1, <1>2

-----------------------------------------------------------------------------
(* What a status promises.                                                 *)

\* A take-over is remembered.
LEMMA StepTakenOver ==
    ASSUME Next
    PROVE  takenOver => takenOver'
  BY DEF Next, InstanceStep, OperationStep, ReconcileStep, InsertCloudWorker,
         InsertWorkerTokens, GetCloudWorker, ResolveFailed, ResolveStopped, ResolveHealthy,
         HealFailed, ReserveWake, WakeWorker, WriteWoken, ProvisionWorker, WriteProvisioned,
         ReserveIdleStop, StopWorker, WriteStopped, ListProvisioning, ReconcileWorker,
         ListIdle, ReadyWorker, Crash, RequestUpdate, AdmitRun, EndRun, ActiveHeartbeat,
         BecomeIdle, BecomeOverdue, Boot, LoseSandbox, Deploy

\* A record that was made stays, and is not the older sandbox before a deployment.
LEMMA StepRecord ==
    ASSUME TypeOK, KnownOK, Next
    PROVE  /\ record # "none" => record' # "none"
           /\ deploys' = 0 => record' # "older"
  <1>0. deploys \in Nat /\ record \in {"none", "named", "older"}
    BY CloudAssumption DEF TypeOK
  <1>1. CASE UNCHANGED <<record, deploys>>
    BY <1>1 DEF KnownOK
  <1>2. ASSUME NEW p \in Replicas, WakeWorker(p) PROVE UNCHANGED deploys /\ record' \in {record, "named"}
    BY <1>2 DEF WakeWorker, Provisioned, NotProvisioned, Woken, NotWoken, Recycled
  <1>3. ASSUME NEW p \in Replicas, ProvisionWorker(p) PROVE UNCHANGED deploys /\ record' \in {record, "named"}
    BY <1>3 DEF ProvisionWorker, Provisioned, NotProvisioned
  <1>4. CASE Deploy
    <2>1. deploys' = deploys + 1 /\ record' \in {record, "older"}
      BY <1>4 DEF Deploy
    <2>2. QED
      BY <1>0, <2>1
  <1>5. ASSUME UNCHANGED deploys, record' \in {record, "named"}
        PROVE  /\ record # "none" => record' # "none"
               /\ deploys' = 0 => record' # "older"
    BY <1>5 DEF KnownOK
  <1>6. QED
    BY <1>1, <1>2, <1>3, <1>4, <1>5
       DEF Next, InstanceStep, OperationStep, ReconcileStep, InsertCloudWorker,
           InsertWorkerTokens, GetCloudWorker, ResolveFailed, ResolveStopped, ResolveHealthy,
           HealFailed, ReserveWake, WriteWoken, WriteProvisioned, ReserveIdleStop, StopWorker,
           WriteStopped, ListProvisioning, ReconcileWorker, ListIdle, ReadyWorker, Crash,
           RequestUpdate, AdmitRun, EndRun, ActiveHeartbeat, BecomeIdle, BecomeOverdue, Boot,
           LoseSandbox

\* Only who wakes or provisions the worker brings its sandbox up.  The sandbox of the
\* snapshot before takes the other place in the record with it.
LEMMA StepHalted ==
    ASSUME TypeOK, KnownOK, Next, Halted,
           \A p \in Replicas : ~WakeWorker(p) /\ ~ProvisionWorker(p)
    PROVE  Halted'
  <1>0. RestOK /\ deploys \in Nat
    BY TypeParts, CloudAssumption DEF TypeOK
  <1>1. CASE takenOver
    BY <1>1, StepTakenOver DEF Halted
  <1>2. CASE ~takenOver
    <2>0. record \in {"named", "older"} /\ sandbox[record] \notin Up
      BY <1>2 DEF Halted
    <2>1. CASE UNCHANGED <<record, sandbox>>
      BY <2>0, <2>1 DEF Halted, Up
    <2>2. ASSUME NEW p \in Replicas, StopWorker(p) PROVE Halted'
      BY <1>0, <2>0, <2>2 DEF StopWorker, Halted, Up, RestOK
    <2>3. CASE RequestUpdate
      BY <1>0, <2>0, <2>3 DEF RequestUpdate, Halted, Up, RestOK
    <2>4. ASSUME NEW s \in {"named", "older"}, Boot(s) \/ LoseSandbox(s) PROVE Halted'
      BY <1>0, <2>0, <2>4 DEF Boot, LoseSandbox, Halted, Up, RestOK
    <2>5. CASE Deploy
      <3>1. deploys = 0
        BY <1>0, <2>5, CloudAssumption DEF Deploy
      <3>2. record = "named"
        BY <2>0, <3>1 DEF KnownOK
      <3>3. record' = "older" /\ sandbox' = [named |-> "none", older |-> sandbox["named"]]
        BY <2>5, <3>2 DEF Deploy
      <3>4. sandbox'["older"] = sandbox["named"]
        BY <3>3
      <3>5. QED
        BY <2>0, <3>2, <3>3, <3>4 DEF Halted, Up
    <2>6. QED
      BY <2>1, <2>2, <2>3, <2>4, <2>5
         DEF Next, InstanceStep, OperationStep, ReconcileStep, InsertCloudWorker,
             InsertWorkerTokens, GetCloudWorker, ResolveFailed, ResolveStopped,
             ResolveHealthy, HealFailed, ReserveWake, WriteWoken, WriteProvisioned,
             ReserveIdleStop, WriteStopped, ListProvisioning, ReconcileWorker, ListIdle,
             ReadyWorker, Crash, AdmitRun, EndRun, ActiveHeartbeat, BecomeIdle, BecomeOverdue
  <1>3. QED
    BY <1>1, <1>2

\* What is known after a step was known before or is found true by the step.
RowPromised ==
    /\ worker'.status \in {"healthy", "stopped"} => worker'.status = worker.status \/ Recoverable'
    /\ worker'.status = "stopped"
        => Halted' \/ (worker.status = "stopped" /\ (Halted => Halted'))

Promised(p) ==
    /\ flow'[p].provision # "none" => flow[p].provision # "none" \/ worker'.tokens
    /\ flow'[p].provision = "up" => flow[p].provision = "up" \/ Recoverable'
    /\ flow'[p].wake \in {"up", "upgraded"}
        => flow[p].wake \in {"up", "upgraded"} \/ Recoverable'
    /\ Stopping(flow'[p]) => Stopping(flow[p]) \/ Recoverable'
    /\ flow'[p].stop = "stopped"
        => Halted' \/ (flow[p].stop = "stopped" /\ (Halted => Halted'))

\* A step that keeps the row's promises and every flow's keeps what is known.
LEMMA PromisesKept ==
    ASSUME TypeOK, PresentOK, KnownOK, Next, RowPromised, \A p \in Replicas : Promised(p)
    PROVE  KnownOK'
  <1>1. worker.tokens => worker'.tokens
    BY StepRow DEF RowStep
  <1>2. /\ record # "none" => record' # "none"
        /\ deploys' = 0 => record' # "older"
    BY StepRecord
  <1>3. Recoverable => Recoverable'
    BY <1>1, <1>2 DEF Recoverable
  <1>4. ASSUME NEW p \in Replicas
        PROVE  /\ flow'[p].provision # "none" => worker'.tokens
               /\ flow'[p].provision = "up" => Recoverable'
               /\ flow'[p].wake \in {"up", "upgraded"} => Recoverable'
               /\ Stopping(flow'[p]) => Recoverable'
               /\ flow'[p].stop = "stopped" => Halted'
    <2>1. Promised(p)
      OBVIOUS
    <2>2. /\ flow[p].provision # "none" => worker.tokens
          /\ flow[p].provision = "up" => Recoverable
          /\ flow[p].wake \in {"up", "upgraded"} => Recoverable
          /\ Stopping(flow[p]) => Recoverable
          /\ flow[p].stop = "stopped" => Halted
      BY DEF KnownOK
    <2>3. QED
      BY <1>1, <1>3, <2>1, <2>2 DEF Promised
  <1>5. /\ worker'.status \in {"healthy", "stopped"} => Recoverable'
        /\ worker'.status = "stopped" => Halted'
    <2>1. /\ worker.status \in {"healthy", "stopped"} => Recoverable
          /\ worker.status = "stopped" => Halted
      BY DEF KnownOK
    <2>2. QED
      BY <1>3, <2>1 DEF RowPromised
  <1>6. QED
    BY <1>2, <1>4, <1>5 DEF KnownOK, Stopping

\* The status stays, or promises nothing.
RowQuiet == worker'.status \in {worker.status, "provisioning", "failed"}

\* A row that is not made healthy or stopped promises no more than before.
LEMMA QuietRow ==
    ASSUME RowQuiet, Halted => Halted'
    PROVE  RowPromised
  BY DEF RowQuiet, RowPromised

\* A conditional update to provisioning or failed promises nothing new.
LEMMA CasQuiet ==
    ASSUME RowOK, NEW from \in SUBSET Statuses, NEW to \in {"provisioning", "failed"},
           Cas(from, to)
    PROVE  RowQuiet
  <1>1. to \in Statuses
    BY DEF Statuses
  <1>2. Moves(from, to)
    BY <1>1, CasMoves
  <1>3. QED
    BY <1>2 DEF Moves, RowQuiet

\* Healing promises nothing new and loses no tokens.
LEMMA HealQuiet ==
    ASSUME RowOK, NEW p \in Replicas, StartFailedCloudHeal(p)
    PROVE  RowQuiet /\ (worker.status = "failed" /\ worker.tokens => worker'.tokens)
  <1>1. CASE worker.status = "failed" /\ worker.tokens
    <2>1. worker' = Written(worker, "provisioning")
      BY <1>1 DEF StartFailedCloudHeal
    <2>2. worker \in Rows /\ "provisioning" \in Statuses
      BY <1>1 DEF RowOK, NoWorker, Statuses
    <2>3. QED
      BY <1>1, <2>1, <2>2, WrittenTyped DEF RowQuiet
  <1>2. CASE ~(worker.status = "failed" /\ worker.tokens)
    <2>1. {"failed"} \in SUBSET Statuses
      BY DEF Statuses
    <2>2. Cas({"failed"}, "failed")
      BY <1>2 DEF StartFailedCloudHeal
    <2>3. QED
      BY <1>2, <2>1, <2>2, CasQuiet
  <1>3. QED
    BY <1>1, <1>2

\* A flow in which nothing new is made sure of.
LEMMA QuietFlow ==
    ASSUME RestOK, NEW p \in Replicas, NEW g, NEW w, NEW v, NEW x, NEW r,
           To(p, g, w, v, x, r), Halted => Halted',
           w \in {flow[p].wake, "none", "called", "reserved", "failed"},
           v \in {flow[p].provision, "none"}, x \in {flow[p].stop, "none", "listed"}
    PROVE  \A q \in Replicas : Promised(q)
  <1>1. /\ flow'[p].wake = w /\ flow'[p].provision = v /\ flow'[p].stop = x
        /\ \A q \in Replicas \ {p} : flow'[q] = flow[q]
    BY FlowFields
  <1>2. QED
    BY <1>1 DEF Promised, Stopping

\* A call of provisioning finds the tokens there.
LEMMA ProvisionFlow ==
    ASSUME RestOK, NEW p \in Replicas, NEW g, NEW r,
           To(p, g, flow[p].wake, Called(flow[p].provision), flow[p].stop, r),
           Halted => Halted', worker'.tokens
    PROVE  \A q \in Replicas : Promised(q)
  <1>1. /\ flow'[p].wake = flow[p].wake /\ flow'[p].provision = Called(flow[p].provision)
        /\ flow'[p].stop = flow[p].stop
        /\ \A q \in Replicas \ {p} : flow'[q] = flow[q]
    BY FlowFields
  <1>2. Called(flow[p].provision) = "up" => flow[p].provision = "up"
    BY DEF Called
  <1>3. QED
    BY <1>1, <1>2 DEF Promised, Stopping

Promises == RowPromised /\ \A p \in Replicas : Promised(p)

\* The steps of an instance request keep the promises.
LEMMA InstancePromises ==
    ASSUME RowOK, RestOK, PresentOK, Halted => Halted', NEW p \in Replicas, InstanceStep(p)
    PROVE  Promises
  <1>0. /\ \A x \in Statuses : {x} \in SUBSET Statuses
        /\ {"healthy", "provisioning", "failed", "stopped"} \subseteq Statuses
        /\ {"healthy", "stopped"} \in SUBSET Statuses
    BY DEF Statuses
  <1>1. ASSUME NEW g, GetTo(p, g) PROVE \A q \in Replicas : Promised(q)
    BY <1>1, QuietFlow DEF GetTo
  <1>2. ASSUME ToWake(p) PROVE \A q \in Replicas : Promised(q)
    <2>1. Called(flow[p].wake) \in {flow[p].wake, "none", "called", "reserved", "failed"}
      BY DEF Called
    <2>2. To(p, NoGet, Called(flow[p].wake), flow[p].provision, flow[p].stop, flow[p].reconcile)
      BY <1>2 DEF ToWake
    <2>3. /\ flow[p].provision \in {flow[p].provision, "none"}
          /\ flow[p].stop \in {flow[p].stop, "none", "listed"}
      OBVIOUS
    <2>4. QED
      BY <2>1, <2>2, <2>3, QuietFlow
  <1>3. ASSUME ToProvision(p), worker'.tokens PROVE \A q \in Replicas : Promised(q)
    BY <1>3, ProvisionFlow DEF ToProvision
  <1>4. CASE InsertCloudWorker(p)
    <2>1. RowQuiet
      BY <1>4 DEF InsertCloudWorker, NoWorker, RowQuiet
    <2>2. QED
      BY <1>1, <1>4, <2>1, QuietRow, Effects DEF Promises
  <1>5. CASE InsertWorkerTokens(p)
    <2>1. worker \in Rows /\ worker' = [worker EXCEPT !.tokens = TRUE]
      BY <1>5 DEF InsertWorkerTokens, RowOK, PresentOK, NoWorker
    <2>2. RowQuiet /\ worker'.tokens
      BY <2>1 DEF Rows, RowQuiet
    <2>3. QED
      BY <1>3, <1>5, <2>2, QuietRow, Effects DEF Promises
  <1>6. CASE GetCloudWorker(p)
    <2>1. RowQuiet
      BY <1>6 DEF GetCloudWorker, RowQuiet
    <2>2. QED
      BY <1>1, <1>6, <2>1, QuietRow, Effects DEF Promises
  <1>7. CASE StartFailedCloudHeal(p)
    <2>1. RowQuiet /\ (worker.status = "failed" /\ worker.tokens => worker'.tokens)
      BY <1>7, HealQuiet
    <2>2. IF worker.status = "failed" /\ worker.tokens THEN ToProvision(p) ELSE GetTo(p, NoGet)
      BY <1>7, Effects
    <2>3. QED
      BY <1>1, <1>3, <2>1, <2>2, QuietRow DEF Promises
  <1>8. ASSUME Answer(p) \/ StartWake(p) \/ MarkHealthyWorkerFailed(p)
        PROVE  \A q \in Replicas : Promised(q)
    BY <1>1, <1>2, <1>8, Effects DEF ToHealing
  <1>9. CASE Recycle(p)
    <2>1. RowQuiet
      BY <1>0, <1>9, CasQuiet DEF Recycle
    <2>2. QED
      BY <1>8, <1>9, <2>1, QuietRow DEF Recycle, Promises
  <1>10. CASE MarkHealthyWorkerFailed(p)
    <2>1. RowQuiet
      BY <1>0, <1>10, CasQuiet DEF MarkHealthyWorkerFailed
    <2>2. QED
      BY <1>8, <1>10, <2>1, QuietRow DEF Promises
  <1>11. CASE UNCHANGED worker /\ (Answer(p) \/ StartWake(p))
    <2>1. RowQuiet
      BY <1>11 DEF RowQuiet
    <2>2. QED
      BY <1>8, <1>11, <2>1, QuietRow DEF Promises
  <1>12. CASE Cas({"failed"}, "provisioning") /\ (Answer(p) \/ StartWake(p))
    <2>1. RowQuiet
      BY <1>0, <1>12, CasQuiet
    <2>2. QED
      BY <1>8, <1>12, <2>1, QuietRow DEF Promises
  <1>13. QED
    BY <1>4, <1>5, <1>6, <1>7, <1>9, <1>10, <1>11, <1>12
       DEF InstanceStep, ResolveFailed, ResolveStopped, ResolveHealthy, HealFailed

\* The steps of the loops keep the promises.
LEMMA LoopPromises ==
    ASSUME RowOK, RestOK, Halted => Halted', NEW p \in Replicas,
           ReconcileStep(p) \/ ListIdle(p) \/ ReadyWorker(p) \/ Crash(p)
    PROVE  Promises
  <1>0. {"provisioning"} \in SUBSET Statuses
    BY DEF Statuses
  <1>1. RowQuiet
    <2>1. UNCHANGED worker \/ Cas({"provisioning"}, "failed")
      BY DEF ReconcileStep, ListProvisioning, ReconcileWorker, ListIdle, ReadyWorker, Crash
    <2>2. QED
      BY <1>0, <2>1, CasQuiet DEF RowQuiet
  <1>2. CASE UNCHANGED flow
    BY <1>1, <1>2, QuietRow DEF Promises, Promised
  <1>3. CASE ListProvisioning(p)
    <2>1. ReconcileTo(p, flow[p].provision, "listed")
      BY <1>3, Effects
    <2>2. QED
      BY <1>1, <2>1, QuietRow, QuietFlow DEF Promises, ReconcileTo
  <1>4. CASE ReconcileWorker(p)
    <2>1. CASE worker.tokens
      <3>1. ReconcileTo(p, Called(flow[p].provision), "awaiting") /\ worker'.tokens
        BY <1>4, <2>1, Effects DEF ReconcileWorker
      <3>2. QED
        BY <1>1, <3>1, QuietRow, ProvisionFlow DEF Promises, ReconcileTo
    <2>2. CASE ~worker.tokens
      <3>1. ReconcileTo(p, flow[p].provision, "none")
        BY <1>4, <2>2, Effects
      <3>2. QED
        BY <1>1, <3>1, QuietRow, QuietFlow DEF Promises, ReconcileTo
    <2>3. QED
      BY <2>1, <2>2
  <1>5. CASE ListIdle(p)
    <2>1. StopTo(p, "listed")
      BY <1>5, Effects
    <2>2. QED
      BY <1>1, <2>1, QuietRow, QuietFlow DEF Promises, StopTo
  <1>6. CASE ReadyWorker(p)
    <2>1. CASE WakeTo(p, Called(flow[p].wake))
      <3>1. Called(flow[p].wake) \in {flow[p].wake, "called"}
        BY DEF Called
      <3>2. QED
        BY <1>1, <2>1, <3>1, QuietRow, QuietFlow DEF Promises, WakeTo
    <2>2. QED
      BY <1>2, <1>6, <2>1, Effects
  <1>7. CASE Crash(p)
    BY <1>1, <1>7, QuietRow, QuietFlow, Effects DEF Promises
  <1>8. QED
    BY <1>3, <1>4, <1>5, <1>6, <1>7 DEF ReconcileStep

\* The status is written as an operation that ends has found it.
LEMMA CasPromised ==
    ASSUME RowOK, Halted => Halted', Recoverable',
           NEW from \in SUBSET Statuses, NEW to \in Statuses,
           Cas(from, to) \/ CasUpgraded(from, to),
           to = "stopped" => Halted
    PROVE  RowPromised
  <1>1. Moves(from, to)
    BY CasMoves
  <1>2. QED
    BY <1>1 DEF Moves, RowPromised

\* While a replica brings the sandbox up, nobody stops it.
LEMMA AtProvider ==
    ASSUME RestOK, takenOver \/ MutexOK, NEW p \in Replicas,
           Waking(flow[p]) \/ Provisioning(flow[p]), Operating(p), ~takenOver
    PROVE  worker.status = "provisioning" /\ \A q \in Replicas : flow[q].stop # "stopped"
  <1>1. worker.status = "provisioning" /\ ~Stopping(flow[p])
    BY DEF MutexOK, OneThing
  <1>2. \A q \in Replicas \ {p} : ~Operating(q)
    BY DEF MutexOK
  <1>3. flow[p].stop # "stopped"
    BY <1>1 DEF Stopping
  <1>4. \A q \in Replicas \ {p} : flow[q].stop # "stopped"
    BY <1>2 DEF Operating
  <1>5. QED
    BY <1>1, <1>3, <1>4

\* A wake at the provider keeps the promises.
LEMMA WakePromises ==
    ASSUME RowOK, RestOK, takenOver \/ MutexOK, KnownOK, NEW p \in Replicas, WakeWorker(p)
    PROVE  Promises
  <1>1. Waking(flow[p]) /\ Operating(p) /\ UNCHANGED worker
    BY DEF WakeWorker, Waking, Operating
  <1>2. \/ Halted'
        \/ worker.status = "provisioning" /\ \A q \in Replicas : flow[q].stop # "stopped"
    BY <1>1, AtProvider DEF WakeWorker, Halted
  <1>3. PICK x \in {"up", "upgraded", "failed"} : WakeTo(p, x)
    BY Effects
  <1>4. flow'[p].wake \in {"up", "upgraded"} => Recoverable'
    BY <1>1 DEF WakeWorker, Provisioned, NotProvisioned, Recorded, Recycled, Woken, NotWoken, Recoverable
  <1>5. /\ flow'[p].provision = flow[p].provision /\ flow'[p].stop = flow[p].stop
        /\ \A q \in Replicas \ {p} : flow'[q] = flow[q]
    BY <1>3, WakeFields
  <1>6. \A q \in Replicas : Promised(q)
    BY <1>2, <1>4, <1>5 DEF Promised, Stopping
  <1>7. QED
    BY <1>1, <1>2, <1>6 DEF Promises, RowPromised

\* Provisioning keeps the promises.
LEMMA ProvisionPromises ==
    ASSUME RowOK, RestOK, takenOver \/ MutexOK, KnownOK, NEW p \in Replicas,
           ProvisionWorker(p)
    PROVE  Promises
  <1>1. /\ Provisioning(flow[p]) /\ Operating(p) /\ UNCHANGED worker
        /\ flow[p].provision # "none"
    BY DEF ProvisionWorker, Provisioning, Operating
  <1>2. \/ Halted'
        \/ worker.status = "provisioning" /\ \A q \in Replicas : flow[q].stop # "stopped"
    BY <1>1, AtProvider DEF ProvisionWorker, Halted
  <1>3. PICK x \in {"up", "failed"} : ReconcileTo(p, x, flow[p].reconcile)
    BY Effects
  <1>4. worker.tokens
    BY <1>1 DEF KnownOK
  <1>5. /\ flow'[p].provision = x /\ flow'[p].wake = flow[p].wake /\ flow'[p].stop = flow[p].stop
        /\ \A q \in Replicas \ {p} : flow'[q] = flow[q]
    BY <1>3, ReconcileFields
  <1>6. x = "up" => Recoverable'
    <2>1. CASE Provisioned
      BY <1>1, <1>4, <2>1 DEF Provisioned, Recoverable
    <2>2. CASE flow' = [flow EXCEPT ![p].provision = "failed"]
      <3>1. flow'[p].provision = "failed"
        BY <2>2 DEF RestOK, Flows
      <3>2. QED
        BY <1>5, <3>1
    <2>3. QED
      BY <2>1, <2>2 DEF ProvisionWorker
  <1>7. \A q \in Replicas : Promised(q)
    BY <1>1, <1>2, <1>5, <1>6 DEF Promised, Stopping
  <1>8. QED
    BY <1>1, <1>2, <1>7 DEF Promises, RowPromised

\* An idle stop keeps the promises.
LEMMA StopPromises ==
    ASSUME RowOK, RestOK, KnownOK, Halted => Halted', Recoverable => Recoverable',
           NEW p \in Replicas, ReserveIdleStop(p) \/ StopWorker(p)
    PROVE  Promises
  <1>1. CASE ReserveIdleStop(p) /\ MayStop
    <2>1. worker \in Rows /\ worker' = Written(worker, "provisioning") /\ Recoverable
      BY <1>1 DEF ReserveIdleStop, MayStop, Idle, RowOK, NoWorker, KnownOK
    <2>2. worker'.status = "provisioning"
      BY <2>1, WrittenTyped DEF Statuses
    <2>3. StopTo(p, "reserved")
      BY <1>1, Effects
    <2>4. \A q \in Replicas : Promised(q)
      BY <2>1, <2>3, StopFields DEF Promised, Stopping
    <2>5. QED
      BY <2>2, <2>4 DEF Promises, RowPromised
  <1>2. CASE ReserveIdleStop(p) /\ ~MayStop
    <2>1. StopTo(p, "none") /\ UNCHANGED worker
      BY <1>2, Effects DEF ReserveIdleStop
    <2>2. QED
      BY <2>1, QuietRow, QuietFlow DEF Promises, RowQuiet, StopTo
  <1>3. CASE StopWorker(p)
    <2>1. Stopping(flow[p]) /\ UNCHANGED <<worker, record>>
      BY <1>3 DEF StopWorker, Stopping
    <2>2. Recoverable
      BY <2>1 DEF KnownOK
    <2>3. PICK x \in {"stopped", "failed"} : StopTo(p, x)
      BY <1>3, Effects
    <2>4. x = "stopped" => Halted'
      <3>1. CASE flow' = [flow EXCEPT ![p].stop = "failed"]
        <4>1. flow'[p].stop = "failed"
          BY <3>1 DEF RestOK, Flows
        <4>2. QED
          BY <2>3, <4>1, StopFields
      <3>2. CASE IF record = "none" THEN UNCHANGED sandbox
                 ELSE sandbox[record] # "none" /\ sandbox' = [sandbox EXCEPT ![record] = "stopped"]
        <4>1. record \in {"named", "older"}
          BY <2>2 DEF Recoverable, RestOK
        <4>2. record' = record /\ sandbox'[record] = "stopped"
          BY <2>1, <3>2, <4>1 DEF RestOK
        <4>3. QED
          BY <4>1, <4>2 DEF Halted, Up
      <3>3. QED
        BY <1>3, <3>1, <3>2 DEF StopWorker
    <2>5. \A q \in Replicas : Promised(q)
      BY <2>1, <2>3, <2>4, StopFields DEF Promised, Stopping
    <2>6. QED
      BY <2>1, <2>5, QuietRow DEF Promises, RowQuiet
  <1>4. QED
    BY <1>1, <1>2, <1>3

\* What is written at the end of an operation is true.
LEMMA WritePromises ==
    ASSUME RowOK, RestOK, KnownOK, Halted => Halted', Recoverable => Recoverable',
           NEW p \in Replicas,
           ReserveWake(p) \/ WriteWoken(p) \/ WriteProvisioned(p) \/ WriteStopped(p)
    PROVE  Promises
  <1>0. /\ {"stopped"} \in SUBSET Statuses /\ {"provisioning"} \in SUBSET Statuses
        /\ {"provisioning", "failed"} \in SUBSET Statuses
        /\ {"healthy", "stopped"} \subseteq Statuses
    BY DEF Statuses
  <1>1. CASE ReserveWake(p)
    <2>1. Cas({"stopped"}, "provisioning")
      BY <1>1 DEF ReserveWake
    <2>2. RowPromised
      BY <1>0, <2>1, CasQuiet, QuietRow
    <2>3. \E x \in {"reserved", "none"} : WakeTo(p, x)
      BY <1>1, Effects
    <2>4. QED
      BY <2>2, <2>3, QuietFlow DEF Promises, WakeTo
  <1>2. CASE WriteWoken(p)
    <2>1. WakeTo(p, "none")
      BY <1>2, Effects
    <2>2. RowPromised
      <3>1. CASE Cas({"provisioning"}, "failed")
        BY <1>0, <3>1, CasQuiet, QuietRow
      <3>2. CASE /\ flow[p].wake \in {"up", "upgraded"}
                 /\ \/ Cas({"provisioning"}, "healthy")
                    \/ CasUpgraded({"provisioning"}, "healthy")
        <4>1. Recoverable'
          BY <3>2 DEF KnownOK
        <4>2. QED
          BY <1>0, <3>2, <4>1, CasPromised
      <3>3. QED
        BY <1>2, <3>1, <3>2 DEF WriteWoken
    <2>3. QED
      BY <2>1, <2>2, QuietFlow DEF Promises, WakeTo
  <1>3. CASE WriteProvisioned(p)
    <2>1. \E r \in {"none", flow[p].reconcile} : ReconcileTo(p, "none", r)
      BY <1>3, Effects
    <2>2. RowPromised
      <3>1. CASE Cas({"provisioning"}, "failed")
        BY <1>0, <3>1, CasQuiet, QuietRow
      <3>2. CASE flow[p].provision = "up" /\ CasUpgraded({"provisioning", "failed"}, "healthy")
        <4>1. Recoverable'
          BY <3>2 DEF KnownOK
        <4>2. QED
          BY <1>0, <3>2, <4>1, CasPromised
      <3>3. QED
        BY <1>3, <3>1, <3>2 DEF WriteProvisioned
    <2>3. QED
      BY <2>1, <2>2, QuietFlow DEF Promises, ReconcileTo
  <1>4. CASE WriteStopped(p)
    <2>1. StopTo(p, "none")
      BY <1>4, Effects
    <2>2. Stopping(flow[p]) /\ Cas({"provisioning"}, AfterStop(flow[p].stop))
      BY <1>4 DEF WriteStopped, Stopping
    <2>3. /\ AfterStop(flow[p].stop) \in Statuses
          /\ AfterStop(flow[p].stop) = "stopped" => Halted
      BY <1>0 DEF AfterStop, KnownOK
    <2>4. Recoverable'
      BY <2>2 DEF KnownOK
    <2>5. RowPromised
      BY <1>0, <2>2, <2>3, <2>4, CasPromised
    <2>6. QED
      BY <2>1, <2>5, QuietFlow DEF Promises, StopTo
  <1>5. QED
    BY <1>1, <1>2, <1>3, <1>4

\* Every step keeps what is known of the worker.
LEMMA StepKnown ==
    ASSUME TypeOK, PresentOK, takenOver \/ MutexOK, KnownOK, Next
    PROVE  KnownOK'
  <1>0. RowOK /\ RestOK
    BY TypeParts
  <1>1. Recoverable => Recoverable'
    BY StepRow, StepRecord DEF Recoverable, RowStep
  <1>2. ASSUME Promises PROVE KnownOK'
    BY <1>2, PromisesKept DEF Promises
  <1>3. ASSUME NEW p \in Replicas, WakeWorker(p) \/ ProvisionWorker(p) PROVE KnownOK'
    BY <1>0, <1>2, <1>3, WakePromises, ProvisionPromises
  <1>4. CASE \A p \in Replicas : ~WakeWorker(p) /\ ~ProvisionWorker(p)
    <2>1. Halted => Halted'
      BY <1>4, StepHalted
    <2>2. ASSUME NEW p \in Replicas, InstanceStep(p) PROVE KnownOK'
      BY <1>0, <1>2, <2>1, <2>2, InstancePromises
    <2>3. ASSUME NEW p \in Replicas, OperationStep(p) PROVE KnownOK'
      <3>1. CASE InsertWorkerTokens(p)
        BY <2>2, <3>1 DEF InstanceStep
      <3>2. CASE ReserveIdleStop(p) \/ StopWorker(p)
        BY <1>0, <1>1, <1>2, <2>1, <3>2, StopPromises
      <3>3. CASE ReserveWake(p) \/ WriteWoken(p) \/ WriteProvisioned(p) \/ WriteStopped(p)
        BY <1>0, <1>1, <1>2, <2>1, <3>3, WritePromises
      <3>4. QED
        BY <1>4, <2>3, <3>1, <3>2, <3>3 DEF OperationStep
    <2>4. ASSUME NEW p \in Replicas,
                 ReconcileStep(p) \/ ListIdle(p) \/ ReadyWorker(p) \/ Crash(p)
          PROVE  KnownOK'
      BY <1>0, <1>2, <2>1, <2>4, LoopPromises
    <2>5. CASE UNCHANGED <<worker, flow>>
      <3>1. Promises
        BY <2>1, <2>5 DEF Promises, Promised, RowPromised
      <3>2. QED
        BY <1>2, <3>1
    <2>6. CASE ActiveHeartbeat \/ BecomeIdle \/ BecomeOverdue
      <3>1. worker'.status = worker.status /\ UNCHANGED flow
        BY <1>0, <2>6 DEF ActiveHeartbeat, BecomeIdle, BecomeOverdue, RowOK, Rows, NoWorker
      <3>2. Promises
        BY <2>1, <3>1 DEF Promises, Promised, RowPromised
      <3>3. QED
        BY <1>2, <3>2
    <2>7. CASE Deploy
      <3>1. worker'.status = worker.status
        BY <1>0, <2>7 DEF Deploy, RowOK, Rows, NoWorker
      <3>2. \A p \in Replicas : flow'[p] = NoFlow
        BY <2>7 DEF Deploy
      <3>3. Promises
        BY <2>1, <3>1, <3>2 DEF Promises, Promised, RowPromised, Stopping, NoFlow
      <3>4. QED
        BY <1>2, <3>3
    <2>8. QED
      BY <2>2, <2>3, <2>4, <2>5, <2>6, <2>7
         DEF Next, RequestUpdate, AdmitRun, EndRun, Boot, LoseSandbox
  <1>5. QED
    BY <1>3, <1>4

\* Nothing is promised initially, and no run is stopped.
LEMMA InitKnown == Init => KnownOK /\ IdleStopSparesRuns
  <1> SUFFICES ASSUME Init PROVE KnownOK /\ IdleStopSparesRuns
    OBVIOUS
  <1>1. \A p \in Replicas : flow[p] = NoFlow
    BY DEF Init
  <1>2. worker.status = "absent" /\ record = "none" /\ run = "none"
    BY DEF Init, NoWorker
  <1>3. QED
    BY <1>1, <1>2 DEF KnownOK, IdleStopSparesRuns, NoFlow, Stopping

-----------------------------------------------------------------------------
(* The theorems.                                                           *)

IInv ==
    /\ TypeOK /\ PresentOK /\ KnownOK
    /\ takenOver \/ MutexOK
    /\ IdleStopSparesRuns

\* The strengthening all that follows rests on.  Until a reconciler takes over, who
\* operates on the worker finds it provisioning and is alone; what a flow has made sure of
\* holds until it is written, the halted sandbox until a reconciler takes over.
THEOREM InductiveInvariant == Spec => []IInv
  <1>1. Init => IInv
    BY InitHolds, InitKnown DEF IInv
  <1>2. IInv /\ [Next]_cloudVars => IInv'
    <2> SUFFICES ASSUME IInv, [Next]_cloudVars PROVE IInv'
      OBVIOUS
    <2>1. CASE Next
      <3>1. TypeOK' /\ PresentOK' /\ KnownOK'
        BY <2>1, StepTyped, StepPresent, StepKnown DEF IInv
      <3>2. CASE takenOver'
        BY <3>1, <3>2 DEF IInv, IdleStopSparesRuns
      <3>3. CASE ~takenOver'
        <4>1. ~takenOver /\ MutexOK
          BY <2>1, <3>3, StepTakenOver DEF IInv
        <4>2. QED
          BY <2>1, <3>1, <3>3, <4>1, StepMutex, StepSpares DEF IInv
      <3>4. QED
        BY <3>2, <3>3
    <2>2. CASE UNCHANGED cloudVars
      <3>1. TypeOK' /\ PresentOK'
        BY <2>2 DEF cloudVars, IInv, TypeOK, PresentOK
      <3>2. (takenOver \/ MutexOK)'
        BY <2>2 DEF cloudVars, IInv, MutexOK, Operating
      <3>3. KnownOK' /\ IdleStopSparesRuns'
        BY <2>2 DEF cloudVars, IInv, KnownOK, Recoverable, Halted, IdleStopSparesRuns
      <3>4. QED
        BY <3>1, <3>2, <3>3 DEF IInv
    <2>3. QED
      BY <2>1, <2>2
  <1>3. QED
    BY <1>1, <1>2, PTL DEF Spec

\* Exclusion, as the run states it.
LEMMA MutexCounts ==
    ASSUME MutexOK
    PROVE  OneProviderAction
  <1> DEFINE W == {p \in Replicas : flow[p].wake = "reserved"}
             P == {p \in Replicas : flow[p].provision = "called"}
             S == {p \in Replicas : flow[p].stop = "reserved"}
  <1>0. Cardinality({}) = 0 /\ \A q : Cardinality({q}) = 1
    BY FS_EmptySet, FS_Singleton
  <1>1. \A p \in Replicas : p \in W \cup P \cup S => Operating(p)
    BY DEF Operating
  <1>2. CASE \A p \in Replicas : ~Operating(p)
    <2>1. W = {} /\ P = {} /\ S = {}
      BY <1>1, <1>2
    <2>2. Cardinality(W) = 0 /\ Cardinality(P) = 0 /\ Cardinality(S) = 0
      <3> HIDE DEF W, P, S
      <3>1. QED
        BY <1>0, <2>1
    <2>3. Cardinality(W) + Cardinality(P) + Cardinality(S) <= 1
      <3> HIDE DEF W, P, S
      <3>1. QED
        BY <2>2
    <2>4. QED
      BY <2>3 DEF OneProviderAction
  <1>3. ASSUME NEW q \in Replicas, Operating(q) PROVE OneProviderAction
    <2>1. W \subseteq {q} /\ P \subseteq {q} /\ S \subseteq {q}
      BY <1>1, <1>3 DEF MutexOK
    <2>2. OneThing(flow[q])
      BY <1>3 DEF MutexOK
    <2>3. /\ q \in W => q \notin P /\ q \notin S
          /\ q \in P => q \notin S
      BY <2>2 DEF OneThing, Waking, Provisioning, Stopping
    <2>4. \/ W = {} /\ P = {}
          \/ W = {} /\ S = {}
          \/ P = {} /\ S = {}
      BY <2>1, <2>3
    <2>5. /\ Cardinality(W) \in {0, 1} /\ Cardinality(P) \in {0, 1} /\ Cardinality(S) \in {0, 1}
          /\ W = {} => Cardinality(W) = 0
          /\ P = {} => Cardinality(P) = 0
          /\ S = {} => Cardinality(S) = 0
      <3>1. (W = {} \/ W = {q}) /\ (P = {} \/ P = {q}) /\ (S = {} \/ S = {q})
        BY <2>1
      <3> HIDE DEF W, P, S
      <3>2. QED
        BY <1>0, <3>1
    <2>6. Cardinality(W) + Cardinality(P) + Cardinality(S) <= 1
      <3> HIDE DEF W, P, S
      <3>1. QED
        BY <2>4, <2>5
    <2>7. QED
      BY <2>6 DEF OneProviderAction
  <1>4. QED
    BY <1>2, <1>3

\* The status of the row is a mutex: whatever browsers, runs, and the loops of any number
\* of replicas begin, one at most is at the provider, and the first step that can make it
\* two is a reconciler's that takes over what was not left behind.
THEOREM ClaimsAreExclusive == Spec => []ClaimsExclude
  <1>1. IInv => ClaimsExclude
    BY MutexCounts DEF IInv, ClaimsExclude
  <1>2. QED
    BY <1>1, InductiveInvariant, PTL

\* The idle loop of no replica stops the worker a run is using, whichever replica
\* executes it, before a reconciler has taken over.
THEOREM RunsAreSpared == Spec => []IdleStopSparesRuns
  <1>1. IInv => IdleStopSparesRuns
    BY DEF IInv
  <1>2. QED
    BY <1>1, InductiveInvariant, PTL

\* What requests conclude from the status alone is so: a healthy worker can be brought up
\* again from its tokens and its record whatever the reconcilers do, and a stopped one was
\* not left running before one has taken over.
THEOREM StatusCanBeTrusted == Spec => []StatusIsTrue
  <1>1. IInv => StatusIsTrue
    BY DEF IInv, KnownOK, Recoverable, Halted, StatusIsTrue
  <1>2. QED
    BY <1>1, InductiveInvariant, PTL
=============================================================================
