------------------------- MODULE AutomationSchedule -------------------------
(***************************************************************************)
(* One Automation: its row, its revisions, and the runs that scheduler     *)
(* replicas and "run now" requests create for it.  The runs themselves     *)
(* behave as RunLifecycle says, which AutomationRuns implements.           *)
(*                                                                         *)
(* A scheduler cycle and a request read the Automation in one statement    *)
(* and use what they read in a later transaction; edits, activations and   *)
(* other replicas come in between.                                         *)
(*                                                                         *)
(* Source: ee/apps/den-api/src/automations/{repository,service}.ts,        *)
(* cloud-artifact-state.ts, packages/automations/src/schedule.ts.          *)
(***************************************************************************)
EXTENDS RunLifecycle, Sequences, FiniteSets

CONSTANTS
    Replicas,      \* Den API processes running the scheduler
    Sessions,      \* owner requests in flight at the same time
    Definitions,   \* the schedules and actions an owner chooses from
    NoRun,         \* "no run" in a cycle's local state
    MaxTime,       \* BOUND: the clock stops here
    MaxRevisions,  \* BOUND: edits
    MaxManual,     \* BOUND: runs recorded for "run now" requests
    Cancellable,   \* BOUND: the runs an owner may cancel
    Outcomes       \* BOUND: the ways agents and desktops end a run

NoTime == 0    \* a NULL timestamp; the clock starts at 1
AutomationStates == {"active", "inactive", "needs_attention", "archived"}
ScriptResults == {"none", "succeeded", "failed"}

\* The schedule of a definition is an interval, or fixed times (daily, weekly,
\* weekdays).
IntervalSchedule(d) == d.kind = "interval"

ASSUME ScheduleAssumption ==
    /\ NoRun \notin Runs
    /\ MaxTime \in Nat \ {0}
    /\ \A d \in Definitions :
        /\ d.action \in {"agent", "saved_script"}
        /\ \/ IntervalSchedule(d) /\ d.every \in Nat \ {0}
           \/ d.kind = "times" /\ d.times \subseteq Nat

VARIABLES
    now,         \* Date.now()
    automation,  \* AutomationTable, one row; the current revision is the last one.
                 \* HISTORY: `since`, the time its occurrences are counted from
    revisions,   \* AutomationRevisionTable: the definition of each version
    made,        \* AutomationRunTable: trigger, occurrence and revision of each run
    cycle,       \* the due item each replica is working on
    request,     \* the owner request of each session, between read and write
    scripts      \* saved scripts being executed, with the result each returned

scheduleVars ==
    <<status, attempt, cancel, now, automation, revisions, made, cycle, request, scripts>>

NotMade == [trigger |-> "none", scheduledFor |-> NoTime, revision |-> 0]
IdleItem == [phase |-> "idle", revision |-> 0, scheduledFor |-> NoTime, run |-> NoRun]
NoRequest == [op |-> "none", revision |-> 0, nextDue |-> NoTime, target |-> "active"]

Versions == 0..Len(revisions)

TypeOK ==
    /\ LifecycleTypeOK
    /\ now \in 1..MaxTime
    /\ automation \in [state : AutomationStates, nextDue : Nat, reason : BOOLEAN,
                       since : Nat]
    /\ revisions \in Seq(Definitions)
    /\ made \in [Runs -> [trigger : {"none", "scheduled", "manual"},
                          scheduledFor : Nat, revision : Versions]]
    /\ cycle \in [Replicas -> [phase : {"idle", "claiming", "refusing", "marking"},
                               revision : Versions, scheduledFor : Nat,
                               run : Runs \cup {NoRun}]]
    /\ request \in [Sessions -> [op : {"none", "run_now", "blocked", "record", "set_state"},
                                 revision : Versions, nextDue : Nat,
                                 target : AutomationStates]]
    /\ scripts \subseteq [run : Runs, attempt : Nat, result : ScriptResults]

-----------------------------------------------------------------------------
(* Schedules.                                                              *)

Least(S) == CHOOSE t \in S : \A u \in S : t <= u

Occurrence(d, after) ==
    IF IntervalSchedule(d) THEN after + d.every
    ELSE LET later == {t \in d.times : t > after}
         IN IF later = {} THEN NoTime ELSE Least(later)

\* Mutant of NextOccurrence: counted from the present, not from the occurrence.
NextOccurrenceFromNow(d, after) == Occurrence(d, now)

\* nextAutomationOccurrence: strictly later than `after`; an interval counts from it.
NextOccurrence(d, after) == Occurrence(d, after)

CurrentRevision == Len(revisions)

Action(revision) == revisions[revision].action

Init ==
    /\ LifecycleInit
    /\ \A r \in Runs : status[r] = "absent"
    /\ now = 1
    /\ \E d \in Definitions :
        /\ revisions = <<d>>
        /\ automation = [state |-> "active", nextDue |-> NextOccurrence(d, 1),
                         reason |-> FALSE, since |-> 1]
    /\ made = [r \in Runs |-> NotMade]
    /\ cycle = [p \in Replicas |-> IdleItem]
    /\ request = [s \in Sessions |-> NoRequest]
    /\ scripts = {}

Tick ==
    /\ now < MaxTime
    /\ now' = now + 1
    /\ UNCHANGED <<status, attempt, cancel, automation, revisions, made, cycle, request,
                   scripts>>

-----------------------------------------------------------------------------
(* Creating runs.                                                          *)

ActiveRuns == {r \in Runs : status[r] \in {"queued", "running"}}

\* Mutant of FirstStatus: a run that is still queued does not stand in the way.
FirstStatusUnlessStarted ==
    IF \A r \in Runs : status[r] # "running" THEN "queued" ELSE "skipped"

FirstStatus == IF ActiveRuns = {} THEN "queued" ELSE "skipped"

\* Mutant of Duplicate: only a run that is still active is found.
DuplicateActive(t) == \E r \in ActiveRuns : made[r].scheduledFor = t

\* The idempotency key of a scheduled run is its occurrence.
Duplicate(t) == \E r \in Runs : made[r].scheduledFor = t

NewRun == CHOOSE r \in Runs : status[r] = "absent"

\* A row is inserted under a fresh id.
Record(first, trigger, scheduledFor, revision) ==
    /\ \E r \in Runs : status[r] = "absent"
    /\ Create(NewRun, first)
    /\ made' = [made EXCEPT ![NewRun] = [trigger |-> trigger,
                                         scheduledFor |-> scheduledFor,
                                         revision |-> revision]]

ManualRuns == {r \in Runs : made[r].trigger = "manual"}
ManualAllowed == Cardinality(ManualRuns) < MaxManual    \* bound

NothingMade == UNCHANGED <<lifecycleVars, made>>

-----------------------------------------------------------------------------
(* The scheduler cycle of a replica, as far as this Automation is due.     *)

IsDue == automation.state = "active" /\ automation.nextDue \in 1..now

\* listDue, with the revision that is current then.
DueRead(p) ==
    /\ cycle[p].phase = "idle"
    /\ IsDue
    /\ cycle' = [cycle EXCEPT ![p] = [phase |-> "claiming", revision |-> CurrentRevision,
                                      scheduledFor |-> automation.nextDue, run |-> NoRun]]
    /\ NothingMade
    /\ UNCHANGED <<now, automation, revisions, request, scripts>>

\* claim refuses: the Automation is no longer active, or the occurrence is recorded.
ScheduledRefused(item) ==
    automation.state # "active" \/ Duplicate(item.scheduledFor)

\* claim records the occurrence, skipped when another run is active, and moves
\* next_due_at on from the occurrence by the schedule that was read with it.  When
\* the owner's access turned out to be lost a new run is skipped afterwards.
ClaimScheduled(p) ==
    /\ cycle[p].phase = "claiming"
    /\ \/ /\ ScheduledRefused(cycle[p])
          /\ cycle' = [cycle EXCEPT ![p] = IdleItem]
          /\ NothingMade
          /\ UNCHANGED automation
       \/ /\ ~ScheduledRefused(cycle[p])
          /\ Record(FirstStatus, "scheduled", cycle[p].scheduledFor, cycle[p].revision)
          /\ automation' = [automation EXCEPT !.nextDue =
                NextOccurrence(revisions[cycle[p].revision], cycle[p].scheduledFor)]
          /\ \/ cycle' = [cycle EXCEPT ![p] = IdleItem]
             \/ /\ FirstStatus = "queued"
                /\ cycle' = [cycle EXCEPT ![p].phase = "refusing", ![p].run = NewRun]
    /\ UNCHANGED <<now, revisions, request, scripts>>

\* skipRun: whoever has started the run in between loses it.
SkipRefused(p) ==
    /\ cycle[p].phase = "refusing"
    /\ LET r == cycle[p].run
       IN IF status[r] \in {"queued", "running"}
          THEN Finish(r, "skipped") ELSE UNCHANGED lifecycleVars
    /\ cycle' = [cycle EXCEPT ![p].phase = "marking"]
    /\ UNCHANGED <<now, automation, revisions, made, request, scripts>>

\* markNeedsAttention: only an active Automation whose revision is still the one
\* that failed.
MarkAllowed(revision) == automation.state = "active" /\ revision = CurrentRevision

\* Mutant of Attended: the code of the reason is stored as the state.
AttendedByCode(row) == [row EXCEPT !.state = "model_access_lost", !.nextDue = NoTime]

Attended(row) == [row EXCEPT !.state = "needs_attention", !.nextDue = NoTime, !.reason = TRUE]

MarkRefused(p) ==
    /\ cycle[p].phase = "marking"
    /\ automation' = IF MarkAllowed(cycle[p].revision) THEN Attended(automation)
                     ELSE automation
    /\ cycle' = [cycle EXCEPT ![p] = IdleItem]
    /\ NothingMade
    /\ UNCHANGED <<now, revisions, request, scripts>>

\* The same statement from reconcileModelAttention, a runner's claim or completion,
\* or an agent that needs attention; it has no effect for an older revision.
MarkNeedsAttention ==
    /\ Action(CurrentRevision) = "agent"
    /\ MarkAllowed(CurrentRevision)
    /\ automation' = Attended(automation)
    /\ NothingMade
    /\ UNCHANGED <<now, revisions, cycle, request, scripts>>

-----------------------------------------------------------------------------
(* Owner requests.                                                         *)

\* update is one transaction: a new revision, an active Automation, a new due time.
Update(d) ==
    /\ automation.state # "archived"
    /\ Len(revisions) < MaxRevisions
    /\ revisions' = Append(revisions, d)
    /\ automation' = [automation EXCEPT !.state = "active", !.reason = FALSE,
                                        !.nextDue = NextOccurrence(d, now), !.since = now]
    /\ NothingMade
    /\ UNCHANGED <<now, cycle, request, scripts>>

\* activate, deactivate and archive: setState reads the Automation ...
SetStateRead(s, target) ==
    /\ request[s].op = "none"
    /\ target \in {"active", "inactive", "archived"} \ {automation.state}
    /\ request' = [request EXCEPT ![s] = [op |-> "set_state", revision |-> CurrentRevision,
                                          nextDue |-> NoTime, target |-> target]]
    /\ NothingMade
    /\ UNCHANGED <<now, automation, revisions, cycle, scripts>>

\* ... and updates it by id alone.
SetStateWrite(s) ==
    /\ request[s].op = "set_state"
    /\ automation' = [automation EXCEPT
          !.state = request[s].target, !.reason = FALSE,
          !.nextDue = IF request[s].target = "active"
                      THEN NextOccurrence(revisions[request[s].revision], now) ELSE NoTime,
          !.since = IF request[s].target = "active" THEN now ELSE @]
    /\ request' = [request EXCEPT ![s] = NoRequest]
    /\ NothingMade
    /\ UNCHANGED <<now, revisions, cycle, scripts>>

\* runNow reads the Automation; a reason for attention, or lost access to the
\* model of an agent, blocks it.
RunNowRead(s) ==
    /\ request[s].op = "none"
    /\ automation.state # "archived"
    /\ ManualAllowed
    /\ \E op \in {"run_now", "blocked"} :
        /\ automation.reason => op = "blocked"
        /\ op = "blocked" => automation.reason \/ Action(CurrentRevision) = "agent"
        /\ request' = [request EXCEPT ![s] = [op |-> op, revision |-> CurrentRevision,
                                              nextDue |-> automation.nextDue,
                                              target |-> "active"]]
    /\ NothingMade
    /\ UNCHANGED <<now, automation, revisions, cycle, scripts>>

\* claim for a manual run writes back the next_due_at that was read.
ClaimManual(s) ==
    /\ request[s].op = "run_now"
    /\ IF automation.state \in {"active", "inactive"}
       THEN /\ Record(FirstStatus, "manual", NoTime, request[s].revision)
            /\ automation' = [automation EXCEPT !.nextDue = request[s].nextDue]
       ELSE NothingMade /\ UNCHANGED automation
    /\ request' = [request EXCEPT ![s] = NoRequest]
    /\ UNCHANGED <<now, revisions, cycle, scripts>>

\* A blocked request marks the Automation, then records a skipped run.
MarkBlocked(s) ==
    /\ request[s].op = "blocked"
    /\ automation' = IF MarkAllowed(request[s].revision) THEN Attended(automation)
                     ELSE automation
    /\ request' = [request EXCEPT ![s].op = "record"]
    /\ NothingMade
    /\ UNCHANGED <<now, revisions, cycle, scripts>>

RecordSkippedManual(s) ==
    /\ request[s].op = "record"
    /\ IF automation.state # "archived" /\ request[s].revision = CurrentRevision
       THEN Record("skipped", "manual", NoTime, request[s].revision)
       ELSE NothingMade
    /\ request' = [request EXCEPT ![s] = NoRequest]
    /\ UNCHANGED <<now, automation, revisions, cycle, scripts>>

-----------------------------------------------------------------------------
(* The runs.                                                               *)

IsScript(r) == Action(made[r].revision) = "saved_script"

\* claimCloud hands a run to executeCloudRun, which starts the script.
Execute(r) ==
    /\ StartRun(r)
    /\ scripts' = IF IsScript(r)
                  THEN scripts \cup {[run |-> r, attempt |-> attempt'[r], result |-> "none"]}
                  ELSE scripts
    /\ UNCHANGED <<now, automation, revisions, made, cycle, request>>

\* Whatever else happens to a run happens elsewhere.
RunStepOf(r) ==
    /\ RunStep(r)
    /\ attempt'[r] = attempt[r]
    /\ cancel'[r] => r \in Cancellable
    /\ status'[r] \in TerminalStatuses => status'[r] \in Outcomes
    /\ UNCHANGED <<now, automation, revisions, made, cycle, request, scripts>>

Returned(x, result) == scripts' = (scripts \ {x}) \cup {[x EXCEPT !.result = result]}

\* completeCloud, its first half: the script's result ends the run, or is the
\* result the run already has; otherwise the execution ends in an error.
CompleteScript(x) ==
    /\ x.result = "none"
    /\ \E result \in {"succeeded", "failed"} :
        \/ Finish(x.run, result) /\ Returned(x, result)
        \/ status[x.run] = result /\ UNCHANGED lifecycleVars /\ Returned(x, result)
        \/ UNCHANGED lifecycleVars /\ scripts' = scripts \ {x}
    /\ UNCHANGED <<now, automation, revisions, made, cycle, request>>

\* ... and its second half: cloudArtifactStateUpdate, whatever state the Automation
\* is in by now, with next_due_at as it is.
ApplyResult(x) ==
    /\ x.result # "none"
    /\ automation' = [automation EXCEPT
          !.reason = (x.result = "failed"),
          !.state = IF x.result = "succeeded" THEN "active" ELSE "needs_attention"]
    /\ scripts' = scripts \ {x}
    /\ NothingMade
    /\ UNCHANGED <<now, revisions, cycle, request>>

-----------------------------------------------------------------------------
CycleStep(p) == DueRead(p) \/ ClaimScheduled(p) \/ SkipRefused(p) \/ MarkRefused(p)

RequestStep(s) ==
    \/ \E target \in AutomationStates : SetStateRead(s, target)
    \/ SetStateWrite(s) \/ RunNowRead(s) \/ ClaimManual(s) \/ MarkBlocked(s)
    \/ RecordSkippedManual(s)

Next ==
    \/ Tick
    \/ MarkNeedsAttention
    \/ \E p \in Replicas : CycleStep(p)
    \/ \E d \in Definitions : Update(d)
    \/ \E s \in Sessions : RequestStep(s)
    \/ \E r \in Runs : Execute(r) \/ RunStepOf(r)
    \/ \E x \in scripts : CompleteScript(x) \/ ApplyResult(x)

Spec == Init /\ [][Next]_scheduleVars

\* The scheduler loop of every replica keeps cycling.
FairSpec == Spec /\ \A p \in Replicas : WF_scheduleVars(CycleStep(p))

-----------------------------------------------------------------------------
(* Properties.                                                             *)

\* An occurrence gives rise to one run, although every replica lists it as due
\* and a "run now" request may set next_due_at back to it.
OneRunPerOccurrence ==
    \A r, q \in Runs :
        made[r].scheduledFor # NoTime /\ made[r].scheduledFor = made[q].scheduledFor
            => r = q

\* Runs of one Automation do not overlap, scheduled or manual, unless a late
\* cancellation revived one that had ended.
AtMostOneActiveRun ==
    \A r, q \in {x \in ActiveRuns : ~cancel[x]} : r = q

Recorded(t) == \E r \in Runs : made[r].scheduledFor = t

\* Every occurrence between the last activation and next_due_at has its run, or an
\* interval one as close after the other as the interval asks: no stale claim, no
\* next_due_at written back by a "run now" and no later claim passes over one.  An
\* edit under way changes what an occurrence is, so the definition is the first one.
NoOccurrencePassedOver ==
    Len(revisions) = 1 =>
        \A t \in automation.since..automation.nextDue :
            LET occurrence == Occurrence(revisions[1], t)
            IN occurrence \in (t + 1)..(automation.nextDue - 1) =>
                \E r \in Runs : made[r].scheduledFor \in (t + 1)..occurrence

\* service.ts (tick): a due occurrence is "still claimed either way so the schedule
\* advances durably".  Once next_due_at has come, the occurrence is recorded, unless
\* the Automation stops being active or its owner edits or activates it again.  A
\* "run now" that read an older next_due_at writes it back over the due one; the
\* older one is recorded already, every cycle finds a duplicate and the schedule
\* stands still.
DueIsRecorded ==
    \A t, start \in 1..MaxTime :
        (/\ automation.state = "active"
         /\ automation.nextDue = t
         /\ t <= now
         /\ automation.since = start)
            ~> (Recorded(t) \/ automation.state # "active" \/ automation.since # start)

=============================================================================
