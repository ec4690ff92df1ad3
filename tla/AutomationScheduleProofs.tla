---------------------- MODULE AutomationScheduleProofs ----------------------
(***************************************************************************)
(* Theorems about AutomationSchedule, for any number of replicas, owner    *)
(* requests, edits and runs.                                               *)
(*                                                                         *)
(* Typed is inductive by itself.  The two invariants about the creation of *)
(* runs are inductive given Typed: a step of the run lifecycle never makes *)
(* a run active that was not, unless its cancellation was requested, and   *)
(* only Record adds to `made`, behind claim's duplicate test.              *)
(***************************************************************************)
EXTENDS AutomationSchedule, WellFoundedInduction, TLAPS

\* What a step of a cycle or a request relies on: the revision it read exists, and
\* the run it is to skip is a run.
SoundItems ==
    {item \in [phase : {"idle", "claiming", "refusing", "marking"}, revision : Versions,
               scheduledFor : Nat, run : Runs \cup {NoRun}] :
        /\ item.phase # "idle" => item.revision # 0
        /\ item.phase = "refusing" => item.run \in Runs}

SoundRequests ==
    {req \in [op : {"none", "run_now", "blocked", "record", "set_state"},
              revision : Versions, nextDue : Nat, target : AutomationStates] :
        req.op # "none" => req.revision # 0}

Mades == [trigger : {"none", "scheduled", "manual"}, scheduledFor : Nat,
          revision : Versions]

AutomationRows == [state : AutomationStates, nextDue : Nat, reason : BOOLEAN, since : Nat]

Typed ==
    /\ LifecycleTypeOK
    /\ now \in 1..MaxTime
    /\ automation \in AutomationRows
    /\ revisions \in Seq(Definitions)
    /\ revisions # <<>>
    /\ made \in [Runs -> Mades]
    /\ cycle \in [Replicas -> SoundItems]
    /\ request \in [Sessions -> SoundRequests]
    /\ scripts \subseteq [run : Runs, attempt : Nat, result : ScriptResults]

\* A run active after a step, and not being cancelled, was so before it.
NothingNewActive ==
    \A q \in Runs : status'[q] \in {"queued", "running"} /\ ~cancel'[q]
        => status[q] \in {"queued", "running"} /\ ~cancel[q]

Creation == OneRunPerOccurrence /\ AtMostOneActiveRun

-----------------------------------------------------------------------------
(* Schedules and revisions.                                                *)

\* A set of times that is not empty has a least one.
LEMMA LeastIsMember ==
    ASSUME NEW S, S \subseteq Nat, S # {}
    PROVE  Least(S) \in S /\ \A t \in S : Least(S) <= t
  <1>1. PICK x \in S : \A y \in S : ~ (<<y, x>> \in OpToRel(<, Nat))
    BY NatLessThanWellFounded, WFMin
  <1>2. ASSUME NEW y \in S PROVE x <= y
    <2>1. <<y, x>> \in Nat \X Nat /\ <<y, x>>[1] = y /\ <<y, x>>[2] = x
      OBVIOUS
    <2>2. ~(y < x)
      BY <1>1, <2>1, Zenon DEF OpToRel
    <2> QED
      BY <2>2
  <1> QED
    BY <1>2 DEF Least

\* A next occurrence is a time.
LEMMA OccurrenceIsTime ==
    ASSUME NEW d \in Definitions, NEW after \in Nat PROVE NextOccurrence(d, after) \in Nat
  <1>1. CASE IntervalSchedule(d)
    BY <1>1, ScheduleAssumption DEF NextOccurrence, Occurrence, IntervalSchedule
  <1>2. CASE ~IntervalSchedule(d)
    <2> DEFINE later == {t \in d.times : t > after}
    <2>1. later \subseteq Nat
      BY <1>2, ScheduleAssumption DEF IntervalSchedule
    <2>2. later # {} => Least(later) \in Nat
      BY <2>1, LeastIsMember
    <2> QED
      BY <1>2, <2>2 DEF NextOccurrence, Occurrence, NoTime
  <1> QED
    BY <1>1, <1>2

\* The next occurrence is later, and does not overtake the one of a later time.
LEMMA OccurrenceOrder ==
    ASSUME NEW d \in Definitions, NEW t \in Nat, NEW u \in Nat, t <= u,
           Occurrence(d, u) # NoTime
    PROVE  /\ Occurrence(d, t) # NoTime
           /\ Occurrence(d, t) <= Occurrence(d, u)
           /\ Occurrence(d, u) > u
  <1>1. CASE IntervalSchedule(d)
    BY <1>1, ScheduleAssumption DEF Occurrence, IntervalSchedule, NoTime
  <1>2. CASE ~IntervalSchedule(d)
    <2> DEFINE after(x) == {y \in d.times : y > x}
    <2>1. after(u) \subseteq after(t) /\ after(t) \subseteq Nat /\ after(u) \subseteq Nat
      BY <1>2, ScheduleAssumption DEF IntervalSchedule
    <2>2. after(u) # {} /\ Occurrence(d, u) = Least(after(u))
      BY <1>2 DEF Occurrence
    <2>3. after(t) # {} /\ Occurrence(d, t) = Least(after(t))
      BY <1>2, <2>1, <2>2 DEF Occurrence
    <2>4. /\ Least(after(t)) \in after(t)
          /\ Least(after(u)) \in after(u)
          /\ \A y \in after(t) : Least(after(t)) <= y
      BY <2>1, <2>2, <2>3, LeastIsMember
    <2> QED
      BY <2>1, <2>2, <2>3, <2>4 DEF NoTime
  <1> QED
    BY <1>1, <1>2

\* There is always a current revision to copy into a run.
LEMMA CurrentRevisionExists ==
    ASSUME Typed
    PROVE  /\ Len(revisions) \in Nat \ {0}
           /\ CurrentRevision \in Versions \ {0}
           /\ \A n \in Versions \ {0} : revisions[n] \in Definitions
  BY DEF Typed, CurrentRevision, Versions

-----------------------------------------------------------------------------
(* Typed is inductive.                                                     *)

\* A step of the run lifecycle (RunStep) keeps the types, and leaves an active run
\* without a cancellation request active only where there was one.
LEMMA RunStepKeepsTypes ==
    ASSUME LifecycleTypeOK, NEW r \in Runs, RunStep(r)
    PROVE  LifecycleTypeOK' /\ NothingNewActive
  <1> USE DEF LifecycleTypeOK, NothingNewActive, RunStatuses, TerminalStatuses
  <1>1. CASE StartRun(r)
    BY <1>1 DEF StartRun
  <1>2. CASE Requeue(r)
    BY <1>2 DEF Requeue
  <1>3. ASSUME NEW s \in RunStatuses, Finish(r, s)
        PROVE  LifecycleTypeOK' /\ NothingNewActive
    BY <1>3 DEF Finish
  <1>4. ASSUME NEW s \in RunStatuses, Cancel(r, s)
        PROVE  LifecycleTypeOK' /\ NothingNewActive
    BY <1>4 DEF Cancel
  <1>5. ASSUME NEW s \in RunStatuses, RecoverCancelled(r, s)
        PROVE  LifecycleTypeOK' /\ NothingNewActive
    BY <1>5 DEF RecoverCancelled
  <1> QED
    BY <1>1, <1>2, <1>3, <1>4, <1>5 DEF RunStep

\* To finish a run is a step of that run alone.
LEMMA FinishIsRunStep ==
    ASSUME NEW r \in Runs, NEW last \in TerminalStatuses, Finish(r, last) PROVE RunStep(r)
  BY DEF RunStep, RunStatuses

\* Inserting a run keeps the types.
LEMMA RecordKeepsTypes ==
    ASSUME Typed, NEW first, NEW trigger \in {"scheduled", "manual"}, NEW t \in Nat,
           NEW revision \in Versions, Record(first, trigger, t, revision)
    PROVE  NewRun \in Runs /\ LifecycleTypeOK' /\ made' \in [Runs -> Mades]
  <1>1. NewRun \in Runs
    BY DEF Record, NewRun
  <1>2. made' \in [Runs -> Mades]
    BY <1>1 DEF Typed, Record, Mades
  <1>3. LifecycleTypeOK'
    BY <1>1 DEF Typed, Record, Create, LifecycleTypeOK, RunStatuses, TerminalStatuses
  <1> QED
    BY <1>1, <1>2, <1>3

\* While the revisions stay, so do the sets of local states.
LEMMA SameRevisionsSameTypes ==
    ASSUME UNCHANGED revisions
    PROVE  SoundItems' = SoundItems /\ SoundRequests' = SoundRequests /\ Mades' = Mades
  BY DEF SoundItems, SoundRequests, Mades, Versions

\* An idle replica holds no wrong snapshot.
LEMMA IdleIsSound == Typed => IdleItem \in SoundItems /\ NoRequest \in SoundRequests
  BY CurrentRevisionExists
     DEF IdleItem, NoRequest, NoTime, SoundItems, SoundRequests, Versions, AutomationStates

\* A step that makes no run keeps the types of runs and creations.
LEMMA NothingMadeKeepsTypes ==
    ASSUME Typed, NothingMade, UNCHANGED revisions
    PROVE  LifecycleTypeOK' /\ made' \in [Runs -> Mades]
  BY DEF Typed, NothingMade, lifecycleVars, LifecycleTypeOK

\* needs_attention is a state of a well-formed Automation.
LEMMA AttendedIsTyped ==
    ASSUME NEW row \in AutomationRows PROVE Attended(row) \in AutomationRows
  BY DEF AutomationRows, Attended, AutomationStates, NoTime

\* The types hold initially.
LEMMA TypedInit == Init => Typed
  <1> SUFFICES ASSUME Init PROVE Typed
    OBVIOUS
  <1>1. PICK d \in Definitions :
            /\ revisions = <<d>>
            /\ automation = [state |-> "active", nextDue |-> NextOccurrence(d, 1),
                             reason |-> FALSE, since |-> 1]
    BY DEF Init
  <1>2. LifecycleTypeOK
    BY DEF Init, LifecycleInit, LifecycleTypeOK, RunStatuses, TerminalStatuses
  <1>3. revisions \in Seq(Definitions) /\ revisions # <<>> /\ Len(revisions) = 1
    BY <1>1
  <1>4. automation \in AutomationRows
    BY <1>1, OccurrenceIsTime DEF AutomationRows, AutomationStates
  <1>5. made \in [Runs -> Mades]
    BY <1>3 DEF Init, NotMade, NoTime, Mades, Versions
  <1>6. cycle \in [Replicas -> SoundItems] /\ request \in [Sessions -> SoundRequests]
    BY <1>3 DEF Init, IdleItem, NoRequest, NoTime, SoundItems, SoundRequests, Versions,
                AutomationStates
  <1>7. now \in 1..MaxTime
    BY ScheduleAssumption DEF Init
  <1> QED
    BY <1>2, <1>3, <1>4, <1>5, <1>6, <1>7 DEF Typed, Init

\* The steps of a replica's cycle.
LEMMA TypedCycle ==
    ASSUME Typed, NEW p \in Replicas, CycleStep(p) PROVE Typed'
  <1>0. /\ UNCHANGED <<now, revisions, request, scripts>>
        /\ SoundItems' = SoundItems
        /\ SoundRequests' = SoundRequests
        /\ Mades' = Mades
    BY SameRevisionsSameTypes
       DEF CycleStep, DueRead, ClaimScheduled, SkipRefused, MarkRefused
  <1>1. cycle[p] \in SoundItems
    BY DEF Typed
  <1>2. CASE DueRead(p)
    BY <1>0, <1>2, NothingMadeKeepsTypes, CurrentRevisionExists
       DEF DueRead, Typed, SoundItems, AutomationRows
  <1>3. CASE ClaimScheduled(p)
    <2>1. CASE ScheduledRefused(cycle[p])
      BY <1>0, <1>3, <2>1, NothingMadeKeepsTypes, IdleIsSound DEF ClaimScheduled, Typed
    <2>2. CASE ~ScheduledRefused(cycle[p])
      <3>1. /\ cycle[p].revision \in Versions \ {0}
            /\ cycle[p].scheduledFor \in Nat
        BY <1>1, <1>3 DEF ClaimScheduled, SoundItems
      <3>2. /\ Record(FirstStatus, "scheduled", cycle[p].scheduledFor, cycle[p].revision)
            /\ automation' = [automation EXCEPT !.nextDue =
                  NextOccurrence(revisions[cycle[p].revision], cycle[p].scheduledFor)]
            /\ \/ cycle' = [cycle EXCEPT ![p] = IdleItem]
               \/ cycle' = [cycle EXCEPT ![p].phase = "refusing", ![p].run = NewRun]
        BY <1>3, <2>2 DEF ClaimScheduled
      <3>3. NewRun \in Runs /\ LifecycleTypeOK' /\ made' \in [Runs -> Mades]
        BY <3>1, <3>2, RecordKeepsTypes
      <3>4. automation' \in AutomationRows
        BY <3>1, <3>2, CurrentRevisionExists, OccurrenceIsTime DEF Typed, AutomationRows
      <3>5. cycle' \in [Replicas -> SoundItems]
        <4>1. CASE cycle' = [cycle EXCEPT ![p] = IdleItem]
          BY <4>1, IdleIsSound DEF Typed
        <4>2. CASE cycle' = [cycle EXCEPT ![p].phase = "refusing", ![p].run = NewRun]
          <5>1. [cycle[p] EXCEPT !.phase = "refusing", !.run = NewRun] \in SoundItems
            BY <1>1, <3>1, <3>3 DEF SoundItems
          <5>2. cycle' = [cycle EXCEPT ![p] =
                             [cycle[p] EXCEPT !.phase = "refusing", !.run = NewRun]]
            BY <4>2 DEF Typed
          <5> QED
            BY <5>1, <5>2 DEF Typed
        <4> QED
          BY <3>2, <4>1, <4>2
      <3> QED
        BY <1>0, <3>3, <3>4, <3>5 DEF Typed
    <2> QED
      BY <2>1, <2>2
  <1>4. CASE SkipRefused(p)
    <2>1. LifecycleTypeOK' /\ UNCHANGED <<made, automation>>
      <3>1. CASE Finish(cycle[p].run, "skipped")
        BY <1>1, <1>4, <3>1, FinishIsRunStep, RunStepKeepsTypes
           DEF SkipRefused, Typed, SoundItems, TerminalStatuses
      <3>2. CASE UNCHANGED lifecycleVars
        BY <1>4, <3>2 DEF SkipRefused, Typed, lifecycleVars, LifecycleTypeOK
      <3> QED
        BY <1>4, <3>1, <3>2 DEF SkipRefused
    <2>2. cycle' \in [Replicas -> SoundItems]
      BY <1>1, <1>4 DEF SkipRefused, Typed, SoundItems
    <2> QED
      BY <1>0, <2>1, <2>2 DEF Typed
  <1>5. CASE MarkRefused(p)
    BY <1>0, <1>5, NothingMadeKeepsTypes, IdleIsSound, AttendedIsTyped
       DEF MarkRefused, Typed
  <1> QED
    BY <1>2, <1>3, <1>4, <1>5 DEF CycleStep

\* The steps of an owner's request.
LEMMA TypedRequest ==
    ASSUME Typed, NEW s \in Sessions, RequestStep(s) PROVE Typed'
  <1>0. /\ UNCHANGED <<now, revisions, cycle, scripts>>
        /\ SoundItems' = SoundItems
        /\ SoundRequests' = SoundRequests
        /\ Mades' = Mades
    BY SameRevisionsSameTypes
       DEF RequestStep, SetStateRead, SetStateWrite, RunNowRead, ClaimManual, MarkBlocked,
           RecordSkippedManual
  <1>1. request[s] \in SoundRequests
    BY DEF Typed
  <1>2. ASSUME NEW target \in AutomationStates, SetStateRead(s, target) PROVE Typed'
    <2>1. [op |-> "set_state", revision |-> CurrentRevision, nextDue |-> NoTime,
           target |-> target] \in SoundRequests
      BY CurrentRevisionExists DEF SoundRequests, NoTime
    <2> QED
      BY <1>0, <1>2, <2>1, NothingMadeKeepsTypes DEF SetStateRead, Typed
  <1>3. CASE SetStateWrite(s)
    <2>1. /\ request[s].revision \in Versions \ {0}
          /\ request[s].target \in AutomationStates
          /\ now \in Nat
      BY <1>1, <1>3, ScheduleAssumption DEF SetStateWrite, SoundRequests, Typed
    <2>2. NextOccurrence(revisions[request[s].revision], now) \in Nat
      BY <2>1, CurrentRevisionExists, OccurrenceIsTime
    <2>3. automation' \in AutomationRows
      BY <1>3, <2>1, <2>2 DEF SetStateWrite, Typed, AutomationRows, NoTime
    <2> QED
      BY <1>0, <1>3, <2>3, NothingMadeKeepsTypes, IdleIsSound DEF SetStateWrite, Typed
  <1>4. CASE RunNowRead(s)
    <2>1. PICK op \in {"run_now", "blocked"} :
            request' = [request EXCEPT ![s] = [op |-> op, revision |-> CurrentRevision,
                                               nextDue |-> automation.nextDue,
                                               target |-> "active"]]
      BY <1>4 DEF RunNowRead
    <2>2. [op |-> op, revision |-> CurrentRevision, nextDue |-> automation.nextDue,
           target |-> "active"] \in SoundRequests
      BY CurrentRevisionExists DEF SoundRequests, AutomationStates, AutomationRows, Typed
    <2> QED
      BY <1>0, <1>4, <2>1, <2>2, NothingMadeKeepsTypes DEF RunNowRead, Typed
  <1>5. CASE ClaimManual(s)
    <2>1. CASE automation.state \in {"active", "inactive"}
      <3>1. request[s].revision \in Versions /\ request[s].nextDue \in Nat
        BY <1>1 DEF SoundRequests
      <3>2. LifecycleTypeOK' /\ made' \in [Runs -> Mades]
        BY <1>5, <2>1, <3>1, RecordKeepsTypes DEF ClaimManual, NoTime
      <3>3. automation' \in AutomationRows
        BY <1>5, <2>1, <3>1 DEF ClaimManual, Typed, AutomationRows
      <3> QED
        BY <1>0, <1>5, <3>2, <3>3, IdleIsSound DEF ClaimManual, Typed
    <2>2. CASE automation.state \notin {"active", "inactive"}
      BY <1>0, <1>5, <2>2, NothingMadeKeepsTypes, IdleIsSound DEF ClaimManual, Typed
    <2> QED
      BY <2>1, <2>2
  <1>6. CASE MarkBlocked(s)
    <2>1. [request[s] EXCEPT !.op = "record"] \in SoundRequests
      BY <1>1, <1>6 DEF MarkBlocked, SoundRequests
    <2>2. request' = [request EXCEPT ![s] = [request[s] EXCEPT !.op = "record"]]
      BY <1>6 DEF MarkBlocked, Typed
    <2>3. automation' \in AutomationRows
      BY <1>6, AttendedIsTyped DEF MarkBlocked, Typed
    <2> QED
      BY <1>0, <1>6, <2>1, <2>2, <2>3, NothingMadeKeepsTypes DEF MarkBlocked, Typed
  <1>7. CASE RecordSkippedManual(s)
    <2>1. LifecycleTypeOK' /\ made' \in [Runs -> Mades]
      <3>1. request[s].revision \in Versions
        BY <1>1 DEF SoundRequests
      <3>2. CASE Record("skipped", "manual", NoTime, request[s].revision)
        BY <3>1, <3>2, RecordKeepsTypes DEF NoTime
      <3>3. CASE NothingMade
        BY <1>0, <3>3, NothingMadeKeepsTypes
      <3> QED
        BY <1>7, <3>2, <3>3 DEF RecordSkippedManual
    <2> QED
      BY <1>0, <1>7, <2>1, IdleIsSound DEF RecordSkippedManual, Typed
  <1> QED
    BY <1>2, <1>3, <1>4, <1>5, <1>6, <1>7 DEF RequestStep

\* An edit adds a revision; what was read of an earlier one remains valid.
LEMMA TypedUpdate ==
    ASSUME Typed, NEW d \in Definitions, Update(d) PROVE Typed'
  <1>1. /\ revisions' \in Seq(Definitions)
        /\ revisions' # <<>>
        /\ Len(revisions') = Len(revisions) + 1
    BY DEF Update, Typed
  <1>2. Versions \subseteq Versions'
    BY <1>1, CurrentRevisionExists DEF Versions
  <1>3. /\ SoundItems \subseteq SoundItems'
        /\ SoundRequests \subseteq SoundRequests'
        /\ Mades \subseteq Mades'
    BY <1>2 DEF SoundItems, SoundRequests, Mades
  <1>4. automation' \in AutomationRows
    <2>1. now \in Nat
      BY ScheduleAssumption DEF Typed
    <2>2. NextOccurrence(d, now) \in Nat
      BY <2>1, OccurrenceIsTime
    <2> QED
      BY <2>1, <2>2 DEF Update, Typed, AutomationRows, AutomationStates
  <1>5. LifecycleTypeOK' /\ UNCHANGED <<now, made, cycle, request, scripts>>
    BY DEF Update, NothingMade, lifecycleVars, Typed, LifecycleTypeOK
  <1> QED
    BY <1>1, <1>3, <1>4, <1>5 DEF Typed

\* What happens to runs, and to the Automation when a saved script returns.
LEMMA TypedRuns ==
    ASSUME Typed, NEW r \in Runs, Execute(r) \/ RunStepOf(r) PROVE Typed'
  <1>1. /\ UNCHANGED <<now, automation, revisions, made, cycle, request>>
        /\ SoundItems' = SoundItems
        /\ SoundRequests' = SoundRequests
        /\ Mades' = Mades
    BY SameRevisionsSameTypes DEF Execute, RunStepOf
  <1>2. RunStep(r)
    BY DEF Execute, RunStepOf, RunStep
  <1>3. LifecycleTypeOK'
    BY <1>2, RunStepKeepsTypes DEF Typed
  <1>4. scripts' \subseteq [run : Runs, attempt : Nat, result : ScriptResults]
    <2>1. [run |-> r, attempt |-> attempt'[r], result |-> "none"]
            \in [run : Runs, attempt : Nat, result : ScriptResults]
      BY <1>3 DEF LifecycleTypeOK, ScriptResults
    <2>2. CASE Execute(r)
      BY <2>1, <2>2 DEF Execute, Typed
    <2>3. CASE RunStepOf(r)
      BY <2>3 DEF RunStepOf, Typed
    <2> QED
      BY <2>2, <2>3
  <1> QED
    BY <1>1, <1>3, <1>4 DEF Typed

\* What a saved script writes keeps the types.
LEMMA TypedScripts ==
    ASSUME Typed, NEW x \in scripts, CompleteScript(x) \/ ApplyResult(x) PROVE Typed'
  <1>0. /\ UNCHANGED <<now, revisions, made, cycle, request>>
        /\ SoundItems' = SoundItems
        /\ SoundRequests' = SoundRequests
        /\ Mades' = Mades
    BY SameRevisionsSameTypes DEF CompleteScript, ApplyResult, NothingMade
  <1>1. x \in [run : Runs, attempt : Nat, result : ScriptResults]
    BY DEF Typed
  <1>2. CASE CompleteScript(x)
    <2>1. PICK result \in {"succeeded", "failed"} :
            /\ Finish(x.run, result) \/ UNCHANGED lifecycleVars
            /\ Returned(x, result) \/ scripts' = scripts \ {x}
      BY <1>2 DEF CompleteScript
    <2>2. LifecycleTypeOK'
      <3>1. CASE Finish(x.run, result)
        BY <1>1, <3>1, FinishIsRunStep, RunStepKeepsTypes DEF Typed, TerminalStatuses
      <3>2. CASE UNCHANGED lifecycleVars
        BY <3>2 DEF Typed, lifecycleVars, LifecycleTypeOK
      <3> QED
        BY <2>1, <3>1, <3>2
    <2>3. scripts' \subseteq [run : Runs, attempt : Nat, result : ScriptResults]
      BY <1>1, <2>1 DEF Returned, Typed, ScriptResults
    <2> QED
      BY <1>0, <1>2, <2>2, <2>3 DEF CompleteScript, Typed
  <1>3. CASE ApplyResult(x)
    <2>1. automation' \in AutomationRows
      BY <1>3 DEF ApplyResult, Typed, AutomationRows, AutomationStates
    <2> QED
      BY <1>0, <1>3, <2>1, NothingMadeKeepsTypes DEF ApplyResult, Typed
  <1> QED
    BY <1>2, <1>3

\* Every step keeps the types.
LEMMA TypedNext == Typed /\ [Next]_scheduleVars => Typed'
  <1> SUFFICES ASSUME Typed, [Next]_scheduleVars PROVE Typed'
    OBVIOUS
  <1>1. CASE Tick
    <2>1. UNCHANGED <<revisions, status, attempt, cancel, automation, made, cycle, request,
                      scripts>> /\ now' \in 1..MaxTime
      BY <1>1, ScheduleAssumption DEF Tick, Typed
    <2> QED
      BY <2>1, SameRevisionsSameTypes DEF Typed, LifecycleTypeOK
  <1>2. CASE MarkNeedsAttention
    BY <1>2, AttendedIsTyped, NothingMadeKeepsTypes, SameRevisionsSameTypes
       DEF MarkNeedsAttention, Typed
  <1>3. CASE UNCHANGED scheduleVars
    BY <1>3, SameRevisionsSameTypes DEF scheduleVars, Typed, LifecycleTypeOK
  <1> QED
    BY <1>1, <1>2, <1>3, TypedCycle, TypedRequest, TypedUpdate, TypedRuns, TypedScripts
       DEF Next

-----------------------------------------------------------------------------
(* The creation of runs.                                                   *)

\* Nothing about runs changes: what most steps of a cycle or a request do.
LEMMA CreationUntouched ==
    ASSUME Creation, NothingMade PROVE Creation'
  BY DEF Creation, OneRunPerOccurrence, AtMostOneActiveRun, ActiveRuns, NothingMade,
         lifecycleVars

\* A step of the run lifecycle creates nothing and makes no second run active.
LEMMA CreationAfterRunStep ==
    ASSUME Typed, Creation, NEW r \in Runs, RunStep(r), UNCHANGED made PROVE Creation'
  <1>1. OneRunPerOccurrence'
    BY DEF Creation, OneRunPerOccurrence
  <1>2. AtMostOneActiveRun'
    BY RunStepKeepsTypes
       DEF Typed, Creation, NothingNewActive, AtMostOneActiveRun, ActiveRuns
  <1> QED
    BY <1>1, <1>2 DEF Creation

\* claim and recordSkippedManual insert a run: not for a recorded occurrence, and
\* queued only when no run is active.
LEMMA CreationAfterRecord ==
    ASSUME Typed, Creation,
           NEW first, NEW trigger, NEW t, NEW revision,
           Record(first, trigger, t, revision),
           first = "queued" => ActiveRuns = {},
           t # NoTime => ~Duplicate(t)
    PROVE  Creation'
  <1>1. /\ NewRun \in Runs
        /\ status' = [status EXCEPT ![NewRun] = first]
        /\ first \in {"queued", "skipped"}
        /\ UNCHANGED <<attempt, cancel>>
    BY DEF Record, Create, NewRun
  <1>2. OneRunPerOccurrence'
    <2>1. \A r \in Runs : made'[r].scheduledFor =
                IF r = NewRun THEN t ELSE made[r].scheduledFor
      BY <1>1 DEF Typed, Record
    <2> QED
      BY <1>1, <2>1 DEF Creation, OneRunPerOccurrence, Duplicate
  <1>3. AtMostOneActiveRun'
    <2>1. \A r \in Runs : status'[r] = IF r = NewRun THEN first ELSE status[r]
      BY <1>1 DEF Typed, LifecycleTypeOK
    <2> QED
      BY <1>1, <2>1 DEF Creation, AtMostOneActiveRun, ActiveRuns
  <1> QED
    BY <1>2, <1>3 DEF Creation

\* Every step keeps what is known of how runs were made.
LEMMA CreationNext == Typed /\ Creation /\ [Next]_scheduleVars => Creation'
  <1> SUFFICES ASSUME Typed, Creation, [Next]_scheduleVars PROVE Creation'
    OBVIOUS
  <1>1. CASE NothingMade
    BY <1>1, CreationUntouched
  <1>2. ASSUME NEW r \in Runs, RunStep(r), UNCHANGED made PROVE Creation'
    BY <1>2, CreationAfterRunStep
  <1>3. ASSUME NEW p \in Replicas, CycleStep(p) PROVE Creation'
    <2>1. CASE ClaimScheduled(p)
      BY <1>1, <2>1, CreationAfterRecord DEF ClaimScheduled, ScheduledRefused, FirstStatus
    <2>2. CASE SkipRefused(p)
      <3>1. cycle[p].run \in Runs
        BY <2>2 DEF SkipRefused, Typed, SoundItems
      <3> QED
        BY <1>1, <1>2, <2>2, <3>1, FinishIsRunStep
           DEF SkipRefused, TerminalStatuses, NothingMade
    <2> QED
      BY <1>1, <1>3, <2>1, <2>2 DEF CycleStep, DueRead, MarkRefused
  <1>4. ASSUME NEW s \in Sessions, RequestStep(s) PROVE Creation'
    <2>1. CASE ClaimManual(s)
      BY <1>1, <2>1, CreationAfterRecord DEF ClaimManual, FirstStatus
    <2>2. CASE RecordSkippedManual(s)
      BY <1>1, <2>2, CreationAfterRecord DEF RecordSkippedManual
    <2> QED
      BY <1>1, <1>4, <2>1, <2>2
         DEF RequestStep, SetStateRead, SetStateWrite, RunNowRead, MarkBlocked
  <1>5. ASSUME NEW r \in Runs, Execute(r) \/ RunStepOf(r) PROVE Creation'
    BY <1>2, <1>5 DEF Execute, RunStepOf, RunStep
  <1>6. ASSUME NEW x \in scripts, CompleteScript(x) \/ ApplyResult(x) PROVE Creation'
    <2>1. x.run \in Runs
      BY DEF Typed
    <2> QED
      BY <1>1, <1>2, <1>6, <2>1, FinishIsRunStep
         DEF CompleteScript, ApplyResult, NothingMade, TerminalStatuses
  <1> QED
    BY <1>1, <1>3, <1>4, <1>5, <1>6
       DEF Next, Tick, MarkNeedsAttention, Update, NothingMade, lifecycleVars, scheduleVars

-----------------------------------------------------------------------------
(* No occurrence is passed over.  What holds of next_due_at holds of every *)
(* copy of it: the occurrence a cycle is claiming and the one a "run now"  *)
(* will write back.  A later activation asks for less, a new run gives     *)
(* more, so a copy does not go stale.                                      *)

\* Between `since` and `due` every occurrence of the definition has a run.
Covered(d, since, due, rows) ==
    \A t \in since..due :
        Occurrence(d, t) \in (t + 1)..(due - 1) =>
            \E r \in Runs : rows[r].scheduledFor \in (t + 1)..Occurrence(d, t)

CoveredTo(due) == Covered(revisions[1], automation.since, due, made)

Series ==
    /\ automation.since <= now
    /\ Len(revisions) = 1 =>
        /\ CoveredTo(automation.nextDue)
        /\ \A p \in Replicas : cycle[p].phase = "claiming" => CoveredTo(cycle[p].scheduledFor)
        /\ \A s \in Sessions : request[s].op = "run_now" => CoveredTo(request[s].nextDue)

\* A run that is not made yet stands for no occurrence.
AbsentIsNotMade == \A r \in Runs : status[r] = "absent" => made[r].scheduledFor = NoTime

\* The runs of `rows` are among those of `more`.
Grows(rows, more) ==
    \A r \in Runs : rows[r].scheduledFor # NoTime
                        => more[r].scheduledFor = rows[r].scheduledFor

\* Occurrences accounted for stay so as time passes and runs are added.
LEMMA StillCovered ==
    ASSUME NEW d, NEW since \in Nat, NEW later \in Nat, since <= later, NEW due \in Nat,
           NEW rows \in [Runs -> Mades], NEW more, Grows(rows, more),
           Covered(d, since, due, rows)
    PROVE  Covered(d, later, due, more)
  <1> SUFFICES ASSUME NEW t \in later..due, Occurrence(d, t) \in (t + 1)..(due - 1)
               PROVE  \E r \in Runs : more[r].scheduledFor \in (t + 1)..Occurrence(d, t)
    BY DEF Covered
  <1>1. PICK r \in Runs : rows[r].scheduledFor \in (t + 1)..Occurrence(d, t)
    BY DEF Covered
  <1>2. rows[r].scheduledFor # NoTime
    BY <1>1 DEF NoTime
  <1> QED
    BY <1>1, <1>2 DEF Grows

\* A schedule that starts at `since` is covered up to its first occurrence.
LEMMA CoveredFromStart ==
    ASSUME NEW d \in Definitions, NEW since \in Nat, NEW rows
    PROVE  Covered(d, since, Occurrence(d, since), rows)
  <1> SUFFICES ASSUME NEW t \in since..Occurrence(d, since),
                      Occurrence(d, t) \in (t + 1)..(Occurrence(d, since) - 1)
               PROVE  FALSE
    BY DEF Covered
  <1>1. t \in Nat /\ since <= t /\ Occurrence(d, since) \in Nat /\ Occurrence(d, t) # NoTime
    BY OccurrenceIsTime DEF NextOccurrence, NoTime
  <1>2. Occurrence(d, since) <= Occurrence(d, t)
    BY <1>1, OccurrenceOrder
  <1> QED
    BY <1>1, <1>2

\* Claiming the occurrence `due` covers the schedule up to the one after it.
LEMMA CoveredByClaim ==
    ASSUME NEW d \in Definitions, NEW since \in Nat, NEW due \in Nat,
           NEW rows \in [Runs -> Mades], NEW more, Grows(rows, more),
           Covered(d, since, due, rows), NEW n \in Runs, more[n].scheduledFor = due
    PROVE  Covered(d, since, Occurrence(d, due), more)
  <1> SUFFICES ASSUME NEW t \in since..Occurrence(d, due),
                      Occurrence(d, t) \in (t + 1)..(Occurrence(d, due) - 1)
               PROVE  \E r \in Runs : more[r].scheduledFor \in (t + 1)..Occurrence(d, t)
    BY DEF Covered
  <1>1. t \in Nat /\ Occurrence(d, t) \in Nat /\ Occurrence(d, due) \in Nat
    BY OccurrenceIsTime DEF NextOccurrence
  <1>2. Occurrence(d, t) # NoTime /\ Occurrence(d, t) > t
    BY <1>1 DEF NoTime
  <1>3. CASE Occurrence(d, t) < due
    <2>1. t \in since..due /\ Occurrence(d, t) \in (t + 1)..(due - 1)
      BY <1>1, <1>2, <1>3
    <2>2. Covered(d, since, due, more)
      BY StillCovered
    <2> QED
      BY <2>1, <2>2 DEF Covered
  <1>4. CASE Occurrence(d, t) >= due
    <2>1. t < due
      <3>1. ASSUME due <= t PROVE FALSE
        <4>1. Occurrence(d, due) <= Occurrence(d, t)
          BY <1>1, <1>2, <3>1, OccurrenceOrder
        <4> QED
          BY <1>1, <4>1
      <3> QED
        BY <1>1, <3>1
    <2> QED
      BY <1>1, <1>4, <2>1
  <1> QED
    BY <1>1, <1>3, <1>4

\* Recording a run loses none, and stands for the occurrence it was recorded for.
LEMMA RecordGrows ==
    ASSUME Typed, AbsentIsNotMade, NEW first, NEW trigger, NEW t, NEW revision,
           Record(first, trigger, t, revision)
    PROVE  /\ Grows(made, made')
           /\ NewRun \in Runs
           /\ made'[NewRun].scheduledFor = t
           /\ AbsentIsNotMade'
  <1>1. /\ NewRun \in Runs
        /\ status[NewRun] = "absent"
        /\ first # "absent"
    BY DEF Record, Create, NewRun
  <1>2. /\ \A r \in Runs : made'[r].scheduledFor =
                IF r = NewRun THEN t ELSE made[r].scheduledFor
        /\ \A r \in Runs : status'[r] = IF r = NewRun THEN first ELSE status[r]
    BY <1>1 DEF Typed, Record, Create, LifecycleTypeOK
  <1> QED
    BY <1>1, <1>2 DEF Grows, AbsentIsNotMade

\* What covered the schedule before a step still does after it, unless an edit
\* replaces the definition.
LEMMA CopiesStay ==
    ASSUME Typed, UNCHANGED revisions, Len(revisions) = 1, Grows(made, made'),
           automation'.since \in Nat, automation.since <= automation'.since,
           NEW due \in Nat, CoveredTo(due)
    PROVE  Covered(revisions'[1], automation'.since, due, made')
  <1>1. made \in [Runs -> Mades] /\ automation.since \in Nat
    BY DEF Typed, AutomationRows
  <1> QED
    BY <1>1, StillCovered DEF CoveredTo

\* The times a cycle or a request holds.
LEMMA ItemTimes ==
    ASSUME Typed
    PROVE  /\ now \in Nat /\ automation.since \in Nat /\ automation.nextDue \in Nat
           /\ \A p \in Replicas : cycle[p].scheduledFor \in Nat
           /\ \A s \in Sessions : request[s].nextDue \in Nat
           /\ Len(revisions) = 1 =>
                /\ revisions[1] \in Definitions
                /\ CurrentRevision = 1
                /\ \A p \in Replicas : cycle[p].phase # "idle" => cycle[p].revision = 1
                /\ \A s \in Sessions : request[s].op # "none" => request[s].revision = 1
  <1>1. now \in Nat
    BY ScheduleAssumption DEF Typed
  <1>2. automation.since \in Nat /\ automation.nextDue \in Nat
    BY DEF Typed, AutomationRows
  <1>3. /\ \A p \in Replicas : cycle[p].scheduledFor \in Nat
        /\ \A s \in Sessions : request[s].nextDue \in Nat
    BY DEF Typed, SoundItems, SoundRequests
  <1>4. ASSUME Len(revisions) = 1
        PROVE  /\ revisions[1] \in Definitions
               /\ CurrentRevision = 1
               /\ \A p \in Replicas : cycle[p].phase # "idle" => cycle[p].revision = 1
               /\ \A s \in Sessions : request[s].op # "none" => request[s].revision = 1
    <2>1. Versions = 0..1
      BY <1>4 DEF Versions
    <2> QED
      BY <1>4, <2>1, CurrentRevisionExists
         DEF Typed, SoundItems, SoundRequests, CurrentRevision
  <1> QED
    BY <1>1, <1>2, <1>3, <1>4

\* A step that copies next_due_at, or an older copy of it, and no other time.
LEMMA SeriesCopied ==
    ASSUME Typed, Series, UNCHANGED <<now, revisions>>, Grows(made, made'),
           automation'.since = automation.since,
           \/ automation'.nextDue \in {automation.nextDue, NoTime}
           \/ \E s \in Sessions : /\ request[s].op = "run_now"
                                  /\ automation'.nextDue = request[s].nextDue,
           \A p \in Replicas : cycle'[p].phase = "claiming" =>
                \/ cycle'[p].scheduledFor = automation.nextDue
                \/ cycle[p].phase = "claiming" /\ cycle'[p] = cycle[p],
           \A s \in Sessions : request'[s].op = "run_now" =>
                \/ request'[s].nextDue = automation.nextDue
                \/ request[s].op = "run_now" /\ request'[s] = request[s]
    PROVE  Series'
  <1>1. ASSUME Len(revisions) = 1
        PROVE  \A due \in Nat : CoveredTo(due) =>
                    Covered(revisions'[1], automation'.since, due, made')
    BY <1>1, ItemTimes, CopiesStay
  <1>2. ASSUME Len(revisions) = 1
        PROVE  Covered(revisions'[1], automation'.since, automation'.nextDue, made')
    <2>1. CASE automation'.nextDue = NoTime
      BY <1>1, <1>2, <2>1, ItemTimes DEF Covered, NoTime
    <2>2. CASE automation'.nextDue # NoTime
      BY <1>1, <1>2, <2>2, ItemTimes DEF Series
    <2> QED
      BY <2>1, <2>2
  <1>3. ASSUME Len(revisions) = 1, NEW p \in Replicas, cycle'[p].phase = "claiming"
        PROVE  Covered(revisions'[1], automation'.since, cycle'[p].scheduledFor, made')
    BY <1>1, <1>3, ItemTimes DEF Series
  <1>4. ASSUME Len(revisions) = 1, NEW s \in Sessions, request'[s].op = "run_now"
        PROVE  Covered(revisions'[1], automation'.since, request'[s].nextDue, made')
    BY <1>1, <1>4, ItemTimes DEF Series
  <1> QED
    BY <1>2, <1>3, <1>4 DEF Series, CoveredTo

\* A step that makes no run loses none.
LEMMA NothingMadeGrows ==
    ASSUME AbsentIsNotMade, UNCHANGED made,
           \A r \in Runs : status'[r] = "absent" => status[r] = "absent"
    PROVE  Grows(made, made') /\ AbsentIsNotMade'
  BY DEF Grows, AbsentIsNotMade

\* Runs do not become absent again.
LEMMA RunStepNotAbsent ==
    ASSUME LifecycleTypeOK, NEW r \in Runs, RunStep(r)
    PROVE  \A q \in Runs : status'[q] = "absent" => status[q] = "absent"
  BY DEF LifecycleTypeOK, RunStep, StartRun, Requeue, Finish, Cancel, RecoverCancelled,
         TerminalStatuses

\* The steps of a cycle.  A claim is the only one that moves next_due_at to a time
\* that was not read before.
LEMMA SeriesCycle ==
    ASSUME Typed, Typed', Series, AbsentIsNotMade, NEW p \in Replicas, CycleStep(p)
    PROVE  Series' /\ AbsentIsNotMade'
  <1>0. UNCHANGED <<now, revisions, request, scripts>>
    BY DEF CycleStep, DueRead, ClaimScheduled, SkipRefused, MarkRefused
  <1>1. cycle \in [Replicas -> SoundItems] /\ automation \in AutomationRows
    BY DEF Typed
  <1>2. CASE NothingMade
    <2>1. Grows(made, made') /\ AbsentIsNotMade'
      BY <1>2, NothingMadeGrows DEF NothingMade, lifecycleVars
    <2>2. /\ automation'.since = automation.since
          /\ automation'.nextDue \in {automation.nextDue, NoTime}
          /\ \A q \in Replicas : cycle'[q].phase = "claiming" =>
                \/ cycle'[q].scheduledFor = automation.nextDue
                \/ cycle[q].phase = "claiming" /\ cycle'[q] = cycle[q]
      <3>1. CASE DueRead(p)
        BY <1>1, <3>1 DEF DueRead
      <3>2. CASE ClaimScheduled(p) /\ ScheduledRefused(cycle[p])
        BY <1>1, <3>2 DEF ClaimScheduled, IdleItem
      <3>3. CASE ClaimScheduled(p) /\ ~ScheduledRefused(cycle[p])
        <4>1. NewRun \in Runs /\ status[NewRun] = "absent" /\ status'[NewRun] # "absent"
          BY <3>3 DEF ClaimScheduled, Record, Create, NewRun, Typed, LifecycleTypeOK
        <4> QED
          BY <1>2, <4>1 DEF NothingMade, lifecycleVars
      <3>4. CASE SkipRefused(p)
        BY <1>1, <3>4 DEF SkipRefused
      <3>5. CASE MarkRefused(p)
        BY <1>1, <3>5 DEF MarkRefused, Attended, AutomationRows, IdleItem
      <3> QED
        BY <3>1, <3>2, <3>3, <3>4, <3>5 DEF CycleStep
    <2>3. \A s \in Sessions : request'[s].op = "run_now" =>
                \/ request'[s].nextDue = automation.nextDue
                \/ request[s].op = "run_now" /\ request'[s] = request[s]
      BY <1>0
    <2> QED
      BY <1>0, <2>1, <2>2, <2>3, SeriesCopied
  <1>3. CASE SkipRefused(p)
    <2>1. cycle[p].run \in Runs
      BY <1>3 DEF SkipRefused, Typed, SoundItems
    <2>2. \A r \in Runs : status'[r] = "absent" => status[r] = "absent"
      BY <1>3, <2>1, FinishIsRunStep, RunStepNotAbsent
         DEF SkipRefused, Typed, TerminalStatuses, lifecycleVars
    <2>3. Grows(made, made') /\ AbsentIsNotMade'
      BY <1>3, <2>2, NothingMadeGrows DEF SkipRefused
    <2>4. \A q \in Replicas : cycle'[q].phase = "claiming" =>
                cycle[q].phase = "claiming" /\ cycle'[q] = cycle[q]
      BY <1>1, <1>3 DEF SkipRefused
    <2> QED
      BY <1>0, <1>3, <2>3, <2>4, SeriesCopied DEF SkipRefused
  <1>4. CASE ClaimScheduled(p) /\ ~ScheduledRefused(cycle[p])
    <2> DEFINE due == cycle[p].scheduledFor
               next == NextOccurrence(revisions[cycle[p].revision], due)
    <2>1. /\ cycle[p].phase = "claiming"
          /\ Record(FirstStatus, "scheduled", due, cycle[p].revision)
          /\ automation' = [automation EXCEPT !.nextDue = next]
          /\ \A q \in Replicas : cycle'[q].phase = "claiming" => cycle'[q] = cycle[q]
      <3>1. /\ cycle[p].phase = "claiming"
            /\ Record(FirstStatus, "scheduled", due, cycle[p].revision)
            /\ automation' = [automation EXCEPT !.nextDue = next]
            /\ \/ cycle' = [cycle EXCEPT ![p] = IdleItem]
               \/ cycle' = [cycle EXCEPT ![p].phase = "refusing", ![p].run = NewRun]
        BY <1>4 DEF ClaimScheduled
      <3>2. CASE cycle' = [cycle EXCEPT ![p] = IdleItem]
        <4>1. IdleItem.phase # "claiming"
          BY DEF IdleItem
        <4> QED
          BY <1>1, <3>1, <3>2, <4>1
      <3>3. CASE cycle' = [cycle EXCEPT ![p].phase = "refusing", ![p].run = NewRun]
        <4>1. cycle'[p].phase = "refusing"
          BY <1>1, <3>3 DEF SoundItems
        <4>2. \A q \in Replicas : q # p => cycle'[q] = cycle[q]
          BY <1>1, <3>3
        <4> QED
          BY <3>1, <4>1, <4>2
      <3> QED
        BY <3>1, <3>2, <3>3
    <2>2. /\ Grows(made, made')
          /\ NewRun \in Runs
          /\ made'[NewRun].scheduledFor = due
          /\ AbsentIsNotMade'
      BY <2>1, RecordGrows
    <2>3. automation'.since = automation.since /\ automation'.nextDue = next
      BY <1>1, <2>1 DEF AutomationRows
    <2>4. ASSUME Len(revisions) = 1
          PROVE  /\ \A d \in Nat : CoveredTo(d) =>
                        Covered(revisions'[1], automation'.since, d, made')
                 /\ Covered(revisions'[1], automation'.since, next, made')
      <3>1. /\ revisions[1] \in Definitions
            /\ automation.since \in Nat
            /\ due \in Nat
            /\ made \in [Runs -> Mades]
            /\ next = Occurrence(revisions[1], due)
        BY <2>1, <2>4, ItemTimes DEF NextOccurrence, Typed
      <3>2. Covered(revisions[1], automation.since, due, made)
        BY <2>1, <2>4 DEF Series, CoveredTo
      <3> HIDE DEF due, next
      <3>3. Covered(revisions[1], automation.since, Occurrence(revisions[1], due), made')
        BY <2>2, <3>1, <3>2, CoveredByClaim
      <3> QED
        BY <1>0, <2>2, <2>3, <2>4, <3>1, <3>3, CopiesStay
    <2>5. automation.since <= now
      BY DEF Series
    <2>6. ASSUME Len(revisions) = 1, NEW q \in Replicas, cycle'[q].phase = "claiming"
          PROVE  Covered(revisions'[1], automation'.since, cycle'[q].scheduledFor, made')
      BY <2>1, <2>4, <2>6, ItemTimes DEF Series
    <2>7. ASSUME Len(revisions) = 1, NEW s \in Sessions, request'[s].op = "run_now"
          PROVE  Covered(revisions'[1], automation'.since, request'[s].nextDue, made')
      BY <1>0, <2>4, <2>7, ItemTimes DEF Series
    <2> HIDE DEF due, next
    <2>8. Series'
      BY <1>0, <2>3, <2>4, <2>5, <2>6, <2>7 DEF Series, CoveredTo
    <2> QED
      BY <2>2, <2>8
  <1> QED
    BY <1>2, <1>3, <1>4 DEF CycleStep, DueRead, ClaimScheduled, MarkRefused

\* The steps of an owner's request.  Activation starts the series again; "run now"
\* writes back a time that was read.
LEMMA SeriesRequest ==
    ASSUME Typed, Typed', Series, AbsentIsNotMade, NEW s \in Sessions, RequestStep(s)
    PROVE  Series' /\ AbsentIsNotMade'
  <1>0. UNCHANGED <<now, revisions, cycle, scripts>>
    BY DEF RequestStep, SetStateRead, SetStateWrite, RunNowRead, ClaimManual, MarkBlocked,
           RecordSkippedManual
  <1>1. request \in [Sessions -> SoundRequests] /\ automation \in AutomationRows
    BY DEF Typed
  <1>2. Grows(made, made') /\ AbsentIsNotMade'
    <2>1. CASE NothingMade
      BY <2>1, NothingMadeGrows DEF NothingMade, lifecycleVars
    <2>2. ASSUME NEW first, NEW trigger, NEW t, NEW revision,
                 Record(first, trigger, t, revision)
          PROVE  Grows(made, made') /\ AbsentIsNotMade'
      BY <2>2, RecordGrows
    <2> QED
      BY <2>1, <2>2 DEF RequestStep, SetStateRead, SetStateWrite, RunNowRead, ClaimManual,
         MarkBlocked, RecordSkippedManual
  <1>3. ASSUME automation'.since = automation.since,
               \/ automation'.nextDue \in {automation.nextDue, NoTime}
               \/ request[s].op = "run_now" /\ automation'.nextDue = request[s].nextDue,
               \A q \in Sessions : request'[q].op = "run_now" =>
                    \/ request'[q].nextDue = automation.nextDue
                    \/ request[q].op = "run_now" /\ request'[q] = request[q]
        PROVE  Series' /\ AbsentIsNotMade'
    BY <1>0, <1>2, <1>3, SeriesCopied
  <1>4. ASSUME NEW target \in AutomationStates, SetStateRead(s, target)
        PROVE  Series' /\ AbsentIsNotMade'
    BY <1>1, <1>3, <1>4 DEF SetStateRead
  <1>5. CASE RunNowRead(s)
    BY <1>1, <1>3, <1>5 DEF RunNowRead
  <1>6. CASE ClaimManual(s)
    BY <1>1, <1>3, <1>6 DEF ClaimManual, NoRequest, AutomationRows
  <1>7. CASE MarkBlocked(s)
    BY <1>1, <1>3, <1>7 DEF MarkBlocked, Attended, AutomationRows
  <1>8. CASE RecordSkippedManual(s)
    BY <1>1, <1>3, <1>8 DEF RecordSkippedManual, NoRequest
  <1>9. CASE SetStateWrite(s) /\ request[s].target # "active"
    BY <1>1, <1>3, <1>9 DEF SetStateWrite, NoRequest, AutomationRows
  <1>10. CASE SetStateWrite(s) /\ request[s].target = "active"
    <2>1. /\ automation'.since = now
          /\ automation'.nextDue = NextOccurrence(revisions[request[s].revision], now)
          /\ request[s].op = "set_state"
          /\ \A q \in Sessions : request'[q].op = "run_now" => request'[q] = request[q]
      BY <1>1, <1>10 DEF SetStateWrite, AutomationRows, NoRequest
    <2>2. automation.since <= now /\ now \in Nat
      BY ItemTimes DEF Series
    <2>3. ASSUME Len(revisions) = 1
          PROVE  /\ \A d \in Nat : CoveredTo(d) =>
                        Covered(revisions'[1], automation'.since, d, made')
                 /\ Covered(revisions'[1], automation'.since, automation'.nextDue, made')
      <3>1. revisions[1] \in Definitions /\ request[s].revision = 1
        BY <2>1, <2>3, ItemTimes
      <3>2. Covered(revisions[1], now, Occurrence(revisions[1], now), made')
        BY <2>2, <3>1, CoveredFromStart
      <3> QED
        BY <1>0, <1>2, <2>1, <2>2, <2>3, <3>1, <3>2, CopiesStay DEF NextOccurrence
    <2>4. ASSUME Len(revisions) = 1, NEW q \in Replicas, cycle'[q].phase = "claiming"
          PROVE  Covered(revisions'[1], automation'.since, cycle'[q].scheduledFor, made')
      BY <1>0, <2>3, <2>4, ItemTimes DEF Series
    <2>5. ASSUME Len(revisions) = 1, NEW q \in Sessions, request'[q].op = "run_now"
          PROVE  Covered(revisions'[1], automation'.since, request'[q].nextDue, made')
      BY <2>1, <2>3, <2>5, ItemTimes DEF Series
    <2>6. Series'
      BY <1>0, <2>1, <2>2, <2>3, <2>4, <2>5 DEF Series, CoveredTo
    <2> QED
      BY <1>2, <2>6
  <1> QED
    BY <1>4, <1>5, <1>6, <1>7, <1>8, <1>9, <1>10 DEF RequestStep

\* Every step keeps the occurrences accounted for.
LEMMA SeriesNext ==
    Typed /\ Series /\ AbsentIsNotMade /\ [Next]_scheduleVars => Series' /\ AbsentIsNotMade'
  <1> SUFFICES ASSUME Typed, Series, AbsentIsNotMade, [Next]_scheduleVars
               PROVE  Series' /\ AbsentIsNotMade'
    OBVIOUS
  <1>1. Typed'
    BY TypedNext
  <1>2. automation \in AutomationRows
    BY DEF Typed
  <1>3. ASSUME UNCHANGED <<now, revisions, made, cycle, request>>,
               automation'.since = automation.since,
               automation'.nextDue \in {automation.nextDue, NoTime},
               \A r \in Runs : status'[r] = "absent" => status[r] = "absent"
        PROVE  Series' /\ AbsentIsNotMade'
    <2>1. Grows(made, made') /\ AbsentIsNotMade'
      BY <1>3, NothingMadeGrows
    <2> QED
      BY <1>3, <2>1, SeriesCopied
  <1>4. CASE Tick
    <2>1. now' = now + 1 /\ automation' = automation /\ now \in Nat /\ automation.since \in Nat
      BY <1>4, ItemTimes DEF Tick
    <2>2. UNCHANGED <<status, revisions, made, cycle, request>>
      BY <1>4 DEF Tick
    <2> QED
      BY <2>1, <2>2 DEF Series, CoveredTo, AbsentIsNotMade
  <1>5. CASE MarkNeedsAttention
    BY <1>2, <1>3, <1>5 DEF MarkNeedsAttention, Attended, NothingMade, lifecycleVars,
       AutomationRows
  <1>6. ASSUME NEW d \in Definitions, Update(d) PROVE Series' /\ AbsentIsNotMade'
    <2>1. Len(revisions') # 1
      BY <1>6, CurrentRevisionExists DEF Update, Typed
    <2>2. automation'.since = now /\ now' = now /\ now \in Nat
      BY <1>2, <1>6, ItemTimes DEF Update, AutomationRows
    <2> QED
      BY <1>6, <2>1, <2>2 DEF Update, NothingMade, lifecycleVars, Series, AbsentIsNotMade
  <1>7. ASSUME NEW r \in Runs, Execute(r) \/ RunStepOf(r) PROVE Series' /\ AbsentIsNotMade'
    <2>1. RunStep(r)
      BY <1>7 DEF Execute, RunStepOf, RunStep
    <2> QED
      BY <1>3, <1>7, <2>1, RunStepNotAbsent DEF Execute, RunStepOf, Typed
  <1>8. ASSUME NEW x \in scripts, CompleteScript(x) \/ ApplyResult(x)
        PROVE  Series' /\ AbsentIsNotMade'
    <2>1. x.run \in Runs
      BY DEF Typed
    <2>2. \A r \in Runs : status'[r] = "absent" => status[r] = "absent"
      BY <1>8, <2>1, FinishIsRunStep, RunStepNotAbsent
         DEF CompleteScript, ApplyResult, NothingMade, lifecycleVars, Typed, TerminalStatuses
    <2>3. automation'.since = automation.since /\ automation'.nextDue = automation.nextDue
      BY <1>2, <1>8 DEF CompleteScript, ApplyResult, AutomationRows
    <2> QED
      BY <1>3, <1>8, <2>2, <2>3 DEF CompleteScript, ApplyResult, NothingMade
  <1>9. CASE UNCHANGED scheduleVars
    BY <1>3, <1>9 DEF scheduleVars
  <1> QED
    BY <1>1, <1>4, <1>5, <1>6, <1>7, <1>8, <1>9, SeriesCycle, SeriesRequest DEF Next

\* Nothing is due before there is an Automation.
LEMMA SeriesInit == Init => Series /\ AbsentIsNotMade
  <1> SUFFICES ASSUME Init PROVE Series /\ AbsentIsNotMade
    OBVIOUS
  <1>1. PICK d \in Definitions :
            /\ revisions = <<d>>
            /\ automation = [state |-> "active", nextDue |-> NextOccurrence(d, 1),
                             reason |-> FALSE, since |-> 1]
    BY DEF Init
  <1>2. revisions[1] = d /\ automation.since = 1 /\ automation.nextDue = Occurrence(d, 1)
    BY <1>1 DEF NextOccurrence
  <1>3. CoveredTo(automation.nextDue)
    BY <1>2, CoveredFromStart DEF CoveredTo
  <1> QED
    BY <1>2, <1>3 DEF Init, Series, AbsentIsNotMade, NotMade, IdleItem, NoRequest

-----------------------------------------------------------------------------
(* The theorems.                                                           *)

LEMMA CreationInit == Init => Creation
  BY DEF Init, NotMade, NoTime, Creation, OneRunPerOccurrence, AtMostOneActiveRun,
         ActiveRuns

\* The strengthened types and the facts about how runs are made are invariant
\* (repository.ts: the claims, edits and requests that read and write the row).
THEOREM ScheduleInvariant == Spec => [](Typed /\ Creation)
  <1>1. Init => Typed /\ Creation
    BY TypedInit, CreationInit
  <1>2. Typed /\ Creation /\ [Next]_scheduleVars => (Typed /\ Creation)'
    BY TypedNext, CreationNext
  <1> QED
    BY <1>1, <1>2, PTL DEF Spec

\* The schedule's type invariant, for every instance of the module.
THEOREM ScheduleTypeCorrect == Spec => []TypeOK
  <1>1. Typed => TypeOK
    BY DEF Typed, TypeOK, SoundItems, SoundRequests, Mades, AutomationRows
  <1> QED
    BY <1>1, ScheduleInvariant, PTL

\* claim (repository.ts): an occurrence has one run, whatever replicas list it as
\* due and however often next_due_at is set back to it.
THEOREM OccurrenceHasOneRun == Spec => []OneRunPerOccurrence
  BY ScheduleInvariant, PTL DEF Creation

\* claim (repository.ts): runs of one Automation do not overlap unless an owner
\* cancelled one of them.
THEOREM RunsDoNotOverlap == Spec => []AtMostOneActiveRun
  BY ScheduleInvariant, PTL DEF Creation

\* claim (repository.ts) and setState: between the last activation and next_due_at
\* every occurrence has its run, although cycles claim what they read earlier and
\* "run now" writes an earlier next_due_at back.
THEOREM OccurrencesAreNotPassedOver == Spec => []NoOccurrencePassedOver
  <1>1. Init => Series /\ AbsentIsNotMade
    BY SeriesInit
  <1>2. (Typed /\ Creation) /\ (Series /\ AbsentIsNotMade) /\ [Next]_scheduleVars
            => (Series /\ AbsentIsNotMade)'
    BY SeriesNext
  <1>3. Series => NoOccurrencePassedOver
    BY DEF Series, CoveredTo, Covered, NoOccurrencePassedOver
  <1> QED
    BY <1>1, <1>2, <1>3, ScheduleInvariant, PTL DEF Spec

-----------------------------------------------------------------------------
(* The runs of an Automation live as RunLifecycle says.                    *)

\* A run that is recorded is created as the lifecycle creates runs.
LEMMA RecordIsLifecycleStep ==
    ASSUME NEW first, NEW trigger, NEW t, NEW revision, Record(first, trigger, t, revision)
    PROVE  LifecycleNext
  <1>1. NewRun \in Runs /\ Create(NewRun, first)
    BY DEF Record, NewRun
  <1>2. first \in RunStatuses
    BY <1>1 DEF Create, RunStatuses, TerminalStatuses
  <1> QED
    BY <1>1, <1>2 DEF LifecycleNext

\* What the replicas and the owner do to the runs is a step of the lifecycle or none.
LEMMA StepFollowsLifecycle ==
    ASSUME Typed, [Next]_scheduleVars
    PROVE  [LifecycleNext]_lifecycleVars
  <1> DEFINE Follows == LifecycleNext \/ UNCHANGED lifecycleVars
  <1>1. ASSUME NEW r \in Runs, RunStep(r) PROVE LifecycleNext
    BY <1>1 DEF LifecycleNext
  <1>2. NothingMade => Follows
    BY DEF NothingMade, lifecycleVars
  <1>3. ASSUME NEW r \in Runs, NEW last \in TerminalStatuses, Finish(r, last)
        PROVE  Follows
    BY <1>1, <1>3, FinishIsRunStep
  <1>4. ASSUME NEW p \in Replicas, CycleStep(p) PROVE Follows
    <2>1. cycle[p].phase = "refusing" => cycle[p].run \in Runs
      BY DEF Typed, SoundItems
    <2>2. CASE DueRead(p) \/ MarkRefused(p)
      BY <1>2, <2>2 DEF DueRead, MarkRefused
    <2>3. CASE ClaimScheduled(p)
      BY <1>2, <2>3, RecordIsLifecycleStep DEF ClaimScheduled
    <2>4. CASE SkipRefused(p)
      BY <1>3, <2>1, <2>4 DEF SkipRefused, TerminalStatuses
    <2> QED
      BY <1>4, <2>2, <2>3, <2>4 DEF CycleStep
  <1>5. ASSUME NEW s \in Sessions, RequestStep(s) PROVE Follows
    <2>1. CASE ClaimManual(s)
      BY <1>2, <2>1, RecordIsLifecycleStep DEF ClaimManual
    <2>2. CASE RecordSkippedManual(s)
      BY <1>2, <2>2, RecordIsLifecycleStep DEF RecordSkippedManual
    <2>3. CASE ~ClaimManual(s) /\ ~RecordSkippedManual(s)
      BY <1>2, <1>5, <2>3 DEF RequestStep, SetStateRead, SetStateWrite, RunNowRead, MarkBlocked
    <2> QED
      BY <2>1, <2>2, <2>3
  <1>6. ASSUME NEW r \in Runs, Execute(r) \/ RunStepOf(r) PROVE Follows
    BY <1>1, <1>6 DEF Execute, RunStepOf, RunStep
  <1>7. ASSUME NEW x \in scripts, CompleteScript(x) \/ ApplyResult(x) PROVE Follows
    <2>1. x.run \in Runs
      BY DEF Typed
    <2>2. CASE CompleteScript(x)
      BY <1>3, <2>1, <2>2 DEF CompleteScript, TerminalStatuses
    <2>3. CASE ApplyResult(x)
      BY <1>2, <2>3 DEF ApplyResult
    <2> QED
      BY <1>7, <2>2, <2>3
  <1>8. CASE Tick \/ MarkNeedsAttention \/ \E d \in Definitions : Update(d)
    BY <1>2, <1>8 DEF Tick, MarkNeedsAttention, Update, lifecycleVars
  <1>9. CASE UNCHANGED scheduleVars
    BY <1>9 DEF scheduleVars, lifecycleVars
  <1>10. Follows
    BY <1>4, <1>5, <1>6, <1>7, <1>8, <1>9 DEF Next
  <1> QED
    BY <1>10

\* Creation, claims, refusals and results of the schedule use the runs only as the
\* run table promises, which is what AutomationRuns implements: the two models fit.
THEOREM ScheduleFollowsLifecycle == Spec => LifecycleSpec
  <1>1. Init => LifecycleInit
    BY DEF Init
  <1>2. Typed /\ Creation /\ [Next]_scheduleVars => [LifecycleNext]_lifecycleVars
    BY StepFollowsLifecycle
  <1> QED
    BY <1>1, <1>2, ScheduleInvariant, PTL DEF Spec, LifecycleSpec

\* Of an Automation's runs too, none is started more often than
\* AUTOMATION_MAXIMUM_ATTEMPTS allows.
THEOREM ScheduledAttemptsBounded == Spec => [](LifecycleTypeOK /\ LifecycleAttemptBound)
  <1> DEFINE Bounded == LifecycleTypeOK /\ LifecycleAttemptBound
  <1>1. LifecycleInit => Bounded
    BY MaximumAttemptsAssumption DEF LifecycleInit, LifecycleTypeOK, LifecycleAttemptBound,
         RunStatuses, TerminalStatuses
  <1>2. Bounded /\ Typed /\ Typed' /\ [LifecycleNext]_lifecycleVars => Bounded'
    <2> SUFFICES ASSUME Bounded, Typed', [LifecycleNext]_lifecycleVars PROVE LifecycleAttemptBound'
      BY DEF Typed
    <2>1. CASE UNCHANGED lifecycleVars
      BY <2>1 DEF lifecycleVars, LifecycleAttemptBound
    <2>2. ASSUME NEW r \in Runs, StartRun(r) PROVE LifecycleAttemptBound'
      BY <2>2, MaximumAttemptsAssumption
         DEF StartRun, LifecycleTypeOK, LifecycleAttemptBound
    <2>3. ASSUME NEW r \in Runs, RunStep(r), ~StartRun(r) PROVE LifecycleAttemptBound'
      BY <2>3 DEF RunStep, Requeue, Finish, Cancel, RecoverCancelled, LifecycleAttemptBound
    <2>4. ASSUME NEW r \in Runs, NEW s \in RunStatuses, Create(r, s)
          PROVE  LifecycleAttemptBound'
      BY <2>4 DEF Create, LifecycleAttemptBound
    <2> QED
      BY <2>1, <2>2, <2>3, <2>4 DEF LifecycleNext
  <1>3. Typed /\ Creation => Typed
    OBVIOUS
  <1> QED
    BY <1>1, <1>2, <1>3, ScheduleFollowsLifecycle, ScheduleInvariant, PTL DEF LifecycleSpec

=============================================================================
