-------------------------- MODULE LocalAutomations --------------------------
(***************************************************************************)
(* The scheduler of the OpenWork server for automations kept on this       *)
(* machine: one JSON file of tasks and of the history of their runs, the   *)
(* set of executions the process holds in memory, the tick that starts due *)
(* tasks, and the routes that edit the file.                               *)
(*                                                                         *)
(* The code reads and writes the file synchronously and has one thread, so *)
(* whatever runs between two awaits is one action: a whole tick with the   *)
(* beginning of every execution it starts, the end of an execution, a      *)
(* route after it has read its body.  Time is in seconds, and a day is as  *)
(* short as DayLength.                                                     *)
(*                                                                         *)
(* Source: apps/server/src/local-automations.ts, -scheduler.ts and         *)
(* routes/local-automations.ts.  Names, instructions, models, sessions and *)
(* results are left out; daylight saving is too.                           *)
(***************************************************************************)
EXTENDS Integers, Sequences, FiniteSets, SequencesExt

CONSTANTS
    Tasks,         \* ids of tasks
    Presets,       \* those the preset list brings
    PresetSchedule,
    Schedules,     \* what a user may save
    Calendars,     \* daily and weekly schedules NextRunTime is checked on
    DayLength,     \* seconds in a day
    Grace,         \* how late a start of the server still executes a task: 24 h
    HistoryLength, \* runs the file keeps: 200
    MaxTime,       \* BOUND: the clock stops here
    MaxManual,     \* BOUND: manual executions
    MaxEdits,      \* BOUND: saves, toggles, deletions and imports
    MaxFaults      \* BOUND: stops of the server, and steps whose writes of the file fail

\* What computeNextRunTime makes of a schedule: the time of day and the interval are
\* clamped, the moment of a single execution and the days are what the user gave.
IsSchedule(s) ==
    \/ s.kind = "once" /\ s.at \in Int
    \/ s.kind = "interval" /\ s.every \in Nat \ {0}
    \/ s.kind \in {"daily", "weekly"} /\ s.time \in 0..(DayLength - 1)

\* A weekly schedule that names days of the week; without days it means Monday.
NamesDays(s) == s.kind = "weekly" => s.days # {} /\ s.days \subseteq 0..7

ASSUME LocalAssumption ==
    /\ Presets \subseteq Tasks /\ IsFiniteSet(Presets)
    /\ DayLength \in Nat \ {0}
    /\ Grace \in Nat
    /\ HistoryLength \in Nat \ {0}
    /\ {MaxTime, MaxManual, MaxEdits, MaxFaults} \subseteq Nat
    /\ \A s \in Schedules \cup {PresetSchedule} \cup Calendars : IsSchedule(s)
    /\ \A s \in Calendars : s.kind \in {"daily", "weekly"} /\ NamesDays(s)

VARIABLES
    now,         \* Date.now()
    up,          \* the server runs
    file,        \* local-automations.json
    executions,  \* runningTaskIds, with what each executeTask call holds on to
    stuck,       \* runningTaskIds that no call of executeTask takes out any more
    saved,       \* history: what the user last asked each task to be
    fired,       \* history: occurrences executed since the server started
    runCount,    \* run ids given out
    lastCrash,   \* history: the run ids given out when the server last stopped
    lost,        \* history: runs whose end could not be written
    manual, edits, faults

counters == <<manual, edits, faults>>

localVars ==
    <<now, up, file, executions, stuck, saved, fired, runCount, lastCrash, lost, counters>>

Undefined == -1

Absent == [schedule |-> [kind |-> "none"], enabled |-> FALSE]

EmptyFile == [automations |-> << >>, runs |-> << >>]

RunStatuses == {"running", "succeeded", "failed"}

TypeOK ==
    /\ now \in 0..MaxTime
    /\ up \in BOOLEAN
    /\ file.automations \in Seq([id : Tasks, schedule : Schedules \cup {PresetSchedule}, enabled : BOOLEAN,
                                 due : Nat \cup {Undefined}, status : RunStatuses \cup {"none"}])
    /\ file.runs \in Seq([run : Nat, task : Tasks, status : RunStatuses])
    /\ Len(file.runs) <= HistoryLength
    /\ executions \subseteq [run : 1..runCount, task : Tasks, schedule : Schedules \cup {PresetSchedule}, due : Int]
    /\ stuck \subseteq Tasks
    /\ ~up => executions = {} /\ stuck = {}
    /\ saved \in [Tasks -> [schedule : Schedules \cup {PresetSchedule}, enabled : BOOLEAN] \cup {Absent}]
    /\ fired \subseteq Tasks \X Nat
    /\ runCount \in Nat /\ lastCrash \in 0..runCount /\ lost \subseteq 1..runCount
    /\ manual \in 0..MaxManual /\ edits \in 0..MaxEdits /\ faults \in 0..MaxFaults

Init ==
    /\ now = 0
    /\ up = TRUE
    /\ file = EmptyFile
    /\ executions = {} /\ stuck = {}
    /\ saved = [t \in Tasks |-> Absent]
    /\ fired = {}
    /\ runCount = 0 /\ lastCrash = 0 /\ lost = {}
    /\ manual = 0 /\ edits = 0 /\ faults = 0

-----------------------------------------------------------------------------
(* computeNextRunTime.                                                     *)

DayOf(t) == t \div DayLength

\* Mutant of AtTimeOfDay: a time of day that has just come is given again.
AtTimeOfDayAgain(time, day, from) == day * DayLength + time >= from

\* Whether the time of day on that day is still to come.
AtTimeOfDay(time, day, from) == day * DayLength + time > from

\* Sunday is 0, or 7 in what a user may save.
DaysOf(schedule) == {IF d = 7 THEN 0 ELSE d : d \in schedule.days}

Weekdays(schedule, from) ==
    {day \in DayOf(from)..(DayOf(from) + 14) :
        day % 7 \in DaysOf(schedule) /\ AtTimeOfDay(schedule.time, day, from)}

NextRunTime(schedule, from) ==
    CASE schedule.kind = "once" -> IF schedule.at > from THEN schedule.at ELSE Undefined
      [] schedule.kind = "interval" -> from + schedule.every
      [] schedule.kind = "daily" ->
            LET day == IF AtTimeOfDay(schedule.time, DayOf(from), from)
                       THEN DayOf(from) ELSE DayOf(from) + 1
            IN day * DayLength + schedule.time
      [] schedule.kind = "weekly" ->
            LET days == Weekdays(schedule, from)
            IN IF days = {} THEN Undefined ELSE Min(days) * DayLength + schedule.time

-----------------------------------------------------------------------------
(* The file.                                                               *)

Ids(automations) == {automations[i].id : i \in DOMAIN automations}

\* Every task with that id gets the change, a function of the task; ids are not repeated.
Updated(automations, id, change) ==
    [i \in DOMAIN automations |->
        IF automations[i].id = id THEN change[automations[i]] ELSE automations[i]]

\* Mutant of Truncated: the history grows.
TruncatedNever(runs) == runs

Truncated(runs) ==
    IF Len(runs) > HistoryLength THEN SubSeq(runs, 1, HistoryLength) ELSE runs

\* A write that is cut off leaves a file that does not parse, which is read as one
\* without tasks and runs.
CutOff ==
    /\ file' = EmptyFile
    /\ saved' = [t \in Tasks |-> Absent]

\* writeFileSync throws, before or after it has emptied the file.
WriteFails ==
    /\ faults < MaxFaults
    /\ faults' = faults + 1
    /\ UNCHANGED <<file, saved>> \/ CutOff

-----------------------------------------------------------------------------
(* executeTask up to its first await, on what a tick has done so far.       *)

World == [file |-> file, executions |-> executions, runCount |-> runCount, fired |-> fired]

\* Mutant of Executing: the set of running tasks is not looked at.
ExecutingIgnored(world, id) == FALSE

Executing(world, id) == id \in stuck \/ \E e \in world.executions : e.task = id

Begun(world, t, occurrence) ==
    LET run == world.runCount + 1
        entry == [run |-> run, task |-> t.id, status |-> "running"]
        tasks == world.file.automations
    IN [file |-> [automations |-> Updated(tasks, t.id,
                      [a \in ToSet(tasks) |-> [a EXCEPT !.status = "running"]]),
                  runs |-> Truncated(<<entry>> \o world.file.runs)],
        executions |-> world.executions \cup
            {[run |-> run, task |-> t.id, schedule |-> t.schedule, due |-> occurrence]},
        runCount |-> run,
        fired |-> IF occurrence = Undefined THEN world.fired
                  ELSE world.fired \cup {<<t.id, occurrence>>}]

Execute(world, t, occurrence) ==
    IF Executing(world, t.id) THEN world ELSE Begun(world, t, occurrence)

Become(world) ==
    /\ file' = world.file
    /\ executions' = world.executions
    /\ runCount' = world.runCount
    /\ fired' = world.fired

-----------------------------------------------------------------------------
(* The tick, every 30 seconds.                                             *)

\* Mutant of HasCome: only the very second counts.
HasComeNow(t) == now = t.due

HasCome(t) == now >= t.due

\* One task of the loop.  The snapshot is the file as the tick first read it; a
\* task without a next time has it computed and the whole snapshot is written.
LoopStep(acc, i) ==
    LET t == acc.snapshot.automations[i]
        dated == [acc.snapshot EXCEPT
                    !.automations[i].due = NextRunTime(t.schedule, now)]
    IN IF ~t.enabled THEN acc
       ELSE IF t.due = Undefined
       THEN [acc EXCEPT !.snapshot = dated, !.world.file = dated]
       ELSE IF HasCome(t) THEN [acc EXCEPT !.world = Execute(@, t, t.due)]
       ELSE acc

SchedulerTick ==
    /\ up
    /\ Become(FoldLeft(LoopStep, [snapshot |-> file, world |-> World],
                       [i \in DOMAIN file.automations |-> i]).world)
    /\ UNCHANGED <<now, up, stuck, saved, lastCrash, lost, counters>>

\* The ids of executions whose first write fails are added to runningTaskIds before the
\* try whose finally would take them out.  A tick that cannot write a next time ends there.
TickFails ==
    LET tasks == file.automations
        undated == {i \in DOMAIN tasks : tasks[i].enabled /\ tasks[i].due = Undefined}
        started == {i \in DOMAIN tasks :
            /\ tasks[i].enabled /\ tasks[i].due # Undefined /\ HasCome(tasks[i])
            /\ ~Executing(World, tasks[i].id)
            /\ \A j \in undated : i < j}
    IN /\ up
       /\ undated \cup started # {}
       /\ stuck' = stuck \cup {tasks[i].id : i \in started}
       /\ WriteFails
       /\ UNCHANGED <<now, up, executions, fired, runCount, lastCrash, lost, manual, edits>>

\* triggerLocalAutomationNow
RunNow(id) ==
    /\ up
    /\ manual < MaxManual
    /\ \E i \in DOMAIN file.automations :
        /\ file.automations[i].id = id
        /\ Become(Execute(World, file.automations[i], Undefined))
    /\ manual' = manual + 1
    /\ UNCHANGED <<now, up, stuck, saved, lastCrash, lost, edits, faults>>

RunNowFails(id) ==
    /\ up
    /\ manual < MaxManual
    /\ id \in Ids(file.automations)
    /\ ~Executing(World, id)
    /\ stuck' = stuck \cup {id}
    /\ manual' = manual + 1
    /\ WriteFails
    /\ UNCHANGED <<now, up, executions, fired, runCount, lastCrash, lost, edits>>

-----------------------------------------------------------------------------
(* executeTask after its awaits.                                           *)

\* Mutant of AfterRun: the task is written back as it was when it started.
AfterRunStale(a, e, outcome) ==
    [a EXCEPT !.status = outcome, !.schedule = e.schedule,
              !.due = NextRunTime(e.schedule, now + 1)]

\* Mutant of AfterRun: the next time is not computed.
AfterRunDue(a, e, outcome) == [a EXCEPT !.status = outcome]

\* The next time comes from the schedule the execution started with.
AfterRun(a, e, outcome) ==
    [a EXCEPT !.status = outcome, !.due = NextRunTime(e.schedule, now + 1)]

\* Mutant of LogEnd: only a success is written to the history.
LogEndSucceeded(runs, e, outcome) ==
    [i \in DOMAIN runs |-> IF runs[i].run = e.run /\ outcome = "succeeded"
                           THEN [runs[i] EXCEPT !.status = outcome] ELSE runs[i]]

LogEnd(runs, e, outcome) ==
    [i \in DOMAIN runs |-> IF runs[i].run = e.run THEN [runs[i] EXCEPT !.status = outcome]
                           ELSE runs[i]]

Finish(e, outcome) ==
    /\ e \in executions
    /\ file' = [automations |-> Updated(file.automations, e.task,
                    [a \in ToSet(file.automations) |-> AfterRun(a, e, outcome)]),
                runs |-> LogEnd(file.runs, e, outcome)]
    /\ executions' = executions \ {e}
    /\ UNCHANGED <<now, up, stuck, saved, fired, runCount, lastCrash, lost, counters>>

\* The catch writes what the try could not, and fails too.  The occurrence stays due.
FinishFails(e) ==
    /\ e \in executions
    /\ executions' = executions \ {e}
    /\ lost' = lost \cup {e.run}
    /\ fired' = fired \ {<<e.task, e.due>>}
    /\ WriteFails
    /\ UNCHANGED <<now, up, stuck, runCount, lastCrash, manual, edits>>

-----------------------------------------------------------------------------
(* The routes.                                                             *)

DueOf(schedule, enabled) == IF enabled THEN NextRunTime(schedule, now) ELSE Undefined

Edit(automations) ==
    /\ up
    /\ edits < MaxEdits
    /\ edits' = edits + 1
    /\ file' = [file EXCEPT !.automations = automations]
    /\ UNCHANGED <<now, up, executions, stuck, fired, runCount, lastCrash, lost, manual,
                   faults>>

Save(id, schedule, enabled) ==
    /\ Edit(IF id \in Ids(file.automations)
            THEN Updated(file.automations, id, [a \in ToSet(file.automations) |->
                    [a EXCEPT !.schedule = schedule, !.enabled = enabled,
                              !.due = DueOf(schedule, enabled)]])
            ELSE <<[id |-> id, schedule |-> schedule, enabled |-> enabled,
                    due |-> DueOf(schedule, enabled), status |-> "none"]>>
                 \o file.automations)
    /\ saved' = [saved EXCEPT ![id] = [schedule |-> schedule, enabled |-> enabled]]

Toggle(id, enabled) ==
    /\ id \in Ids(file.automations)
    /\ Edit(Updated(file.automations, id, [a \in ToSet(file.automations) |->
                [a EXCEPT !.enabled = enabled, !.due = DueOf(a.schedule, enabled)]]))
    /\ saved' = [saved EXCEPT ![id].enabled = enabled]

Delete(id) ==
    /\ \E i \in DOMAIN file.automations :
        /\ file.automations[i].id = id
        /\ Edit(RemoveAt(file.automations, i))
    /\ saved' = [saved EXCEPT ![id] = Absent]

\* The presets that are not there are appended.  The code gives them new ids, so an
\* execution of a preset that was deleted does not meet the imported one.
ImportPresets ==
    LET missing == Presets \ Ids(file.automations)
    IN /\ \A e \in executions : e.task \notin missing
       /\ \E order \in SetToSeqs(missing) :
            Edit(file.automations \o [i \in DOMAIN order |->
                [id |-> order[i], schedule |-> PresetSchedule, enabled |-> TRUE,
                 due |-> NextRunTime(PresetSchedule, now), status |-> "none"]])
       /\ saved' = [t \in Tasks |-> IF t \in missing
                        THEN [schedule |-> PresetSchedule, enabled |-> TRUE] ELSE saved[t]]

\* A route that cannot write answers with an error.
EditFails ==
    /\ up
    /\ edits < MaxEdits
    /\ edits' = edits + 1
    /\ WriteFails
    /\ UNCHANGED <<now, up, executions, stuck, fired, runCount, lastCrash, lost, manual>>

-----------------------------------------------------------------------------
Clock ==
    /\ now < MaxTime
    /\ now' = now + 1
    /\ UNCHANGED <<up, file, executions, stuck, saved, fired, runCount, lastCrash, lost,
                   counters>>

\* The executions are lost, and a write may be cut off.
Crash ==
    /\ up
    /\ faults < MaxFaults
    /\ up' = FALSE
    /\ executions' = {} /\ stuck' = {}
    /\ fired' = {}
    /\ lastCrash' = runCount
    /\ faults' = faults + 1
    /\ UNCHANGED <<file, saved>> \/ CutOff
    /\ UNCHANGED <<now, runCount, lost, manual, edits>>

\* A task without a next time, or whose time is long past, gets a new one.
StartScheduler ==
    /\ ~up
    /\ up' = TRUE
    /\ file' = [file EXCEPT !.automations = [i \in DOMAIN @ |->
            LET a == @[i]
            IN IF a.enabled /\ (a.due = Undefined \/ a.due < now - Grace)
               THEN [a EXCEPT !.due = NextRunTime(a.schedule, now)] ELSE a]]
    /\ UNCHANGED <<now, executions, stuck, saved, fired, runCount, lastCrash, lost, counters>>

Next ==
    \/ SchedulerTick \/ TickFails
    \/ \E e \in executions :
        \/ \E outcome \in {"succeeded", "failed"} : Finish(e, outcome)
        \/ FinishFails(e)
    \/ \E id \in Tasks :
        \/ RunNow(id) \/ RunNowFails(id) \/ Delete(id)
        \/ \E enabled \in BOOLEAN :
            \/ Toggle(id, enabled)
            \/ \E schedule \in Schedules : Save(id, schedule, enabled)
    \/ ImportPresets \/ EditFails
    \/ Clock \/ Crash \/ StartScheduler

Spec == Init /\ [][Next]_localVars

\* The timer fires, the two requests of an execution end or time out, a stopped
\* server is started again, and time passes.
FairSpec ==
    /\ Spec
    /\ WF_localVars(SchedulerTick)
    /\ WF_localVars(\E e \in executions, outcome \in {"succeeded", "failed"} : Finish(e, outcome))
    /\ WF_localVars(StartScheduler)
    /\ WF_localVars(Clock)

-----------------------------------------------------------------------------
(* Properties.                                                             *)

\* Ticks and run-now requests never have two executions of one task in progress.
OneExecution == \A e, f \in executions : e.task = f.task => e = f

\* However ticks, executions and edits interleave, the file has each task once, as
\* the user last asked it to be: no execution and no tick undoes an edit or
\* brings a deleted task back.
EditsKept ==
    /\ \A i, j \in DOMAIN file.automations :
        file.automations[i].id = file.automations[j].id => i = j
    /\ Ids(file.automations) = {t \in Tasks : saved[t] # Absent}
    /\ \A i \in DOMAIN file.automations :
        LET a == file.automations[i]
        IN saved[a.id] = [schedule |-> a.schedule, enabled |-> a.enabled]

\* The history calls a run running only while it is, or when a stop of the server took
\* it away, or when its end could not be written.
RunningIsRunning ==
    \A i \in DOMAIN file.runs :
        file.runs[i].status = "running" /\ file.runs[i].run > lastCrash
        /\ file.runs[i].run \notin lost
            => \E e \in executions : e.run = file.runs[i].run

\* An occurrence is executed once, unless the server stops before its end or cannot
\* write it.
OccurrenceOnce ==
    [][\A e \in executions' \ executions :
            e.due # Undefined => <<e.task, e.due>> \notin fired]_localVars

OnCalendar(schedule, t) ==
    /\ t % DayLength = schedule.time
    /\ schedule.kind = "weekly" => DayOf(t) % 7 \in DaysOf(schedule)

\* The days a schedule names, and the time of day, decide the next time: it is the
\* earliest that comes later.
NextIsEarliest ==
    \A schedule \in Calendars :
        LET next == NextRunTime(schedule, now)
        IN /\ next > now
           /\ OnCalendar(schedule, next)
           /\ \A t \in (now + 1)..(next - 1) : ~OnCalendar(schedule, t)

Due(a, id) == a.id = id /\ a.enabled /\ a.due \in 0..now

\* A task that is due is executed, edited or given another time, although executions,
\* their first writes and their ends fail, unless a failed write has left its id in
\* runningTaskIds: that task is refused until the server stops.
DueIsExecuted ==
    \A id \in Tasks :
        (\E i \in DOMAIN file.automations : Due(file.automations[i], id))
        ~> \/ ~(\E i \in DOMAIN file.automations : Due(file.automations[i], id))
           \/ id \in stuck

=============================================================================
