----------------------------- MODULE EnginePool -----------------------------
(***************************************************************************)
(* The blue/green pool of OpenCode engines in the OpenWork server: one     *)
(* primary engine serves new requests; a config change that meets a busy   *)
(* engine starts a standby, flips to it and drains the old one.  Requests  *)
(* for a change are serialized, drains are polled, and the server may shut *)
(* the pool down at any time.                                              *)
(*                                                                         *)
(* The pool lives in one event loop: an action is what happens between two *)
(* awaits, and whatever it learned at one of them is kept until it is used.*)
(*                                                                         *)
(* Source: apps/server/src/engine-pool.ts; the engines and their sessions  *)
(* are external.                                                           *)
(***************************************************************************)
EXTENDS Naturals, FiniteSets

CONSTANTS
    Engines,      \* BOUND: engine processes over the life of the pool
    Workspaces,   \* directories whose instances the engines build
    Sessions,     \* sessions a user prompts
    Configs,      \* contents of the runtime config
    NoEngine,     \* no generation
    NoWorkspace,  \* no request parked or coalesced
    NoConfig,     \* no fingerprint read yet
    MaxEdits,     \* BOUND: changes of the settings
    MaxRequests,  \* BOUND: calls of requestRollover
    MaxPolls      \* BOUND: drain polls waiting for an answer at the same time

ASSUME PoolAssumption ==
    /\ Engines # {} /\ Configs # {}
    /\ NoEngine \notin Engines
    /\ NoWorkspace \notin Workspaces
    /\ NoConfig \notin Configs
    /\ {MaxEdits, MaxRequests, MaxPolls} \subseteq Nat

VARIABLES
    settings,  \* the runtime config in the database
    disk,      \* the runtime config file an engine reads
    edits,     \* changes of settings so far
    requests,  \* calls of requestRollover so far
    engine,    \* generations: status, fingerprint, whether the process lives
    instance,  \* the config the primary built each workspace's instance from
    running,   \* sessions with a live run in each engine
    inbound,   \* prompts on their way to an engine
    owner,     \* sessionOwnership
    active,    \* activeSessionsByGeneration
    rollover,  \* the request in flight, and what it has learned
    pending,   \* pendingRollover
    cooling,   \* the minimum spawn interval has not passed
    polls,     \* drain ticks under way
    shutdown   \* disposeAll: whether it was called, the engines still to close

settingVars == <<settings, disk, edits>>
requestVars == <<rollover, pending, requests, cooling>>
sessionVars == <<running, inbound>>
routeVars == <<owner, active>>
vars == <<settings, disk, edits, requests, engine, instance, running, inbound, owner,
          active, rollover, pending, cooling, polls, shutdown>>

Statuses == {"unborn", "starting", "primary", "draining", "dead"}
Routable == {"primary", "draining"}
RolloverPhases == {"none", "writing", "reading", "probing", "reloading", "spawning",
                   "checking", "listing", "pinning", "flipping"}
Generations == [status : Statuses, alive : BOOLEAN, overdue : BOOLEAN,
                fingerprint : Configs \cup {NoConfig}]
Rollovers == [phase : RolloverPhases, workspace : Workspaces \cup {NoWorkspace},
              fingerprint : Configs \cup {NoConfig}, primary : Engines \cup {NoEngine},
              next : Engines \cup {NoEngine}, sessions : SUBSET Sessions]
Polls == [engine : Engines, phase : {"asked", "aborting"}, sessions : SUBSET Sessions]

Request(phase, w) == [phase |-> phase, workspace |-> w, fingerprint |-> NoConfig,
                      primary |-> NoEngine, next |-> NoEngine, sessions |-> {}]
NoRequest == Request("none", NoWorkspace)

TypeOK ==
    /\ {settings, disk} \subseteq Configs
    /\ edits \in 0..MaxEdits
    /\ requests \in 0..MaxRequests
    /\ engine \in [Engines -> Generations]
    /\ instance \in [Workspaces -> Configs]
    /\ running \in [Engines -> SUBSET Sessions]
    /\ inbound \subseteq Sessions \X Engines
    /\ owner \in [Sessions -> Engines \cup {NoEngine}]
    /\ active \in [Engines -> SUBSET Sessions]
    /\ rollover \in Rollovers
    /\ pending \in Workspaces \cup {NoWorkspace}
    /\ cooling \in BOOLEAN
    /\ polls \subseteq Polls
    /\ shutdown \in [called : BOOLEAN, closing : SUBSET Engines]

InRole(role) == {g \in Engines : engine[g].status = role}
Primary == IF InRole("primary") = {} THEN NoEngine ELSE CHOOSE g \in InRole("primary") : TRUE

Unborn == [status |-> "unborn", alive |-> FALSE, overdue |-> FALSE,
           fingerprint |-> NoConfig]

\* Processes are interchangeable until they are spawned.
Fresh(S) == CHOOSE g \in S : TRUE

\* adoptPrimary, with the engine that was started with the server.
Init ==
    /\ settings \in Configs
    /\ disk = settings
    /\ edits = 0
    /\ requests = 0
    /\ engine = [[g \in Engines |-> Unborn] EXCEPT ![Fresh(Engines)] =
                    [Unborn EXCEPT !.status = "primary", !.alive = TRUE, !.fingerprint = disk]]
    /\ instance = [w \in Workspaces |-> disk]
    /\ running = [g \in Engines |-> {}]
    /\ inbound = {}
    /\ owner = [s \in Sessions |-> NoEngine]
    /\ active = [g \in Engines |-> {}]
    /\ rollover = NoRequest
    /\ pending = NoWorkspace
    /\ cooling = TRUE
    /\ polls = {}
    /\ shutdown = [called |-> FALSE, closing |-> {}]

-----------------------------------------------------------------------------
(* External: the settings, the engines, the sessions, the clock.           *)

\* The settings change; keepOpenworkRuntimeConfigFileFresh writes the file later.
SaveSettings ==
    /\ edits < MaxEdits
    /\ settings' \in Configs \ {settings}
    /\ edits' = edits + 1
    /\ UNCHANGED <<disk, engine, instance, sessionVars, routeVars, requestVars, polls, shutdown>>

RefreshFile ==
    /\ disk # settings
    /\ disk' = settings
    /\ UNCHANGED <<settings, edits, engine, instance, sessionVars, routeVars, requestVars,
                   polls, shutdown>>

\* A prompt reaches the engine it was routed to, if that still runs.
Arrive(s, g) ==
    /\ <<s, g>> \in inbound
    /\ inbound' = inbound \ {<<s, g>>}
    /\ running' = IF engine[g].alive THEN [running EXCEPT ![g] = @ \cup {s}] ELSE running
    /\ UNCHANGED <<settingVars, engine, instance, routeVars, requestVars, polls, shutdown>>

FinishSession(s, g) ==
    /\ s \in running[g]
    /\ running' = [running EXCEPT ![g] = @ \ {s}]
    /\ UNCHANGED <<settingVars, engine, instance, inbound, routeVars, requestVars, polls,
                   shutdown>>

Crash(g) ==
    /\ engine[g].alive
    /\ engine' = [engine EXCEPT ![g].alive = FALSE]
    /\ running' = [running EXCEPT ![g] = {}]
    /\ UNCHANGED <<settingVars, instance, inbound, routeVars, requestVars, polls, shutdown>>

\* The drain deadline of a generation, and the minimum interval between spawns.
DeadlinePasses(g) ==
    /\ engine[g].status = "draining"
    /\ ~engine[g].overdue
    /\ engine' = [engine EXCEPT ![g].overdue = TRUE]
    /\ UNCHANGED <<settingVars, instance, sessionVars, routeVars, requestVars, polls, shutdown>>

SpawnIntervalPasses ==
    /\ cooling
    /\ cooling' = FALSE
    /\ UNCHANGED <<settingVars, engine, instance, sessionVars, routeVars, rollover, pending,
                   requests, polls, shutdown>>

-----------------------------------------------------------------------------
(* Routing.                                                                *)

\* routeRequest: a prompt goes to the generation that owns the session while that
\* knows it as active, and otherwise gives up the ownership and goes to the primary.
Prompt(s) ==
    /\ ~shutdown.called
    /\ \A g \in Engines : <<s, g>> \notin inbound
    /\ LET o == owner[s]
           owned == o # NoEngine /\ engine[o].status \in Routable
       IN IF owned /\ s \in active[o]
          THEN inbound' = inbound \cup {<<s, o>>} /\ UNCHANGED owner
          ELSE /\ inbound' = inbound \cup {<<s, Primary>>}
               /\ owner' = IF owned THEN [owner EXCEPT ![s] = NoEngine] ELSE owner
    /\ UNCHANGED <<settingVars, engine, instance, running, active, requestVars, polls, shutdown>>

-----------------------------------------------------------------------------
(* Requests for a change.                                                  *)

\* requestRollover: the latest request waits for the one in flight.
RequestRollover(w) ==
    /\ requests < MaxRequests
    /\ ~shutdown.called
    /\ requests' = requests + 1
    /\ IF rollover.phase = "none"
       THEN rollover' = Request("writing", w) /\ UNCHANGED pending
       ELSE pending' = w /\ UNCHANGED rollover
    /\ UNCHANGED <<settingVars, engine, instance, sessionVars, routeVars, cooling, polls, shutdown>>

\* Mutant of Settle: the request that waited is started and not forgotten.
SettleKeeping(w) ==
    /\ rollover' = IF w = NoWorkspace \/ shutdown.called THEN NoRequest
                   ELSE Request("writing", w)
    /\ pending' = w

\* The `finally` of requestRollover: what waits is started at once.
Settle(w) ==
    /\ rollover' = IF w = NoWorkspace \/ shutdown.called THEN NoRequest
                   ELSE Request("writing", w)
    /\ pending' = NoWorkspace

Goto(next) == rollover' = next /\ UNCHANGED pending

\* writeRuntimeConfigFile may fail; the rollover goes on.
WriteRuntimeConfig ==
    /\ rollover.phase = "writing"
    /\ disk' \in {disk, settings}
    /\ Goto([rollover EXCEPT !.phase = "reading"])
    /\ UNCHANGED <<settings, edits, engine, instance, sessionVars, routeVars, requests,
                   cooling, polls, shutdown>>

Unchanged(g) == g # NoEngine /\ engine[g].fingerprint = disk

ReadFingerprint ==
    /\ rollover.phase = "reading"
    /\ IF Unchanged(Primary) THEN Settle(pending)
       ELSE Goto([rollover EXCEPT !.phase = "probing", !.fingerprint = disk,
                                  !.primary = Primary])
    /\ UNCHANGED <<settingVars, engine, instance, sessionVars, routeVars, requests, cooling,
                   polls, shutdown>>

\* Mutant of MustWait: only the interval between spawns is looked at.
MustWaitForInterval == cooling

\* One engine drains already, or the last spawn was a moment ago.
MustWait == InRole("draining") # {} \/ cooling

RunsOf(g) == IF g = NoEngine THEN {} ELSE running[g]
Answers(g) == g # NoEngine /\ engine[g].alive

\* engineBusy: no when the probe fails.  A request that must wait becomes the pending
\* one, in place of a later request that may be there.
ProbeBusy ==
    /\ rollover.phase = "probing"
    /\ \/ /\ Goto([rollover EXCEPT !.phase = "reloading"])
          /\ UNCHANGED cooling
       \/ /\ RunsOf(Primary) # {}
          /\ MustWait
          /\ Settle(rollover.workspace)
          /\ UNCHANGED cooling
       \/ /\ RunsOf(Primary) # {}
          /\ ~MustWait
          /\ Goto([rollover EXCEPT !.phase = "spawning"])
          /\ cooling' = TRUE
    /\ UNCHANGED <<settingVars, engine, instance, sessionVars, routeVars, requests, polls, shutdown>>

\* reloadInPlace disposes of the instance of one directory, which is built again from
\* the file, and may fail before or after it did; the fingerprint is the engine's.
ReloadInPlace ==
    /\ rollover.phase = "reloading"
    /\ LET g == rollover.primary
           rebuilt == [instance EXCEPT ![rollover.workspace] = disk]
       IN \/ /\ Answers(g)
             /\ instance' = rebuilt
             /\ engine' = [engine EXCEPT ![g].fingerprint = rollover.fingerprint]
          \/ /\ instance' \in IF Answers(g) THEN {instance, rebuilt} ELSE {instance}
             /\ UNCHANGED engine
    /\ Settle(pending)
    /\ UNCHANGED <<settingVars, sessionVars, routeVars, requests, cooling, polls, shutdown>>

-----------------------------------------------------------------------------
(* The rollover to a standby.                                              *)

Spawn ==
    /\ rollover.phase = "spawning"
    /\ \/ /\ InRole("unborn") # {}
          /\ engine' = [engine EXCEPT ![Fresh(InRole("unborn"))] =
                [status |-> "starting", alive |-> TRUE, overdue |-> FALSE,
                 fingerprint |-> rollover.fingerprint]]
          /\ Goto([rollover EXCEPT !.phase = "checking", !.next = Fresh(InRole("unborn"))])
       \/ Settle(pending) /\ UNCHANGED engine
    /\ UNCHANGED <<settingVars, instance, sessionVars, routeVars, requests, cooling, polls, shutdown>>

\* Mutant of Dead: the cause of the retirement is stored as the status.
DeadByCause(g) == [engine[g] EXCEPT !.status = "idle", !.alive = FALSE, !.overdue = FALSE]

Dead(g) == [engine[g] EXCEPT !.status = "dead", !.alive = FALSE, !.overdue = FALSE]

\* waitForHealthy; a standby that does not answer is closed.
CheckHealth ==
    /\ rollover.phase = "checking"
    /\ LET g == rollover.next
       IN \/ /\ engine[g].alive
             /\ Goto([rollover EXCEPT !.phase = "listing"])
             /\ UNCHANGED <<engine, running>>
          \/ /\ engine' = [engine EXCEPT ![g] = Dead(g)]
             /\ running' = [running EXCEPT ![g] = {}]
             /\ Settle(pending)
    /\ UNCHANGED <<settingVars, instance, inbound, routeVars, requests, cooling, polls, shutdown>>

\* nonIdleSessionIds of the engine to be drained: none when it does not answer.
ListSessions ==
    /\ rollover.phase = "listing"
    /\ \E listed \in {RunsOf(rollover.primary), {}} :
        Goto([rollover EXCEPT !.phase = "pinning", !.sessions = listed])
    /\ UNCHANGED <<settingVars, engine, instance, sessionVars, routeVars, requests, cooling,
                   polls, shutdown>>

\* pendingRequestIds: sessions that wait for the user belong to the engine they wait in.
ListRequests ==
    /\ rollover.phase = "pinning"
    /\ \E waiting \in SUBSET RunsOf(rollover.primary) :
        owner' = [s \in Sessions |-> IF s \in waiting THEN rollover.primary ELSE owner[s]]
    /\ Goto([rollover EXCEPT !.phase = "flipping"])
    /\ UNCHANGED <<settingVars, engine, instance, sessionVars, active, requests, cooling,
                   polls, shutdown>>

\* flip and startDrainMonitor, without an await; postRefreshSync makes the new engine
\* build its instances.
Flip ==
    /\ rollover.phase = "flipping"
    /\ LET old == rollover.primary
           new == rollover.next
       IN /\ engine' = [g \in Engines |->
                CASE g = new -> [engine[g] EXCEPT !.status = "primary"]
                  [] g = old -> [engine[g] EXCEPT !.status = "draining", !.overdue = FALSE]
                  [] OTHER   -> engine[g]]
          /\ IF old = NoEngine THEN UNCHANGED routeVars
             ELSE /\ active' = [active EXCEPT ![old] = rollover.sessions]
                  /\ owner' = [s \in Sessions |->
                                  IF s \in rollover.sessions THEN old ELSE owner[s]]
    /\ instance' = [w \in Workspaces |-> disk]
    /\ Settle(pending)
    /\ UNCHANGED <<settingVars, sessionVars, requests, cooling, polls, shutdown>>

-----------------------------------------------------------------------------
(* The drain.                                                              *)

\* A tick of the drain monitor: what the engine answers, or nothing.
Poll(g) ==
    /\ engine[g].status = "draining"
    /\ Cardinality(polls) < MaxPolls
    /\ \E answer \in {running[g], {}} :
        polls' = polls \cup {[engine |-> g, phase |-> "asked", sessions |-> answer]}
    /\ UNCHANGED <<settingVars, engine, instance, sessionVars, routeVars, requestVars, shutdown>>

\* updateActiveSessions, also of a generation that was closed in the meantime.
Know(g, known) ==
    /\ active' = [active EXCEPT ![g] = known]
    /\ owner' = [s \in Sessions |-> IF s \in known THEN g
                                    ELSE IF owner[s] = g THEN NoEngine ELSE owner[s]]

\* retire: the process is closed, and the sessions that run in it end.
Close(g) ==
    IF engine[g].status = "dead" THEN UNCHANGED <<engine, running>>
    ELSE /\ engine' = [engine EXCEPT ![g] = Dead(g)]
         /\ running' = [running EXCEPT ![g] = {}]

\* Mutant of DrainExpired: the deadline is never looked at.
DrainUnlimited(g) == FALSE

DrainExpired(g) == engine[g].overdue

\* The answer of a tick is used: nothing runs, or the deadline has passed, or the next
\* tick will see.
PollAnswered(x) ==
    /\ x.phase = "asked"
    /\ Know(x.engine, x.sessions)
    /\ IF x.sessions = {} THEN Close(x.engine) ELSE UNCHANGED <<engine, running>>
    /\ polls' = (polls \ {x}) \cup
                    IF x.sessions # {} /\ DrainExpired(x.engine)
                    THEN {[x EXCEPT !.phase = "aborting"]} ELSE {}
    /\ UNCHANGED <<settingVars, instance, inbound, requestVars, shutdown>>

\* abortSession, which may fail or not stop the session.
AbortSession(x) ==
    /\ x.phase = "aborting"
    /\ \E s \in x.sessions :
        /\ running' \in {running, [running EXCEPT ![x.engine] = @ \ {s}]}
        /\ polls' = (polls \ {x}) \cup {[x EXCEPT !.sessions = @ \ {s}]}
    /\ UNCHANGED <<settingVars, engine, instance, inbound, routeVars, requestVars, shutdown>>

\* The aborted sessions had their time to unwind.
RetireForced(x) ==
    /\ x.phase = "aborting"
    /\ x.sessions = {}
    /\ Close(x.engine)
    /\ IF engine[x.engine].status = "dead" THEN UNCHANGED routeVars ELSE Know(x.engine, {})
    /\ polls' = polls \ {x}
    /\ UNCHANGED <<settingVars, instance, inbound, requestVars, shutdown>>

-----------------------------------------------------------------------------
(* The server stops.                                                       *)

DisposeAll ==
    /\ ~shutdown.called
    /\ shutdown' = [called |-> TRUE,
                    closing |-> InRole("starting") \cup InRole("primary") \cup InRole("draining")]
    /\ pending' = NoWorkspace
    /\ UNCHANGED <<settingVars, engine, instance, sessionVars, routeVars, rollover, requests,
                   cooling, polls>>

\* One after the other, those that drain first.
CloseNext(g) ==
    /\ g \in shutdown.closing
    /\ engine[g].status = "draining" \/ shutdown.closing \cap InRole("draining") = {}
    /\ Close(g)
    /\ IF engine[g].status = "dead" THEN UNCHANGED routeVars ELSE Know(g, {})
    /\ shutdown' = [shutdown EXCEPT !.closing = @ \ {g}]
    /\ UNCHANGED <<settingVars, instance, inbound, requestVars, polls>>

-----------------------------------------------------------------------------
RolloverStep ==
    \/ WriteRuntimeConfig \/ ReadFingerprint \/ ProbeBusy \/ ReloadInPlace
    \/ Spawn \/ CheckHealth \/ ListSessions \/ ListRequests \/ Flip

AbortNext(g) == \E x \in polls : x.engine = g /\ AbortSession(x)
RetireNext(g) == \E x \in polls : x.engine = g /\ RetireForced(x)

Next ==
    \/ SaveSettings \/ RefreshFile \/ SpawnIntervalPasses \/ DisposeAll \/ RolloverStep
    \/ \E w \in Workspaces : RequestRollover(w)
    \/ \E s \in Sessions : Prompt(s) \/ \E g \in Engines : Arrive(s, g) \/ FinishSession(s, g)
    \/ \E g \in Engines : Crash(g) \/ DeadlinePasses(g) \/ Poll(g) \/ CloseNext(g)
                           \/ AbortNext(g) \/ RetireNext(g)
    \/ \E x \in polls : PollAnswered(x)

Spec == Init /\ [][Next]_vars

\* Every call the pool waits for has a timeout, and its timers fire: a request, a
\* tick and a shutdown go on, and the deadlines pass.  Sessions need not end.
Fairness ==
    /\ WF_vars(RolloverStep)
    /\ WF_vars(SpawnIntervalPasses)
    /\ WF_vars(\E x \in polls : PollAnswered(x))
    /\ \A g \in Engines :
        /\ WF_vars(DeadlinePasses(g)) /\ WF_vars(Poll(g))
        /\ WF_vars(AbortNext(g)) /\ WF_vars(RetireNext(g))
    /\ WF_vars(\E g \in Engines : CloseNext(g))

FairSpec == Spec /\ Fairness

-----------------------------------------------------------------------------
(* Properties.                                                             *)

\* Until the server stops one engine is the primary and at most one more process is
\* kept, a standby or a draining one (the head of engine-pool.ts): requests, drains
\* and failures in any order never stack a third one.
OnePrimaryOneOther ==
    ~shutdown.called =>
        /\ \E g \in Engines : InRole("primary") = {g}
        /\ \A g, h \in InRole("starting") \cup InRole("draining") : g = h

\* A drain ends although its sessions may run for ever, the engine may fail to answer
\* and aborts may fail: the deadline bounds it.
DrainEnds == \A g \in Engines : engine[g].status = "draining" ~> engine[g].status # "draining"

\* Requests do not chase each other for ever: once no more of them come in, the last
\* one is done, although a drain or the spawn interval held it up.
RequestsSettle == rollover.phase # "none" ~> rollover.phase = "none"

\* engine-pool.ts of disposeAll: "Close every engine this pool owns."  When it has
\* closed what it found and the request in flight is done, no engine lives.  A
\* request that spawns meanwhile leaves its standby, as the primary of a pool that
\* is gone.
NoneOutlivesShutdown ==
    shutdown.called /\ shutdown.closing = {} /\ rollover.phase = "none"
        => \A g \in Engines : ~engine[g].alive

=============================================================================
