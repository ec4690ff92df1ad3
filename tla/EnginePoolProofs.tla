-------------------------- MODULE EnginePoolProofs --------------------------
(***************************************************************************)
(* Theorems about EnginePool, for any number of engines, sessions and      *)
(* concurrent polls: types, and the engines the pool keeps.                *)
(*                                                                         *)
(* The pool checks once, before it spawns, that nothing drains, and relies *)
(* on it until the flip, several awaits later.  The invariant says what    *)
(* the request in flight may rely on in each of its phases.                *)
(***************************************************************************)
EXTENDS EnginePool, TLAPS

\* The phases in which the request holds the primary it is about to replace, has
\* made sure that nothing drains, and holds a standby.
HoldsPrimary == {"probing", "reloading", "spawning", "checking", "listing", "pinning", "flipping"}
NothingDrains == {"spawning", "checking", "listing", "pinning", "flipping"}
HoldsStandby == {"checking", "listing", "pinning", "flipping"}

\* The one primary, and what the request in flight knows of it.
PrimaryOK ==
    /\ \E g \in Engines : InRole("primary") = {g}
    /\ rollover.phase \in HoldsPrimary => InRole("primary") = {rollover.primary}

\* A standby belongs to the request in flight.
StandbyOK ==
    InRole("starting") = IF rollover.phase \in HoldsStandby THEN {rollover.next} ELSE {}

DrainOK ==
    /\ \A g, h \in InRole("draining") : g = h
    /\ rollover.phase \in NothingDrains => InRole("draining") = {}

\* Whoever is asked for its sessions has been demoted.
PollsOK == \A x \in polls : engine[x.engine].status \in {"draining", "dead"}

Roles == PrimaryOK /\ StandbyOK /\ DrainOK /\ PollsOK

\* No engine is closed for a shutdown that has not begun.
ClosingOK == shutdown.called \/ shutdown.closing = {}

IInv == TypeOK /\ ClosingOK /\ (shutdown.called \/ Roles)

-----------------------------------------------------------------------------
\* An engine that died is a well-formed one.
LEMMA DeadIsGeneration ==
    ASSUME TypeOK, NEW g \in Engines
    PROVE  Dead(g) \in Generations /\ Dead(g).status = "dead"
  BY DEF TypeOK, Generations, Dead, Statuses

\* After `finally` a request starts from the beginning, or there is none.
LEMMA SettleFacts ==
    ASSUME NEW w \in Workspaces \cup {NoWorkspace}, Settle(w)
    PROVE  /\ rollover' \in Rollovers
           /\ pending' \in Workspaces \cup {NoWorkspace}
           /\ rollover'.phase \in {"none", "writing"}
  BY DEF Settle, NoRequest, Request, Rollovers, RolloverPhases

\* A request goes on with one more thing it has learned.
LEMMA LearnedIsTyped ==
    ASSUME NEW x \in Rollovers, NEW phase \in RolloverPhases,
           NEW read \in Configs, NEW g \in Engines \cup {NoEngine},
           NEW listed \in SUBSET Sessions
    PROVE  /\ [x EXCEPT !.phase = phase] \in Rollovers
           /\ [x EXCEPT !.phase = phase, !.fingerprint = read, !.primary = g] \in Rollovers
           /\ [x EXCEPT !.phase = phase, !.next = g] \in Rollovers
           /\ [x EXCEPT !.phase = phase, !.sessions = listed] \in Rollovers
  BY DEF Rollovers

\* The phases a rollover passes through.
LEMMA PhasesAreTyped ==
    {"reading", "probing", "reloading", "spawning", "checking", "listing", "pinning",
     "flipping"} \subseteq RolloverPhases
  BY DEF RolloverPhases

\* Sessions learned of an engine keep the types.
LEMMA KnowIsTyped ==
    ASSUME TypeOK, NEW g \in Engines, NEW known \in SUBSET Sessions, Know(g, known)
    PROVE  /\ owner' \in [Sessions -> Engines \cup {NoEngine}]
           /\ active' \in [Engines -> SUBSET Sessions]
  BY DEF TypeOK, Know

\* retire leaves every other generation alone.
LEMMA CloseFacts ==
    ASSUME TypeOK, NEW g \in Engines, Close(g)
    PROVE  /\ engine' \in [Engines -> Generations]
           /\ running' \in [Engines -> SUBSET Sessions]
           /\ engine'[g].status = "dead"
           /\ \A h \in Engines \ {g} : engine'[h] = engine[h]
  BY DeadIsGeneration DEF TypeOK, Close

\* A fresh engine is one of the unused.
LEMMA FreshIsMember ==
    ASSUME NEW S, S # {} PROVE Fresh(S) \in S
  BY DEF Fresh

\* The primary is an engine or none.
LEMMA PrimaryIsEngine == Primary \in Engines \cup {NoEngine}
  BY DEF Primary, InRole

-----------------------------------------------------------------------------
(* Types.                                                                  *)

LEMMA TypeInit == Init => TypeOK
  <1> SUFFICES ASSUME Init PROVE TypeOK
    OBVIOUS
  <1>1. Fresh(Engines) \in Engines
    BY FreshIsMember, PoolAssumption
  <1>2. engine \in [Engines -> Generations]
    BY <1>1 DEF Init, Unborn, Generations, Statuses
  <1>3. rollover \in Rollovers
    BY DEF Init, NoRequest, Request, Rollovers, RolloverPhases
  <1> QED
    BY <1>2, <1>3, PoolAssumption DEF Init, TypeOK

\* The steps of a rollover keep the types.
LEMMA TypeRollover ==
    ASSUME TypeOK, RolloverStep PROVE TypeOK'
  <1> USE DEF TypeOK
  <1>0. /\ pending \in Workspaces \cup {NoWorkspace}
        /\ rollover \in Rollovers
    OBVIOUS
  <1>1. CASE WriteRuntimeConfig
    BY <1>1 DEF WriteRuntimeConfig, Goto, Rollovers, RolloverPhases, routeVars, sessionVars
  <1>2. CASE ReadFingerprint
    <2>1. [rollover EXCEPT !.phase = "probing", !.fingerprint = disk, !.primary = Primary]
            \in Rollovers
      BY PrimaryIsEngine, LearnedIsTyped, PhasesAreTyped
    <2>2. rollover' \in Rollovers /\ pending' \in Workspaces \cup {NoWorkspace}
      <3>1. CASE Settle(pending)
        BY <3>1, SettleFacts
      <3>2. CASE ~Settle(pending)
        BY <1>2, <2>1, <3>2 DEF ReadFingerprint, Goto
      <3> QED
        BY <3>1, <3>2
    <2> QED
      BY <1>2, <2>2 DEF ReadFingerprint, settingVars, sessionVars, routeVars
  <1>3. CASE ProbeBusy
    <2>1. /\ rollover' \in Rollovers /\ pending' \in Workspaces \cup {NoWorkspace}
          /\ cooling' \in BOOLEAN
      <3>1. rollover.workspace \in Workspaces \cup {NoWorkspace}
        BY DEF Rollovers
      <3> QED
        BY <1>3, <3>1, SettleFacts DEF ProbeBusy, Goto, Rollovers, RolloverPhases
    <2> QED
      BY <1>3, <2>1 DEF ProbeBusy, settingVars, sessionVars, routeVars
  <1>4. CASE ReloadInPlace
    <2>1. rollover' \in Rollovers /\ pending' \in Workspaces \cup {NoWorkspace}
      BY <1>4, SettleFacts DEF ReloadInPlace
    <2>2. /\ instance' \in [Workspaces -> Configs]
          /\ engine' \in [Engines -> Generations]
      BY <1>4 DEF ReloadInPlace, Rollovers, Generations, Answers
    <2> QED
      BY <1>4, <2>1, <2>2 DEF ReloadInPlace, settingVars, sessionVars, routeVars
  <1>5. CASE Spawn
    <2>1. CASE Settle(pending) /\ UNCHANGED engine
      BY <1>5, <2>1, SettleFacts DEF Spawn, settingVars, sessionVars, routeVars
    <2>2. CASE ~(Settle(pending) /\ UNCHANGED engine)
      <3>1. Fresh(InRole("unborn")) \in Engines
        BY <1>5, <2>2, FreshIsMember DEF Spawn, InRole
      <3>2. [status |-> "starting", alive |-> TRUE, overdue |-> FALSE,
             fingerprint |-> rollover.fingerprint] \in Generations
        BY DEF Rollovers, Generations, Statuses
      <3>3. [rollover EXCEPT !.phase = "checking", !.next = Fresh(InRole("unborn"))]
              \in Rollovers
        BY <3>1, LearnedIsTyped, PhasesAreTyped
      <3>4. engine' \in [Engines -> Generations]
        BY <1>5, <2>2, <3>1, <3>2 DEF Spawn
      <3>5. rollover' \in Rollovers /\ pending' = pending
        BY <1>5, <2>2, <3>3 DEF Spawn, Goto
      <3> QED
        BY <1>5, <3>4, <3>5 DEF Spawn, settingVars, sessionVars, routeVars
    <2> QED
      BY <2>1, <2>2
  <1>6. CASE CheckHealth
    <2>1. CASE UNCHANGED <<engine, running>> /\ Goto([rollover EXCEPT !.phase = "listing"])
      BY <1>6, <2>1
         DEF CheckHealth, Goto, Rollovers, RolloverPhases, settingVars, routeVars
    <2>2. CASE /\ engine' = [engine EXCEPT ![rollover.next] = Dead(rollover.next)]
               /\ running' = [running EXCEPT ![rollover.next] = {}]
               /\ Settle(pending)
      <3>1. engine' \in [Engines -> Generations] /\ running' \in [Engines -> SUBSET Sessions]
        BY <2>2, DeadIsGeneration
      <3> QED
        BY <1>6, <2>2, <3>1, SettleFacts DEF CheckHealth, settingVars, routeVars
    <2> QED
      BY <1>6, <2>1, <2>2 DEF CheckHealth
  <1>7. CASE ListSessions
    <2>1. RunsOf(rollover.primary) \in SUBSET Sessions
      BY DEF RunsOf, Rollovers
    <2>2. \A listed \in {RunsOf(rollover.primary), {}} :
            [rollover EXCEPT !.phase = "pinning", !.sessions = listed] \in Rollovers
      BY <2>1, LearnedIsTyped, PhasesAreTyped
    <2>3. rollover' \in Rollovers /\ pending' = pending
      BY <1>7, <2>2 DEF ListSessions, Goto
    <2> QED
      BY <1>7, <2>3 DEF ListSessions, settingVars, sessionVars, routeVars
  <1>8. CASE ListRequests
    <2>1. owner' \in [Sessions -> Engines \cup {NoEngine}]
      BY <1>8 DEF ListRequests, Rollovers
    <2> QED
      BY <1>8, <2>1
         DEF ListRequests, Goto, Rollovers, RolloverPhases, settingVars, sessionVars
  <1>9. CASE Flip
    <2>1. engine' \in [Engines -> Generations]
      <3>1. \A x \in Generations :
                /\ [x EXCEPT !.status = "primary"] \in Generations
                /\ [x EXCEPT !.status = "draining", !.overdue = FALSE] \in Generations
        BY DEF Generations, Statuses
      <3>2. \A g \in Engines : engine[g] \in Generations
        OBVIOUS
      <3> QED
        BY <1>9, <3>1, <3>2 DEF Flip
    <2>2. /\ owner' \in [Sessions -> Engines \cup {NoEngine}]
          /\ active' \in [Engines -> SUBSET Sessions]
          /\ instance' \in [Workspaces -> Configs]
      BY <1>9 DEF Flip, Rollovers, routeVars
    <2> QED
      BY <1>9, <2>1, <2>2, SettleFacts DEF Flip, settingVars, sessionVars
  <1> QED
    BY <1>1, <1>2, <1>3, <1>4, <1>5, <1>6, <1>7, <1>8, <1>9 DEF RolloverStep

\* A prompt needs a primary to go to.
LEMMA TypePrompt ==
    ASSUME TypeOK, shutdown.called \/ PrimaryOK, NEW s \in Sessions, Prompt(s)
    PROVE  TypeOK'
  <1>1. Primary \in Engines
    <2>1. InRole("primary") # {} /\ InRole("primary") \subseteq Engines
      BY DEF Prompt, PrimaryOK, InRole
    <2> QED
      BY <2>1 DEF Primary
  <1>2. inbound' \subseteq Sessions \X Engines
    BY <1>1 DEF Prompt, TypeOK
  <1>3. owner' \in [Sessions -> Engines \cup {NoEngine}]
    BY DEF Prompt, TypeOK
  <1> QED
    BY <1>2, <1>3 DEF Prompt, TypeOK, settingVars, requestVars

\* The steps of a drain keep the types.
LEMMA TypeDrain ==
    ASSUME TypeOK,
           \/ \E g \in Engines : DeadlinePasses(g) \/ Poll(g) \/ AbortNext(g) \/ RetireNext(g)
           \/ \E x \in polls : PollAnswered(x)
    PROVE  TypeOK'
  <1>1. ASSUME NEW g \in Engines, DeadlinePasses(g) PROVE TypeOK'
    <2>1. engine' \in [Engines -> Generations]
      BY <1>1 DEF DeadlinePasses, TypeOK, Generations
    <2> QED
      BY <1>1, <2>1
         DEF DeadlinePasses, TypeOK, settingVars, sessionVars, routeVars, requestVars
  <1>2. ASSUME NEW g \in Engines, Poll(g) PROVE TypeOK'
    <2>1. polls' \subseteq Polls
      BY <1>2 DEF Poll, TypeOK, Polls
    <2> QED
      BY <1>2, <2>1 DEF Poll, TypeOK, settingVars, sessionVars, routeVars, requestVars
  <1>3. ASSUME NEW x \in polls, PollAnswered(x) PROVE TypeOK'
    <2>1. /\ x \in Polls
          /\ x.engine \in Engines
          /\ x.sessions \in SUBSET Sessions
      BY DEF TypeOK, Polls
    <2>2. polls' \subseteq Polls
      BY <1>3, <2>1 DEF PollAnswered, TypeOK, Polls
    <2>3. /\ owner' \in [Sessions -> Engines \cup {NoEngine}]
          /\ active' \in [Engines -> SUBSET Sessions]
      BY <1>3, <2>1, KnowIsTyped DEF PollAnswered
    <2>4. /\ engine' \in [Engines -> Generations]
          /\ running' \in [Engines -> SUBSET Sessions]
      BY <1>3, <2>1, CloseFacts DEF PollAnswered, TypeOK
    <2> QED
      BY <1>3, <2>2, <2>3, <2>4 DEF PollAnswered, TypeOK, settingVars, requestVars
  <1>4. ASSUME NEW x \in polls, AbortSession(x) PROVE TypeOK'
    <2>1. /\ x \in Polls
          /\ x.engine \in Engines
      BY DEF TypeOK, Polls
    <2>2. polls' \subseteq Polls
      BY <1>4, <2>1 DEF AbortSession, TypeOK, Polls
    <2>3. running' \in [Engines -> SUBSET Sessions]
      BY <1>4, <2>1 DEF AbortSession, TypeOK
    <2> QED
      BY <1>4, <2>2, <2>3 DEF AbortSession, TypeOK, settingVars, requestVars, routeVars
  <1>5. ASSUME NEW x \in polls, RetireForced(x) PROVE TypeOK'
    <2>1. x.engine \in Engines
      BY DEF TypeOK, Polls
    <2>2. /\ owner' \in [Sessions -> Engines \cup {NoEngine}]
          /\ active' \in [Engines -> SUBSET Sessions]
      BY <1>5, <2>1, KnowIsTyped DEF RetireForced, TypeOK, routeVars
    <2>3. /\ engine' \in [Engines -> Generations]
          /\ running' \in [Engines -> SUBSET Sessions]
      BY <1>5, <2>1, CloseFacts DEF RetireForced
    <2> QED
      BY <1>5, <2>2, <2>3 DEF RetireForced, TypeOK, settingVars, requestVars
  <1> QED
    BY <1>1, <1>2, <1>3, <1>4, <1>5 DEF AbortNext, RetireNext

\* The steps of the shutdown keep the types.
LEMMA TypeShutdown ==
    ASSUME TypeOK, DisposeAll \/ \E g \in Engines : CloseNext(g)
    PROVE  TypeOK'
  <1>1. CASE DisposeAll
    BY <1>1 DEF DisposeAll, TypeOK, InRole, settingVars, sessionVars, routeVars
  <1>2. ASSUME NEW g \in Engines, CloseNext(g) PROVE TypeOK'
    <2>1. /\ owner' \in [Sessions -> Engines \cup {NoEngine}]
          /\ active' \in [Engines -> SUBSET Sessions]
      BY <1>2, KnowIsTyped DEF CloseNext, TypeOK, routeVars
    <2>2. /\ engine' \in [Engines -> Generations]
          /\ running' \in [Engines -> SUBSET Sessions]
      BY <1>2, CloseFacts DEF CloseNext
    <2>3. shutdown' \in [called : BOOLEAN, closing : SUBSET Engines]
      BY <1>2 DEF CloseNext, TypeOK
    <2> QED
      BY <1>2, <2>1, <2>2, <2>3 DEF CloseNext, TypeOK, settingVars, requestVars
  <1> QED
    BY <1>1, <1>2

\* Every other step keeps the types.
LEMMA TypeOther ==
    ASSUME TypeOK,
           \/ SaveSettings \/ RefreshFile \/ SpawnIntervalPasses
           \/ \E w \in Workspaces : RequestRollover(w)
           \/ \E s \in Sessions, g \in Engines : Arrive(s, g) \/ FinishSession(s, g)
           \/ \E g \in Engines : Crash(g)
    PROVE  TypeOK'
  <1> USE DEF settingVars, sessionVars, routeVars, requestVars
  <1>1. CASE SaveSettings
    BY <1>1, PoolAssumption DEF SaveSettings, TypeOK
  <1>2. CASE RefreshFile
    BY <1>2 DEF RefreshFile, TypeOK
  <1>3. CASE SpawnIntervalPasses
    BY <1>3 DEF SpawnIntervalPasses, TypeOK
  <1>4. ASSUME NEW w \in Workspaces, RequestRollover(w) PROVE TypeOK'
    <2>1. Request("writing", w) \in Rollovers
      BY DEF Request, Rollovers, RolloverPhases
    <2>2. rollover' \in Rollovers /\ pending' \in Workspaces \cup {NoWorkspace}
      BY <1>4, <2>1 DEF RequestRollover, TypeOK
    <2>3. requests' \in 0..MaxRequests
      BY <1>4, PoolAssumption DEF RequestRollover, TypeOK
    <2> QED
      BY <1>4, <2>2, <2>3 DEF RequestRollover, TypeOK
  <1>5. ASSUME NEW s \in Sessions, NEW g \in Engines, Arrive(s, g) PROVE TypeOK'
    BY <1>5 DEF Arrive, TypeOK
  <1>6. ASSUME NEW s \in Sessions, NEW g \in Engines, FinishSession(s, g) PROVE TypeOK'
    BY <1>6 DEF FinishSession, TypeOK
  <1>7. ASSUME NEW g \in Engines, Crash(g) PROVE TypeOK'
    <2>1. engine' \in [Engines -> Generations]
      <3>1. engine[g] \in Generations
        BY DEF TypeOK
      <3>2. [engine[g] EXCEPT !.alive = FALSE] \in Generations
        BY <3>1 DEF Generations
      <3> QED
        BY <1>7, <3>2 DEF Crash, TypeOK
    <2> QED
      BY <1>7, <2>1 DEF Crash, TypeOK
  <1> QED
    BY <1>1, <1>2, <1>3, <1>4, <1>5, <1>6, <1>7

-----------------------------------------------------------------------------
(* Roles.                                                                  *)

\* A step changes no role, but that it may close an engine that was demoted; and it
\* asks nobody for sessions who has not been.
LEMMA RolesKept ==
    ASSUME TypeOK', Roles, rollover' = rollover,
           \A g \in Engines :
               \/ engine'[g].status = engine[g].status
               \/ engine[g].status \in {"draining", "dead"} /\ engine'[g].status = "dead",
           \A x \in polls' : \/ \E y \in polls : y.engine = x.engine
                             \/ engine[x.engine].status = "draining"
    PROVE  Roles'
  <1>1. /\ InRole("primary")' = InRole("primary")
        /\ InRole("starting")' = InRole("starting")
        /\ InRole("draining")' \subseteq InRole("draining")
    BY DEF InRole
  <1>2. PollsOK'
    BY DEF PollsOK, Roles, TypeOK, Polls
  <1> QED
    BY <1>1, <1>2 DEF Roles, PrimaryOK, StandbyOK, DrainOK

\* The request in flight is over or starts again, and holds no standby.
LEMMA RolesSettled ==
    ASSUME TypeOK', Roles, polls' = polls,
           rollover.phase \notin HoldsStandby,
           rollover'.phase \in {"none", "writing", "reading"},
           \A g \in Engines : engine'[g].status = engine[g].status
    PROVE  Roles'
  <1>1. /\ InRole("primary")' = InRole("primary")
        /\ InRole("starting")' = InRole("starting")
        /\ InRole("draining")' = InRole("draining")
    BY DEF InRole
  <1>2. PollsOK'
    BY DEF PollsOK, Roles, TypeOK, Polls
  <1> QED
    BY <1>1, <1>2
       DEF Roles, PrimaryOK, StandbyOK, DrainOK, HoldsPrimary, HoldsStandby, NothingDrains

\* A rollover request keeps the roles of the engines.
LEMMA RolesRequested ==
    ASSUME TypeOK, TypeOK', Roles, NEW w \in Workspaces, RequestRollover(w)
    PROVE  Roles'
  <1>1. CASE rollover.phase = "none"
    BY <1>1, RolesSettled
       DEF RequestRollover, Request, HoldsStandby, settingVars
  <1>2. CASE rollover.phase # "none"
    BY <1>2, RolesKept DEF RequestRollover
  <1> QED
    BY <1>1, <1>2

\* The steps of a rollover keep the roles of the engines.
LEMMA RolesRollover ==
    ASSUME TypeOK, TypeOK', Roles, RolloverStep, pending \in Workspaces \cup {NoWorkspace}
    PROVE  Roles'
  <1>0. rollover \in Rollovers /\ rollover.workspace \in Workspaces \cup {NoWorkspace}
    BY DEF TypeOK, Rollovers
  <1>1. CASE WriteRuntimeConfig
    <2>1. rollover'.phase = "reading" /\ engine' = engine /\ polls' = polls
      BY <1>0, <1>1 DEF WriteRuntimeConfig, Goto, Rollovers
    <2> QED
      BY <1>1, <2>1, RolesSettled DEF WriteRuntimeConfig, HoldsStandby
  <1>2. CASE ReadFingerprint
    <2>1. CASE Settle(pending)
      BY <1>2, <2>1, SettleFacts, RolesSettled DEF ReadFingerprint, HoldsStandby
    <2>2. CASE ~Settle(pending)
      <3>1. rollover'.phase = "probing" /\ rollover'.primary = Primary
        BY <1>0, <1>2, <2>2 DEF ReadFingerprint, Goto, Rollovers
      <3>2. InRole("primary") = {Primary}
        BY DEF Roles, PrimaryOK, Primary
      <3>3. engine' = engine /\ polls' = polls /\ rollover.phase = "reading"
        BY <1>2 DEF ReadFingerprint
      <3> QED
        BY <3>1, <3>2, <3>3 DEF Roles, PrimaryOK, StandbyOK, DrainOK, PollsOK, InRole,
                                HoldsPrimary, HoldsStandby, NothingDrains
    <2> QED
      BY <2>1, <2>2
  <1>3. CASE ProbeBusy
    <2>0. engine' = engine /\ polls' = polls /\ rollover.phase = "probing"
      BY <1>3 DEF ProbeBusy
    <2>1. CASE Settle(rollover.workspace)
      BY <1>0, <2>0, <2>1, SettleFacts, RolesSettled DEF HoldsStandby
    <2>2. CASE Goto([rollover EXCEPT !.phase = "reloading"])
      <3>1. rollover'.phase = "reloading" /\ rollover'.primary = rollover.primary
        BY <1>0, <2>2 DEF Goto, Rollovers
      <3> QED
        BY <2>0, <3>1 DEF Roles, PrimaryOK, StandbyOK, DrainOK, PollsOK, InRole,
                          HoldsPrimary, HoldsStandby, NothingDrains
    <2>3. CASE ~MustWait /\ Goto([rollover EXCEPT !.phase = "spawning"])
      <3>1. rollover'.phase = "spawning" /\ rollover'.primary = rollover.primary
        BY <1>0, <2>3 DEF Goto, Rollovers
      <3>2. InRole("draining") = {}
        BY <2>3 DEF MustWait
      <3> QED
        BY <2>0, <3>1, <3>2 DEF Roles, PrimaryOK, StandbyOK, DrainOK, PollsOK, InRole,
                                HoldsPrimary, HoldsStandby, NothingDrains
    <2> QED
      BY <1>3, <2>1, <2>2, <2>3 DEF ProbeBusy
  <1>4. CASE ReloadInPlace
    <2>1. \A g \in Engines : engine'[g].status = engine[g].status
      BY <1>4 DEF ReloadInPlace, TypeOK, Generations
    <2>2. Settle(pending) /\ polls' = polls /\ rollover.phase = "reloading"
      BY <1>4 DEF ReloadInPlace
    <2> QED
      BY <2>1, <2>2, SettleFacts, RolesSettled DEF HoldsStandby
  <1>5. CASE Spawn
    <2>0. polls' = polls /\ rollover.phase = "spawning"
      BY <1>5 DEF Spawn
    <2>1. CASE Settle(pending) /\ UNCHANGED engine
      BY <2>0, <2>1, SettleFacts, RolesSettled DEF HoldsStandby
    <2>2. CASE ~(Settle(pending) /\ UNCHANGED engine)
      <3> DEFINE f == Fresh(InRole("unborn"))
      <3>1. f \in Engines /\ engine[f].status = "unborn"
        <4>1. f \in InRole("unborn")
          BY <1>5, <2>2, FreshIsMember DEF Spawn
        <4> QED
          BY <4>1 DEF InRole
      <3>2. engine' = [engine EXCEPT ![f] =
                [status |-> "starting", alive |-> TRUE, overdue |-> FALSE,
                 fingerprint |-> rollover.fingerprint]]
        BY <1>5, <2>2 DEF Spawn
      <3>3. /\ rollover'.phase = "checking"
            /\ rollover'.primary = rollover.primary
            /\ rollover'.next = f
        <4>1. rollover' = [rollover EXCEPT !.phase = "checking", !.next = f]
          BY <1>5, <2>2 DEF Spawn, Goto
        <4> HIDE DEF f
        <4> QED
          BY <1>0, <4>1 DEF Rollovers
      <3> HIDE DEF f
      <3>4. /\ engine'[f].status = "starting"
            /\ \A g \in Engines \ {f} : engine'[g] = engine[g]
        BY <3>1, <3>2 DEF TypeOK
      <3>5. /\ InRole("primary")' = InRole("primary")
            /\ InRole("draining")' = InRole("draining")
            /\ InRole("starting")' = InRole("starting") \cup {f}
        BY <3>1, <3>4 DEF InRole
      <3>6. PollsOK'
        BY <2>0, <3>1, <3>4 DEF Roles, PollsOK, TypeOK, Polls
      <3> QED
        BY <2>0, <3>3, <3>5, <3>6 DEF Roles, PrimaryOK, StandbyOK, DrainOK,
                                      HoldsPrimary, HoldsStandby, NothingDrains
    <2> QED
      BY <2>1, <2>2
  <1>6. CASE CheckHealth
    <2>0. /\ polls' = polls
          /\ rollover.phase = "checking"
          /\ rollover.next \in Engines /\ engine[rollover.next].status = "starting"
      <3>1. InRole("starting") = {rollover.next}
        BY <1>6 DEF CheckHealth, Roles, StandbyOK, HoldsStandby
      <3> QED
        BY <1>6, <3>1 DEF CheckHealth, InRole
    <2>1. CASE UNCHANGED <<engine, running>> /\ Goto([rollover EXCEPT !.phase = "listing"])
      <3>1. /\ rollover'.phase = "listing"
            /\ rollover'.primary = rollover.primary
            /\ rollover'.next = rollover.next
        BY <1>0, <2>1 DEF Goto, Rollovers
      <3> QED
        BY <2>0, <2>1, <3>1 DEF Roles, PrimaryOK, StandbyOK, DrainOK, PollsOK, InRole,
                                HoldsPrimary, HoldsStandby, NothingDrains
    <2>2. CASE /\ engine' = [engine EXCEPT ![rollover.next] = Dead(rollover.next)]
               /\ Settle(pending)
      <3>1. /\ engine'[rollover.next].status = "dead"
            /\ \A g \in Engines \ {rollover.next} : engine'[g] = engine[g]
        BY <2>0, <2>2, DeadIsGeneration DEF TypeOK
      <3>2. /\ InRole("primary")' = InRole("primary")
            /\ InRole("draining")' = InRole("draining")
            /\ InRole("starting")' = InRole("starting") \ {rollover.next}
        BY <2>0, <3>1 DEF InRole
      <3>3. PollsOK'
        BY <2>0, <3>1 DEF Roles, PollsOK, TypeOK, Polls
      <3> QED
        BY <2>0, <2>2, <3>2, <3>3, SettleFacts
           DEF Roles, PrimaryOK, StandbyOK, DrainOK, HoldsPrimary, HoldsStandby, NothingDrains
    <2> QED
      BY <1>6, <2>1, <2>2 DEF CheckHealth
  <1>7. CASE ListSessions \/ ListRequests
    <2>1. /\ engine' = engine /\ polls' = polls
          /\ rollover.phase \in {"listing", "pinning"}
      BY <1>7 DEF ListSessions, ListRequests
    <2>2. /\ rollover'.phase \in {"pinning", "flipping"}
          /\ rollover'.primary = rollover.primary
          /\ rollover'.next = rollover.next
      BY <1>0, <1>7 DEF ListSessions, ListRequests, Goto, Rollovers
    <2> QED
      BY <2>1, <2>2 DEF Roles, PrimaryOK, StandbyOK, DrainOK, PollsOK, InRole,
                        HoldsPrimary, HoldsStandby, NothingDrains
  <1>8. CASE Flip
    <2> DEFINE old == rollover.primary
               new == rollover.next
    <2>0. polls' = polls /\ rollover.phase = "flipping" /\ Settle(pending)
      BY <1>8 DEF Flip
    <2>1. /\ InRole("primary") = {old} /\ InRole("starting") = {new}
          /\ InRole("draining") = {}
      BY <2>0 DEF Roles, PrimaryOK, StandbyOK, DrainOK, HoldsPrimary, HoldsStandby, NothingDrains
    <2>2. /\ old \in Engines /\ engine[old].status = "primary"
          /\ new \in Engines /\ engine[new].status = "starting"
      BY <2>1 DEF InRole
    <2>3. /\ engine'[new].status = "primary"
          /\ engine'[old].status = "draining"
          /\ \A g \in Engines \ {old, new} : engine'[g] = engine[g]
      BY <1>8, <2>2 DEF Flip, TypeOK, Generations
    <2> HIDE DEF old, new
    <2>4. /\ InRole("primary")' = {new}
          /\ InRole("starting")' = {}
          /\ InRole("draining")' = {old}
      BY <2>1, <2>2, <2>3 DEF InRole
    <2>5. PollsOK'
      BY <2>0, <2>2, <2>3 DEF Roles, PollsOK, TypeOK, Polls
    <2> QED
      BY <2>0, <2>2, <2>4, <2>5, SettleFacts
         DEF Roles, PrimaryOK, StandbyOK, DrainOK, HoldsPrimary, HoldsStandby, NothingDrains
  <1> QED
    BY <1>1, <1>2, <1>3, <1>4, <1>5, <1>6, <1>7, <1>8 DEF RolloverStep

\* The steps of a drain keep the roles of the engines.
LEMMA RolesDrain ==
    ASSUME TypeOK, TypeOK', Roles,
           \/ \E g \in Engines : DeadlinePasses(g) \/ Poll(g) \/ AbortNext(g) \/ RetireNext(g)
           \/ \E x \in polls : PollAnswered(x)
    PROVE  Roles'
  <1>0. \A x \in polls : /\ x.engine \in Engines
                         /\ engine[x.engine].status \in {"draining", "dead"}
    BY DEF TypeOK, Polls, Roles, PollsOK
  <1>1. ASSUME NEW g \in Engines, DeadlinePasses(g) PROVE Roles'
    <2>1. \A h \in Engines : engine'[h].status = engine[h].status
      BY <1>1 DEF DeadlinePasses, TypeOK, Generations
    <2> QED
      BY <1>1, <2>1, RolesKept DEF DeadlinePasses, requestVars
  <1>2. ASSUME NEW g \in Engines, Poll(g) PROVE Roles'
    BY <1>2, RolesKept DEF Poll, requestVars
  <1>3. ASSUME NEW x \in polls, PollAnswered(x) PROVE Roles'
    <2>1. \A h \in Engines : \/ engine'[h].status = engine[h].status
                             \/ h = x.engine /\ engine'[h].status = "dead"
      BY <1>0, <1>3, CloseFacts DEF PollAnswered
    <2>2. \A y \in polls' : \E z \in polls : z.engine = y.engine
      BY <1>3 DEF PollAnswered, TypeOK, Polls
    <2> QED
      BY <1>0, <1>3, <2>1, <2>2, RolesKept DEF PollAnswered, requestVars
  <1>4. ASSUME NEW x \in polls, AbortSession(x) PROVE Roles'
    <2>1. \A y \in polls' : \E z \in polls : z.engine = y.engine
      BY <1>4 DEF AbortSession, TypeOK, Polls
    <2> QED
      BY <1>4, <2>1, RolesKept DEF AbortSession, requestVars
  <1>5. ASSUME NEW x \in polls, RetireForced(x) PROVE Roles'
    <2>1. \A h \in Engines : \/ engine'[h].status = engine[h].status
                             \/ h = x.engine /\ engine'[h].status = "dead"
      BY <1>0, <1>5, CloseFacts DEF RetireForced
    <2>2. \A y \in polls' : \E z \in polls : z.engine = y.engine
      BY <1>5 DEF RetireForced
    <2> QED
      BY <1>0, <1>5, <2>1, <2>2, RolesKept DEF RetireForced, requestVars
  <1> QED
    BY <1>1, <1>2, <1>3, <1>4, <1>5 DEF AbortNext, RetireNext

\* Every other step before the shutdown keeps the roles of the engines.
LEMMA RolesOther ==
    ASSUME TypeOK, TypeOK', Roles,
           \/ SaveSettings \/ RefreshFile \/ SpawnIntervalPasses
           \/ \E s \in Sessions : Prompt(s) \/ \E g \in Engines : Arrive(s, g) \/ FinishSession(s, g)
           \/ \E g \in Engines : Crash(g)
    PROVE  Roles'
  <1>1. rollover' = rollover /\ polls' = polls
    BY DEF SaveSettings, RefreshFile, SpawnIntervalPasses, Prompt, Arrive, FinishSession, Crash,
           requestVars
  <1>2. \A h \in Engines : engine'[h].status = engine[h].status
    <2>1. CASE \E g \in Engines : Crash(g)
      BY <2>1 DEF Crash, TypeOK, Generations
    <2>2. CASE ~\E g \in Engines : Crash(g)
      BY <2>2 DEF SaveSettings, RefreshFile, SpawnIntervalPasses, Prompt, Arrive, FinishSession
    <2> QED
      BY <2>1, <2>2
  <1> QED
    BY <1>1, <1>2, RolesKept

-----------------------------------------------------------------------------
(* The invariant.                                                          *)

LEMMA Start == Init => IInv
  <1> SUFFICES ASSUME Init PROVE IInv
    OBVIOUS
  <1> DEFINE f == Fresh(Engines)
  <1>1. TypeOK
    BY TypeInit
  <1>2. f \in Engines
    BY FreshIsMember, PoolAssumption
  <1>3. /\ engine[f].status = "primary"
        /\ \A g \in Engines \ {f} : engine[g].status = "unborn"
    BY <1>2 DEF Init, Unborn
  <1> HIDE DEF f
  <1>4. /\ InRole("primary") = {f}
        /\ InRole("starting") = {}
        /\ InRole("draining") = {}
    BY <1>2, <1>3 DEF InRole
  <1>5. rollover.phase = "none" /\ polls = {}
    BY DEF Init, NoRequest, Request
  <1> QED
    BY <1>1, <1>2, <1>4, <1>5 DEF Init, IInv, ClosingOK, Roles, PrimaryOK, StandbyOK, DrainOK, PollsOK,
                                  HoldsPrimary, HoldsStandby, NothingDrains

\* A pool that was told to stop stays so, and until then closes nothing for it.
LEMMA ShutdownStep ==
    ASSUME TypeOK, Next, ClosingOK PROVE ClosingOK' /\ (shutdown.called => shutdown'.called)
  <1>1. CASE DisposeAll
    BY <1>1 DEF DisposeAll, ClosingOK
  <1>2. ASSUME NEW g \in Engines, CloseNext(g)
        PROVE  ClosingOK' /\ (shutdown.called => shutdown'.called)
    <2>1. shutdown.called
      BY <1>2 DEF CloseNext, ClosingOK
    <2>2. shutdown'.called = shutdown.called
      BY <1>2 DEF CloseNext, TypeOK
    <2> QED
      BY <2>1, <2>2 DEF ClosingOK
  <1>3. CASE RolloverStep
    <2>1. shutdown' = shutdown
      BY <1>3 DEF RolloverStep, WriteRuntimeConfig, ReadFingerprint, ProbeBusy, ReloadInPlace,
                  Spawn, CheckHealth, ListSessions, ListRequests, Flip
    <2> QED
      BY <2>1 DEF ClosingOK
  <1>4. CASE \/ \E g \in Engines : Crash(g) \/ DeadlinePasses(g) \/ Poll(g) \/ AbortNext(g)
                                     \/ RetireNext(g)
             \/ \E x \in polls : PollAnswered(x)
    <2>1. shutdown' = shutdown
      BY <1>4 DEF Crash, DeadlinePasses, Poll, AbortNext, RetireNext, AbortSession, RetireForced,
                  PollAnswered
    <2> QED
      BY <2>1 DEF ClosingOK
  <1>5. CASE \/ SaveSettings \/ RefreshFile \/ SpawnIntervalPasses
             \/ \E w \in Workspaces : RequestRollover(w)
             \/ \E s \in Sessions :
                    Prompt(s) \/ \E g \in Engines : Arrive(s, g) \/ FinishSession(s, g)
    <2>1. shutdown' = shutdown
      BY <1>5 DEF SaveSettings, RefreshFile, SpawnIntervalPasses, RequestRollover, Prompt, Arrive,
                  FinishSession
    <2> QED
      BY <2>1 DEF ClosingOK
  <1> QED
    BY <1>1, <1>2, <1>3, <1>4, <1>5 DEF Next

\* Every step keeps the invariant.
LEMMA Step == IInv /\ [Next]_vars => IInv'
  <1> SUFFICES ASSUME IInv, [Next]_vars PROVE IInv'
    OBVIOUS
  <1>0. TypeOK /\ ClosingOK /\ (shutdown.called \/ Roles)
    BY DEF IInv
  <1>1. CASE Next
    <2>1. TypeOK'
      BY <1>0, <1>1, TypePrompt, TypeDrain, TypeShutdown, TypeOther, TypeRollover
         DEF Next, Roles
    <2>2. ClosingOK' /\ (shutdown.called => shutdown'.called)
      BY <1>0, <1>1, ShutdownStep
    <2>3. CASE shutdown.called
      BY <2>1, <2>2, <2>3 DEF IInv
    <2>4. CASE ~shutdown.called
      <3>1. CASE DisposeAll
        BY <2>1, <2>2, <3>1 DEF IInv, DisposeAll
      <3>2. CASE ~DisposeAll
        <4>1. pending \in Workspaces \cup {NoWorkspace}
          BY <1>0 DEF TypeOK
        <4>2. ~\E g \in Engines : CloseNext(g)
          BY <1>0, <2>4 DEF CloseNext, ClosingOK
        <4>3. Roles'
          BY <1>0, <1>1, <2>1, <2>4, <3>2, <4>1, <4>2,
             RolesRequested, RolesRollover, RolesDrain, RolesOther DEF Next
        <4> QED
          BY <2>1, <2>2, <4>3 DEF IInv
      <3> QED
        BY <3>1, <3>2
    <2> QED
      BY <2>3, <2>4
  <1>2. CASE UNCHANGED vars
    BY <1>0, <1>2 DEF IInv, vars, ClosingOK, TypeOK, Roles, PrimaryOK, StandbyOK, DrainOK, PollsOK, InRole
  <1> QED
    BY <1>1, <1>2

\* What the request in flight, the drain and the polls rely on holds at every await,
\* until the pool is told to stop; the types hold beyond that.
THEOREM EnginePoolInvariant == Spec => []IInv
  BY Start, Step, PTL DEF Spec

\* No handler leaves a value of the wrong kind, whatever it learned several awaits ago.
THEOREM EnginePoolTypeCorrect == Spec => []TypeOK
  <1>1. IInv => TypeOK
    BY DEF IInv
  <1> QED
    BY <1>1, EnginePoolInvariant, PTL

-----------------------------------------------------------------------------
(* The shutdown.                                                           *)

\* What has no role has no process.
AliveOK == \A g \in Engines : engine[g].status \in {"unborn", "dead"} => ~engine[g].alive

\* Processes that live and that disposeAll will not close.
Outliving == {g \in Engines : engine[g].alive /\ g \notin shutdown.closing}

\* Once told to stop the pool parks no request, and a process it will not close is the
\* standby of the request that was in flight, or was when that request ended.
LeftOK ==
    shutdown.called =>
        /\ pending = NoWorkspace
        /\ \A g, h \in Outliving : g = h
        /\ rollover.phase \notin HoldsStandby \cup {"none"} => Outliving = {}
        /\ rollover.phase \in HoldsStandby => Outliving \subseteq {rollover.next}

\* A step that revives nobody, and closes what it takes from the list, adds no process
\* to those that outlive the shutdown.
LEMMA LeftKept ==
    ASSUME LeftOK, shutdown'.called => shutdown.called, Outliving' \subseteq Outliving,
           shutdown'.called => pending' = NoWorkspace,
           \/ rollover' = rollover
           \/ rollover'.phase = "none"
           \/ rollover.phase \notin HoldsStandby \cup {"none"}
           \/ /\ {rollover.phase, rollover'.phase} \subseteq HoldsStandby
              /\ rollover'.next = rollover.next
    PROVE  LeftOK'
  BY DEF LeftOK, HoldsStandby

\* After `finally` nothing is parked, and a pool that stops starts no request.
LEMMA SettledForGood ==
    ASSUME NEW w, w = NoWorkspace \/ ~shutdown.called, Settle(w), shutdown' = shutdown
    PROVE  /\ pending' = NoWorkspace
           /\ shutdown.called => rollover'.phase = "none"
  BY DEF Settle, NoRequest, Request

\* What retire does to processes.
LEMMA CloseKills ==
    ASSUME TypeOK, AliveOK, NEW g \in Engines, Close(g)
    PROVE  /\ ~engine'[g].alive
           /\ \A h \in Engines \ {g} : engine'[h] = engine[h]
           /\ AliveOK'
  <1>1. CASE engine[g].status = "dead"
    BY <1>1 DEF Close, AliveOK
  <1>2. CASE engine[g].status # "dead"
    BY <1>2 DEF Close, Dead, AliveOK, TypeOK, Generations
  <1> QED
    BY <1>1, <1>2

\* The shutdown itself.
LEMMA LeftShutdown ==
    ASSUME IInv, AliveOK, LeftOK, DisposeAll \/ \E g \in Engines : CloseNext(g)
    PROVE  AliveOK' /\ LeftOK'
  <1>0. TypeOK
    BY DEF IInv
  <1>1. CASE DisposeAll
    <2>1. \A g \in Engines : engine[g].alive => g \in shutdown'.closing
      BY <1>0, <1>1 DEF DisposeAll, AliveOK, InRole, TypeOK, Generations, Statuses
    <2>2. Outliving' = {}
      BY <1>1, <2>1 DEF DisposeAll, Outliving
    <2> QED
      BY <1>1, <2>2 DEF DisposeAll, AliveOK, LeftOK
  <1>2. ASSUME NEW g \in Engines, CloseNext(g) PROVE AliveOK' /\ LeftOK'
    <2>1. /\ ~engine'[g].alive
          /\ \A h \in Engines \ {g} : engine'[h] = engine[h]
          /\ AliveOK'
      BY <1>0, <1>2, CloseKills DEF CloseNext
    <2>2. shutdown'.called = shutdown.called /\ shutdown'.closing = shutdown.closing \ {g}
      BY <1>0, <1>2 DEF CloseNext, TypeOK
    <2>3. Outliving' \subseteq Outliving
      BY <2>1, <2>2 DEF Outliving
    <2>4. rollover' = rollover /\ pending' = pending
      BY <1>2 DEF CloseNext, requestVars
    <2>5. LeftOK'
      BY <2>2, <2>3, <2>4, LeftKept DEF LeftOK
    <2> QED
      BY <2>1, <2>5
  <1> QED
    BY <1>1, <1>2

\* The request in flight: it may bring one process after disposeAll made its list.
LEMMA LeftRollover ==
    ASSUME IInv, AliveOK, LeftOK, RolloverStep
    PROVE  AliveOK' /\ LeftOK'
  <1>0. TypeOK
    BY DEF IInv
  <1>1. shutdown' = shutdown
    BY DEF RolloverStep, WriteRuntimeConfig, ReadFingerprint, ProbeBusy, ReloadInPlace,
           Spawn, CheckHealth, ListSessions, ListRequests, Flip
  <1>2. ASSUME \A g \in Engines : engine'[g].alive => engine[g].alive
        PROVE  Outliving' \subseteq Outliving
    BY <1>1, <1>2 DEF Outliving
  <1>3. shutdown.called => pending = NoWorkspace
    BY DEF LeftOK
  <1>4. CASE WriteRuntimeConfig \/ ListSessions \/ ListRequests
    <2>1. engine' = engine /\ pending' = pending
      BY <1>4 DEF WriteRuntimeConfig, ListSessions, ListRequests, Goto
    <2>2. \/ rollover.phase \notin HoldsStandby \cup {"none"}
          \/ /\ {rollover.phase, rollover'.phase} \subseteq HoldsStandby
             /\ rollover'.next = rollover.next
      BY <1>0, <1>4
         DEF WriteRuntimeConfig, ListSessions, ListRequests, Goto, HoldsStandby, TypeOK, Rollovers
    <2> QED
      BY <1>1, <1>2, <1>3, <2>1, <2>2, LeftKept DEF AliveOK
  <1>5. CASE ReadFingerprint \/ ProbeBusy
    <2>1. engine' = engine /\ rollover.phase \notin HoldsStandby \cup {"none"}
      BY <1>5 DEF ReadFingerprint, ProbeBusy, HoldsStandby
    <2>2. shutdown'.called => pending' = NoWorkspace
      BY <1>1, <1>3, <1>5 DEF ReadFingerprint, ProbeBusy, Goto, Settle
    <2> QED
      BY <1>1, <1>2, <2>1, <2>2, LeftKept DEF AliveOK
  <1>6. CASE ReloadInPlace
    <2>1. \A g \in Engines : engine'[g].alive = engine[g].alive
                           /\ engine'[g].status = engine[g].status
      BY <1>0, <1>6 DEF ReloadInPlace, TypeOK, Generations
    <2>2. rollover.phase \notin HoldsStandby \cup {"none"} /\ pending' = NoWorkspace
      BY <1>6 DEF ReloadInPlace, HoldsStandby, Settle
    <2> QED
      BY <1>1, <1>2, <2>1, <2>2, LeftKept DEF AliveOK
  <1>7. CASE Spawn
    <2>1. CASE Settle(pending) /\ UNCHANGED engine
      <3>1. rollover.phase \notin HoldsStandby \cup {"none"} /\ pending' = NoWorkspace
        BY <1>7, <2>1 DEF Spawn, HoldsStandby, Settle
      <3> QED
        BY <1>1, <1>2, <2>1, <3>1, LeftKept DEF AliveOK
    <2>2. CASE ~(Settle(pending) /\ UNCHANGED engine)
      <3> DEFINE f == Fresh(InRole("unborn"))
      <3>1. f \in Engines
        BY <1>7, <2>2, FreshIsMember DEF Spawn, InRole
      <3>2. /\ engine' = [engine EXCEPT ![f] =
                    [status |-> "starting", alive |-> TRUE, overdue |-> FALSE,
                     fingerprint |-> rollover.fingerprint]]
            /\ rollover' = [rollover EXCEPT !.phase = "checking", !.next = f]
            /\ pending' = pending
            /\ rollover.phase = "spawning"
        BY <1>7, <2>2 DEF Spawn, Goto
      <3> HIDE DEF f
      <3>3. rollover'.phase = "checking" /\ rollover'.next = f
        BY <1>0, <3>2 DEF TypeOK, Rollovers
      <3>4. AliveOK'
        BY <1>0, <3>1, <3>2 DEF AliveOK, TypeOK
      <3>5. Outliving' \subseteq Outliving \cup {f}
        BY <1>0, <1>1, <3>1, <3>2 DEF Outliving, TypeOK
      <3>6. shutdown.called => Outliving = {}
        BY <3>2 DEF LeftOK, HoldsStandby
      <3> QED
        BY <1>1, <1>3, <3>2, <3>3, <3>4, <3>5, <3>6 DEF LeftOK, HoldsStandby
    <2> QED
      BY <2>1, <2>2
  <1>8. CASE CheckHealth
    <2>1. CASE rollover' = [rollover EXCEPT !.phase = "listing"] /\ pending' = pending
               /\ UNCHANGED engine
      <3>1. {rollover.phase, rollover'.phase} \subseteq HoldsStandby
            /\ rollover'.next = rollover.next
        BY <1>0, <1>8, <2>1 DEF CheckHealth, HoldsStandby, TypeOK, Rollovers
      <3> QED
        BY <1>1, <1>2, <1>3, <2>1, <3>1, LeftKept DEF AliveOK
    <2>2. CASE engine' = [engine EXCEPT ![rollover.next] = Dead(rollover.next)]
               /\ Settle(pending)
      <3>1. \A g \in Engines : \/ engine'[g] = engine[g]
                               \/ ~engine'[g].alive
        BY <1>0, <2>2 DEF Dead, TypeOK, Generations
      <3>2. AliveOK'
        BY <3>1 DEF AliveOK
      <3>3. Outliving' \subseteq Outliving
        BY <1>2, <3>1
      <3>4. pending' = NoWorkspace /\ (shutdown.called => rollover'.phase = "none")
        BY <1>1, <1>3, <2>2, SettledForGood DEF Settle
      <3>5. shutdown.called => LeftOK'
        BY <1>1, <3>3, <3>4, LeftKept
      <3> QED
        BY <1>1, <3>2, <3>5 DEF LeftOK
    <2> QED
      BY <1>8, <2>1, <2>2 DEF CheckHealth, Goto
  <1>9. CASE Flip
    <2>1. \A g \in Engines :
            /\ engine'[g].alive => engine[g].alive
            /\ engine'[g].status \in {"unborn", "dead"} => engine'[g].status = engine[g].status
      <3> DEFINE promoted(g) == [engine[g] EXCEPT !.status = "primary"]
                 demoted(g) == [engine[g] EXCEPT !.status = "draining", !.overdue = FALSE]
      <3>1. \A g \in Engines :
                /\ promoted(g).alive = engine[g].alive /\ promoted(g).status = "primary"
                /\ demoted(g).alive = engine[g].alive /\ demoted(g).status = "draining"
        BY <1>0 DEF TypeOK, Generations
      <3>2. \A g \in Engines : engine'[g] \in {engine[g], promoted(g), demoted(g)}
        BY <1>9 DEF Flip
      <3> HIDE DEF promoted, demoted
      <3> QED
        BY <3>1, <3>2
    <2>2. Settle(pending)
      BY <1>9 DEF Flip
    <2>3. AliveOK'
      BY <2>1 DEF AliveOK
    <2>4. Outliving' \subseteq Outliving
      BY <1>2, <2>1
    <2>5. pending' = NoWorkspace /\ (shutdown.called => rollover'.phase = "none")
      BY <1>1, <1>3, <2>2, SettledForGood DEF Settle
    <2>6. shutdown.called => LeftOK'
      BY <1>1, <2>4, <2>5, LeftKept
    <2> QED
      BY <1>1, <2>3, <2>6 DEF LeftOK
  <1> QED
    BY <1>4, <1>5, <1>6, <1>7, <1>8, <1>9 DEF RolloverStep

\* Every other step only ends processes.
LEMMA LeftOther ==
    ASSUME IInv, AliveOK, LeftOK, Next, ~RolloverStep, ~DisposeAll,
           \A g \in Engines : ~CloseNext(g)
    PROVE  AliveOK' /\ LeftOK'
  <1>0. TypeOK
    BY DEF IInv
  <1>1. ASSUME shutdown' = shutdown, AliveOK', rollover' = rollover, pending' = pending,
               \A g \in Engines : engine'[g].alive => engine[g].alive
        PROVE  AliveOK' /\ LeftOK'
    <2>1. Outliving' \subseteq Outliving
      BY <1>1 DEF Outliving
    <2> QED
      BY <1>1, <2>1, LeftKept DEF LeftOK
  <1>2. ASSUME NEW g \in Engines, Close(g), shutdown' = shutdown, UNCHANGED requestVars
        PROVE  AliveOK' /\ LeftOK'
    BY <1>0, <1>1, <1>2, CloseKills DEF requestVars
  <1>3. ASSUME UNCHANGED <<engine, shutdown, rollover, pending>> PROVE AliveOK' /\ LeftOK'
    BY <1>1, <1>3 DEF AliveOK
  <1>4. ASSUME NEW w \in Workspaces, RequestRollover(w) PROVE AliveOK' /\ LeftOK'
    BY <1>4 DEF RequestRollover, AliveOK, LeftOK
  <1>5. ASSUME NEW g \in Engines, Crash(g) PROVE AliveOK' /\ LeftOK'
    <2>1. \A h \in Engines : /\ engine'[h].alive => engine[h].alive
                            /\ engine'[h].status = engine[h].status
      BY <1>0, <1>5 DEF Crash, TypeOK, Generations
    <2> QED
      BY <1>1, <1>5, <2>1 DEF Crash, AliveOK, requestVars
  <1>6. ASSUME NEW g \in Engines, DeadlinePasses(g) PROVE AliveOK' /\ LeftOK'
    <2>1. \A h \in Engines : /\ engine'[h].alive = engine[h].alive
                            /\ engine'[h].status = engine[h].status
      BY <1>0, <1>6 DEF DeadlinePasses, TypeOK, Generations
    <2> QED
      BY <1>1, <1>6, <2>1 DEF DeadlinePasses, AliveOK, requestVars
  <1>7. ASSUME NEW x \in polls, PollAnswered(x) PROVE AliveOK' /\ LeftOK'
    <2>1. x.engine \in Engines
      BY <1>0 DEF TypeOK, Polls
    <2>2. CASE x.sessions = {}
      BY <1>2, <1>7, <2>1, <2>2 DEF PollAnswered
    <2>3. CASE x.sessions # {}
      BY <1>3, <1>7, <2>3 DEF PollAnswered, requestVars
    <2> QED
      BY <2>2, <2>3
  <1>8. ASSUME NEW x \in polls, RetireForced(x) PROVE AliveOK' /\ LeftOK'
    <2>1. x.engine \in Engines
      BY <1>0 DEF TypeOK, Polls
    <2> QED
      BY <1>2, <1>8, <2>1 DEF RetireForced
  <1>9. CASE \/ SaveSettings \/ RefreshFile \/ SpawnIntervalPasses
             \/ \E s \in Sessions :
                    Prompt(s) \/ \E g \in Engines : Arrive(s, g) \/ FinishSession(s, g)
             \/ \E g \in Engines : Poll(g) \/ AbortNext(g)
    BY <1>3, <1>9 DEF SaveSettings, RefreshFile, SpawnIntervalPasses, Prompt, Arrive,
                      FinishSession, Poll, AbortNext, AbortSession, requestVars
  <1> QED
    BY <1>4, <1>5, <1>6, <1>7, <1>8, <1>9 DEF Next, RetireNext

\* disposeAll closes what it finds and stops what is parked; the request in flight goes
\* on, and brings one process at most that nobody will close.
THEOREM OneOutlivesShutdown == Spec => [](AliveOK /\ LeftOK)
  <1>1. Init => AliveOK /\ LeftOK
    <2> SUFFICES ASSUME Init PROVE AliveOK /\ LeftOK
      OBVIOUS
    <2>1. Fresh(Engines) \in Engines
      BY FreshIsMember, PoolAssumption
    <2> QED
      BY <2>1 DEF Init, AliveOK, LeftOK, Unborn
  <1>2. IInv /\ AliveOK /\ LeftOK /\ [Next]_vars => (AliveOK /\ LeftOK)'
    <2> SUFFICES ASSUME IInv, AliveOK, LeftOK, [Next]_vars PROVE AliveOK' /\ LeftOK'
      OBVIOUS
    <2>1. CASE UNCHANGED vars
      BY <2>1 DEF vars, AliveOK, LeftOK, Outliving
    <2> QED
      BY <2>1, LeftShutdown, LeftRollover, LeftOther
  <1> QED
    BY <1>1, <1>2, EnginePoolInvariant, PTL DEF Spec

\* Whatever the order of requests, drains, crashes and answers: until shutdown there
\* is one primary, and at most one more process in its start or its drain.
THEOREM KeepsOnePrimary == Spec => []OnePrimaryOneOther
  <1>1. IInv => OnePrimaryOneOther
    BY DEF IInv, Roles, PrimaryOK, StandbyOK, DrainOK, OnePrimaryOneOther, HoldsStandby,
           NothingDrains, InRole
  <1> QED
    BY <1>1, EnginePoolInvariant, PTL

=============================================================================
