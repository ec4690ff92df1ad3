-------------------------- MODULE MCAutomationRuns --------------------------
(***************************************************************************)
(* Instances of AutomationRuns for TLC, as families of initial states.     *)
(* The two placements share no handler but recovery, cancellation and the  *)
(* event and completion guards, so a run is on a desktop or on the Den     *)
(* workers.  In CloudInit either the first run is executed, next to one    *)
(* that was skipped when it was created, or the two compete for a slot, as *)
(* the saved scripts that have the fewest steps.                           *)
(***************************************************************************)
EXTENDS AutomationRuns, TLC

CONSTANT r1

Queued == {r \in Runs : run[r].status = "queued"}
Competing == \A r \in Runs : run[r].kind = "script"

DesktopInit == Init /\ Queued = Runs /\ \A r \in Runs : run[r].kind = "desktop"

CloudInit ==
    /\ Init
    /\ \/ Competing /\ Queued = Runs
       \/ /\ Queued = {r1}
          /\ \A r \in Runs : run[r].kind = "desktop" <=> r # r1

DesktopSpec == DesktopInit /\ [][Next]_vars /\ Fairness
CloudSpec == CloudInit /\ [][Next]_vars

\* BOUND: two competing runs are followed for a shorter time than one.
CompetingTime == Competing => now < MaxTime

\* Nothing names a particular process; used with safety properties only.
Symmetry == Permutations(Replicas) \cup Permutations(Runners)
                \cup Permutations(Sessions)
=============================================================================
