------------------------ MODULE MCAutomationSchedule ------------------------
(***************************************************************************)
(* Instances of AutomationSchedule for TLC: an agent at an interval and a  *)
(* saved script at fixed times.  Both are due at every time, so that a     *)
(* stale claim or write finds a later occurrence due.                      *)
(***************************************************************************)
EXTENDS AutomationSchedule, TLC

EveryOne == [kind |-> "interval", every |-> 1, action |-> "agent"]
FixedTimes == [kind |-> "times", times |-> {2, 3, 4}, action |-> "saved_script"]

TwoDefinitions == {EveryOne, FixedTimes}
OneDefinition == {FixedTimes}

\* Replicas are interchangeable; used with safety properties only.
Symmetry == Permutations(Replicas)
=============================================================================
