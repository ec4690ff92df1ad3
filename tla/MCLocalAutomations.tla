------------------------- MODULE MCLocalAutomations -------------------------
(***************************************************************************)
(* Instances of LocalAutomations for TLC: two tasks, one of them a preset, *)
(* and a schedule of each kind.                                            *)
(***************************************************************************)
EXTENDS LocalAutomations

Once == [kind |-> "once", at |-> 2]
Interval == [kind |-> "interval", every |-> 1]
Daily == [kind |-> "daily", time |-> 1]
UserSchedules == {Once, Interval}

AllCalendars ==
    {[kind |-> "daily", time |-> time] : time \in 0..1} \cup
    {[kind |-> "weekly", time |-> time, days |-> days] :
        time \in 0..1, days \in {{0}, {1}, {7}, {1, 4}, {0, 1, 6}}}
=============================================================================
