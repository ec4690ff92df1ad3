--------------------------- MODULE CreditAccount ---------------------------
(***************************************************************************)
(* What the RenCredit ledger promises an organization: credit is added by  *)
(* grants, a reservation takes its hold out of the available balance once  *)
(* and only when the balance covers it, and closing the reservation, once, *)
(* gives the hold back less what the usage cost.  Nothing else moves the   *)
(* balance.  CreditLedger implements this.                                 *)
(***************************************************************************)
EXTENDS Integers

CONSTANT Reservations

VARIABLES
    available,   \* the balance; negative when usage cost more than its hold
    hold         \* each reservation: absent, held or closed, its hold and its charge

accountVars == <<available, hold>>

Absent == [state |-> "absent", amount |-> 0, charged |-> 0]

Init == /\ available = 0
        /\ hold = [r \in Reservations |-> Absent]

Grant == /\ available' > available
         /\ UNCHANGED hold

Reserve(r) ==
    LET amount == available - available'
    IN /\ hold[r].state = "absent"
       /\ amount \in 0..available
       /\ hold' = [hold EXCEPT ![r] = [state |-> "held", amount |-> amount, charged |-> 0]]

Close(r) ==
    LET cost == available + hold[r].amount - available'
    IN /\ hold[r].state = "held"
       /\ cost >= 0
       /\ hold' = [hold EXCEPT ![r].state = "closed", ![r].charged = cost]

Next == Grant \/ \E r \in Reservations : Reserve(r) \/ Close(r)

Spec == Init /\ [][Next]_accountVars
=============================================================================
