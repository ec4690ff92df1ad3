--------------------------- MODULE MCCreditLedger ---------------------------
(***************************************************************************)
(* An instance of CreditLedger for TLC: one idempotency key used by two    *)
(* requests, one run id used by two, and a grant that is sent twice and    *)
(* covers one of the two requests that cost something.                     *)
(***************************************************************************)
EXTENDS CreditLedger, TLC

CONSTANTS r1, r2, r3, k1, k2, n1, n2, g1, g2, c1

Keys == r1 :> k1 @@ r2 :> k1 @@ r3 :> k2
Runs == r1 :> n1 @@ r2 :> n2 @@ r3 :> n1
Holds == r1 :> 0 @@ r2 :> 2 @@ r3 :> 2
GrantKeys == g1 :> c1 @@ g2 :> c1
=============================================================================
