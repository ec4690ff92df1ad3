--------------------------- MODULE MCCloudWorkers ---------------------------
(***************************************************************************)
(* Instances of CloudWorkers for TLC: two replicas of Den, with the loops  *)
(* and the requests shared out between them by the configurations.         *)
(***************************************************************************)
EXTENDS CloudWorkers
=============================================================================
