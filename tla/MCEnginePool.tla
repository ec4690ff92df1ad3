---------------------------- MODULE MCEnginePool ----------------------------
(***************************************************************************)
(* The instance of EnginePool for TLC: three engines, so that a drain, a   *)
(* standby and a standby that failed follow each other.                    *)
(***************************************************************************)
EXTENDS EnginePool
=============================================================================
