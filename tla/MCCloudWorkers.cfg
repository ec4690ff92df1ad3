CONSTANTS
  Replicas = {p1, p2}
  Gateways = {p1}
  Executors = {p1}
  Stoppers = {p2}
  Reconcilers = {p1, p2}
  MaxDeploys = 1
  MaxFaults = 1
SPECIFICATION FairSpec
INVARIANTS
  TypeOK
  ClaimsExclude
  IdleStopSparesRuns
  StatusIsTrue
PROPERTY SilentIsReconciled
CHECK_DEADLOCK FALSE
