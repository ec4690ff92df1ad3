CONSTANTS
  Replicas = {p1, p2}
  Gateways = {p1}
  Executors = {p2}
  Stoppers = {p1, p2}
  Reconcilers = {p1, p2}
  MaxDeploys = 0
  MaxFaults = 0
SPECIFICATION Spec
INVARIANT OneProviderAction
CHECK_DEADLOCK FALSE
