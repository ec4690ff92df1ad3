CONSTANTS
  Runs = {r1, r2}
  MaximumAttempts = 1
  Replicas = {p1, p2}
  Sessions = {s1}
  NoRun = NoRun
  MaxTime = 3
  MaxRevisions = 2
  MaxManual = 1
  Cancellable = {r1}
  Outcomes = {"failed"}
  Definitions <- TwoDefinitions
SPECIFICATION Spec
INVARIANTS
  TypeOK
  OneRunPerOccurrence
  AtMostOneActiveRun
  NoOccurrencePassedOver
SYMMETRY Symmetry
