CONSTANTS
  Runs = {r1, r2, r3}
  MaximumAttempts = 1
  Replicas = {p1}
  Sessions = {s1}
  NoRun = NoRun
  MaxTime = 3
  MaxRevisions = 1
  MaxManual = 1
  Cancellable = {}
  Outcomes = {"failed"}
  Definitions <- OneDefinition
SPECIFICATION FairSpec
PROPERTIES
  DueIsRecorded
