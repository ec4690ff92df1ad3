CONSTANTS
  r1 = r1
  Runs = {r1, r2}
  Replicas = {p1, p2}
  Runners = {}
  Sessions = {s1}
  NoOwner = NoOwner
  NoThread = NoThread
  NoRun = NoRun
  LeaseTime = 1
  ClaimWindow = 2
  MaxConcurrency = 1
  EventCount = 1
  Cancellable = {r1}
  MaxTime = 5
SPECIFICATION CloudSpec
INVARIANTS
  TypeOK
  AttemptBound
  TurnSentToOneThread
  RunningWithinLimit
PROPERTIES
  ResultByLatestAttempt
  UncancelledTerminalIsFinal
  ImplementsLifecycle
SYMMETRY Symmetry
CONSTRAINT CompetingTime
