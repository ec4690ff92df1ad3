CONSTANTS
  r1 = r1
  Runs = {r1}
  Replicas = {p1}
  Runners = {u1}
  Sessions = {s1}
  NoOwner = NoOwner
  NoThread = NoThread
  NoRun = NoRun
  LeaseTime = 1
  ClaimWindow = 3
  MaxConcurrency = 1
  EventCount = 1
  Cancellable = {r1}
  MaxTime = 4
SPECIFICATION DesktopSpec
PROPERTIES
  CompletedIsFinal
