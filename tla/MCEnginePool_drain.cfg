CONSTANTS
  Engines = {g1, g2, g3}
  Workspaces = {w1}
  Sessions = {s1}
  Configs = {a, b}
  NoEngine = NoEngine
  NoWorkspace = NoWorkspace
  NoConfig = NoConfig
  MaxEdits = 2
  MaxRequests = 2
  MaxPolls = 2
SPECIFICATION FairSpec
INVARIANTS
  TypeOK
  OnePrimaryOneOther
PROPERTIES
  DrainEnds
  RequestsSettle
CHECK_DEADLOCK FALSE
