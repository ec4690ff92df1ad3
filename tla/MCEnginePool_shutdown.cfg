CONSTANTS
  Engines = {g1, g2}
  Workspaces = {w1}
  Sessions = {s1}
  Configs = {a, b}
  NoEngine = NoEngine
  NoWorkspace = NoWorkspace
  NoConfig = NoConfig
  MaxEdits = 1
  MaxRequests = 1
  MaxPolls = 1
SPECIFICATION Spec
INVARIANTS
  NoneOutlivesShutdown
CHECK_DEADLOCK FALSE
