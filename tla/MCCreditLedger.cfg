CONSTANTS
  r1 = r1
  r2 = r2
  r3 = r3
  k1 = k1
  k2 = k2
  n1 = n1
  n2 = n2
  g1 = g1
  g2 = g2
  c1 = c1
  Requests = {r1, r2, r3}
  KeyOf <- Keys
  RunOf <- Runs
  Grants = {g1, g2}
  GrantKeyOf <- GrantKeys
  Amounts = {3}
  Free = {r1}
  HoldOf <- Holds
  Streams = {r2}
  Charges = {1,4}
  Responses = {x1, x2}
  Replicas = {p1, p2}
  SweepLimit = 1
  MaxCrashes = 1
SPECIFICATION FairSpec
INVARIANTS
  TypeOK
  LedgerExplainsWallet
  Conservation
  DebtComesFromUsage
  OneEgressPerKey
  UsageMatchesCapture
PROPERTIES
  SettledIsFinal
  ImplementsAccount
  HoldsEnd
CHECK_DEADLOCK FALSE
