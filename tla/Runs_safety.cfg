\* Two runs and a scope over one router, with every mishap.
SPECIFICATION RunsSpec
CONSTANTS
  c1 = c1
  c2 = c2
  s1 = s1
  r1 = r1
  None = None
  Unknown = Unknown
  Foreign = Foreign
  Calls = {c1, c2}
  Scopes = {s1}
  Routers = {r1}
  Setups <- MCSetups
  MaxSpend = 1
  Mishaps = {"start", "close", "ledger", "raise", "cancel"}
SYMMETRY CallSymmetry
CHECK_DEADLOCK FALSE
INVARIANTS
  DriverServes
  NothingOrphaned
  BillHolds
  
