\* A tick over a watched read and a declared write, one over the read, and an audit.
SPECIFICATION Spec
CONSTANTS
  t1 = t1
  t2 = t2
  price = price
  order = order
  Flows = {price, order}
  Declares = {order}
  Audited = {price}
  Ticks = {t1, t2}
  Serves <- MCServes
  Options <- MCOptions
  Approved = {{order}, {price, order}}
  Levels = {10, 14}
  Baselines <- SmallBaselines
  Warmup = 2
  RingSize = 3
  MinRing = 3
  Keep = 1
  Calls = 1
  Handled = {price}
  Acts = 2
CHECK_DEADLOCK FALSE
INVARIANTS
  GreenIsChosen
  UnattendedWrites
  AuditLooked
PROPERTIES
  OutlierNeedsRace
  CreepLeavesEvidence
