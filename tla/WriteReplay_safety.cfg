\* Every flow; requests performed late, prechecks that do not see, attempts that raise.
SPECIFICATION FairSpec
CONSTANTS
  N = 3
  Flows <- SmallFlows
  Faults = {"later", "blind", "raise"}
CHECK_DEADLOCK FALSE
INVARIANTS
  RefireNeedsMiss
  ClaimIsTrue
  BarriersOrder
PROPERTIES
  ImplementsContract
