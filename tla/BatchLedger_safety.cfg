\* Two calls under one job id that may overlap, tear lines, and fire at a target that
\* does not dedupe.
SPECIFICATION FairSpec
CONSTANTS
  k1 = k1
  k2 = k2
  r1 = r1
  r2 = r2
  r3 = r3
  Invalid = Invalid
  Runs = {r1, r2}
  Keys = {k1, k2}
  Requests <- SmallRequests
  MaxRows = 2
  HonorsKey = FALSE
  TornAppends = TRUE
  Overlap = TRUE
CHECK_DEADLOCK FALSE
INVARIANTS
  NoFalseSkip
PROPERTIES
  RefireNeedsLoss
  ImplementsJob
