\* Calls that ask for approval and every operator call, under every fault at once.
SPECIFICATION FairSpec
CONSTANTS
  p1 = p1
  p2 = p2
  First = First
  None = None
  Procs = {p1, p2}
  Authors <- MCAuthors
  Ops = {"replay", "learn", "approve", "unapprove", "mark", "release", "audit"}
  Faults = {"crash", "wedge", "degrade", "unreadable", "unwritable", "corrupt"}

CHECK_DEADLOCK FALSE
INVARIANTS
  QuarantineHolds
  RunsOnlyApproved
PROPERTIES
  ImplementsSidecar
  CallsEnd
