\* Passes of three steps, two samples, two calls.
SPECIFICATION Spec
CONSTANTS
  N = 3
  Samples = 2
  Runs = 2
  Kinds <- SmallKinds
  Faults = {"raise", "unwritable"}
INVARIANTS
  LoneWriteGated
  NoSecondFire
  RefusedOnce
CHECK_DEADLOCK FALSE
