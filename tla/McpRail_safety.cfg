\* Two calls on one exposing server and one that is not; every fault.
SPECIFICATION Spec
CONSTANTS
  c1 = c1
  c2 = c2
  c3 = c3
  s1 = s1
  s2 = s2
  r0 = r0
  w1 = w1
  w2 = w2
  None = None
  Calls = {c1, c2}
  Servers = {s1, s2}
  Exposing = {s1}
  Args = {a1}
  Recipes = {r0, w1, w2}
  Writers = {w1, w2}
  Faults = {"cancel", "crash", "unreadable", "unwritable"}
  a1 = a1
SYMMETRY CallSymmetry
INVARIANTS
  HumanAccepts
  RepeatNeedsLoss
CHECK_DEADLOCK FALSE
