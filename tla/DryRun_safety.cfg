\* Recipes of three steps, whatever they mark; two requests, every fault.
SPECIFICATION Spec
CONSTANTS
  q1 = q1
  q2 = q2
  q3 = q3
  Page = Page
  None = None
  Length = 3
  Requests = {q1, q2}
  Urls = {"a"}
  Faults = {"raise", "handler", "old", "worker"}
SYMMETRY RequestSymmetry
INVARIANTS
  NothingLeaves
  EveryWriteShown
  NamedIsCause
  RepresentativeIsReal
CHECK_DEADLOCK FALSE
