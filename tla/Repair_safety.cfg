\* Two short recipes, replans of one step, two replays.
SPECIFICATION Spec
CONSTANTS
  Recipes <- SmallRecipes
  MaxTail = 1
  Runs = 2
INVARIANTS
  WritesActOnce
  NoLaunderedWrite
  SlotsAreTheCallers
CHECK_DEADLOCK FALSE
