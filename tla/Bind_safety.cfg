\* Two records, names one of which is in another, pages that change three times.
SPECIFICATION BindSpec
CONSTANTS
  Absent = Absent
  N = 2
  Names = {"pay", "pay now", "stop"}
  Extends <- SmallExtends
  Shapes <- SmallShapes
  Pages <- SmallPages
  MaxElements = 1
  MaxDrift = 3
CHECK_DEADLOCK FALSE
INVARIANTS
  KeyedRowHolds
  NeverPassedOver
  FocusIsPinned
