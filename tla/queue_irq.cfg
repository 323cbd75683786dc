SPECIFICATION Spec
CONSTANTS
  Size = 2
  MaxCalls = 2
INVARIANTS CountIsAtomic
CHECK_DEADLOCK FALSE
