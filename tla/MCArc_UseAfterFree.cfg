SPECIFICATION Spec
CONSTANTS
  Refs = {r1, r2}
CHECK_DEADLOCK FALSE
INVARIANTS NoUseAfterFree
