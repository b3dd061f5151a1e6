SPECIFICATION FairSpec
CONSTANTS
  Refs = {r1, r2, r3, r4}
CHECK_DEADLOCK FALSE
INVARIANT ArcSafe
PROPERTIES NoResurrection EventuallyFreed
