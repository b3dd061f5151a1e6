SPECIFICATION FairSpec
CONSTANTS
  Completers = {}
  Failers = {}
  Cancellers = {x1}
  Waiters = {w1}
  Callbacks = {}
  Null = Null
CHECK_DEADLOCK FALSE
PROPERTIES WaitersReturnOnCancel
