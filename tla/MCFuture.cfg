SPECIFICATION FairSpec
CONSTANTS
  Completers = {p1, p2}
  Failers = {f1}
  Cancellers = {x1}
  Waiters = {w1, w2}
  Callbacks = {c1}
  Null = Null
CHECK_DEADLOCK FALSE
INVARIANTS CallbacksExact WaitGetsResult
PROPERTIES WaitersReturn
