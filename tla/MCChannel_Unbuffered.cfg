SPECIFICATION Spec
CONSTANTS
  Messages = {m1, m2}
  NoMessage = NoMessage
  Senders = {s1}
  Receivers = {r1}
  Capacity = 0
CHECK_DEADLOCK FALSE
INVARIANTS Delivery
