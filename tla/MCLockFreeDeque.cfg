SPECIFICATION Spec
CONSTANTS
  Items = {x1, x2, x3}
  Null = Null
  Owners = {o1}
  Thieves = {s1, s2}
  Capacity = 2
INVARIANTS NoDoubleTake NoLostItem DequeInv
PROPERTIES ImplementsAbstract
