SPECIFICATION Spec
CONSTANTS
  Orders = {o1}
  Items = {i1, i2}
  Requests = {r1, r2}
  NoOrder = NoOrder
  Handlers <- TillAndCounter
  Displays = {}
  SentBack = {}
  Methods = {"cash"}
  MaxTender = 2
  MaxPaid = 4
SYMMETRY Interchangeable
INVARIANT NoDoubleCollection
CHECK_DEADLOCK FALSE
