SPECIFICATION Spec
CONSTANTS
  Orders = {o1}
  Items = {i1, i2, i3}
  Requests = {r1, r2}
  NoOrder = NoOrder
  Handlers <- AllHandlers
  Displays = {"pending", "served", "cancelled"}
  SentBack = {i1, i2, i3}
  Methods = {"cash", "card"}
  MaxTender = 2
  MaxPaid = 3
SYMMETRY Interchangeable
INVARIANT TypeOK
INVARIANT FlagMatchesPayments
INVARIANT OneHandover
PROPERTY ClosedForGood
PROPERTY ImplementsOrderLife
CHECK_DEADLOCK FALSE
