SPECIFICATION FairSpec
CONSTANTS
  Orders = {o1}
  Items = {i1, i2}
  Requests = {r1, r2}
  NoOrder = NoOrder
  Handlers <- Shrinking
  Displays = {"pending", "oven_done"}
  SentBack = {}
  Methods = {"cash"}
  MaxTender = 2
  MaxPaid = 2
INVARIANT CompletedIsCovered
INVARIANT CancelledIsEmpty
PROPERTY Answered
CHECK_DEADLOCK FALSE
