SPECIFICATION FairSpec
CONSTANTS
  Tables = {t1, t2}
  Orders = {o1, o2}
  Bookings = {b1, b2}
  Requests = {r1}
  NoTable = NoTable
  Nothing = Nothing
  Handlers <- Syncing
INVARIANT TableInSync
PROPERTY ReservedInTime
CHECK_DEADLOCK FALSE
