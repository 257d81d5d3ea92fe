SPECIFICATION Spec
CONSTANTS
  Tables = {t1, t2}
  Orders = {o1, o2}
  Bookings = {b1}
  Requests = {r1, r2}
  NoTable = NoTable
  Nothing = Nothing
  Handlers <- WithoutMove
SYMMETRY Interchangeable
INVARIANT TypeOK
INVARIANT OneStaffOrder
CHECK_DEADLOCK FALSE
