SPECIFICATION Spec
CONSTANTS
  Rows = {dish, c1, c2}
  Coperti = {c1, c2}
  PerKg = {}
  Quantities = {1, 2}
  Prices = {1, 2}
  CopertoPrice = 1
  Requests = {r1, r2}
  NoRow = NoRow
SYMMETRY Interchangeable
INVARIANT TypeOK
INVARIANT OneCoperto
PROPERTY GuestsAreCharged
PROPERTY CoversRepairTotal
PROPERTY SubtotalOnlyStale
CHECK_DEADLOCK FALSE
