SPECIFICATION Spec
CONSTANTS
  Dishes = {d1}
  Requests = {r1, r2}
  NoDish = NoDish
INVARIANT TypeOK
PROPERTY HeldByHandIsRespected
PROPERTY ServedComesBackOnlyStale
CHECK_DEADLOCK FALSE
