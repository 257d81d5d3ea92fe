SPECIFICATION FairSpec
CONSTANTS
  Dishes = {d1}
  CourseServed = FALSE
  Answered = {"waiter"}
  Requests = {r1, r2}
  NoDish = NoDish
  MaxPostpone = 2
  RequiresDispatch = FALSE
  Schemas = {TRUE, FALSE}
INVARIANT TypeOK
INVARIANT PostponesBounded
PROPERTY FiredUnlessAlertDue
CHECK_DEADLOCK FALSE
