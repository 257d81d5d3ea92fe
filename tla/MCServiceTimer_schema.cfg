SPECIFICATION FairSpec
CONSTANTS
  Dishes = {d1, d2}
  CourseServed = FALSE
  Answered = {}
  Requests = {r1}
  NoDish = NoDish
  MaxPostpone = 1
  RequiresDispatch = FALSE
  Schemas = {FALSE}
PROPERTY ScheduledIsFired
CHECK_DEADLOCK FALSE
