SPECIFICATION FairSpec
CONSTANTS
  Actions = {a1}
  Tabs = {t1, t2}
  Deliveries = {d1, d2, d3}
  MaxAttempts = 2
  NoAction = NoAction
  Page = Page
  Nobody = Nobody
INVARIANT TypeOK
INVARIANT CarriedOutIsKnown
PROPERTY ImplementsOutbox
PROPERTY PendingIsSettled
CHECK_DEADLOCK FALSE
