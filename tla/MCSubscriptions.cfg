SPECIFICATION FairSpec
CONSTANTS
  Sockets = {s1, s2}
  Nothing = Nothing
  Elsewhere = Elsewhere
  MaxRequests = 4
  MaxSubscriptions = 2
INVARIANTS
  NotifiedIsOwner
  TablesAgree
  StopsOnlyForACause
PROPERTY ClosedIsUnsubscribed
CHECK_DEADLOCK FALSE
