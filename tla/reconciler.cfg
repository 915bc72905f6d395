SPECIFICATION FairSpec
CONSTANTS
  p1 = p1
  p2 = p2
  n1 = n1
  n2 = n2
  Policies = {p1, p2}
  Nodes = {n1, n2}
  Last = 2
  Modules = {1}
  Retries = 2
  Scenarios <- OneAndTwoNodes
INVARIANT TypeOK
INVARIANT NothingForgotten
PROPERTY OperationalIsEarned
PROPERTY BecomesOperational
PROPERTY DownIsNoticed
CHECK_DEADLOCK FALSE
