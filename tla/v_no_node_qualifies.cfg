SPECIFICATION FairSpec
CONSTANTS
  p1 = p1
  p2 = p2
  n1 = n1
  n2 = n2
  Policies = {p1, p2}
  Nodes = {n1, n2}
  Last = 3
  Modules = {2}
  Retries = 2
  Scenarios <- TwoFreshNodes
PROPERTY BecomesOperational
CHECK_DEADLOCK FALSE
