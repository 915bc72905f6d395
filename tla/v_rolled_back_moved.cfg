SPECIFICATION FairSpec
CONSTANTS
  p1 = p1
  p2 = p2
  n1 = n1
  n2 = n2
  n3 = n3
  None = None
  EmptyNode = EmptyNode
  Policies = {p1, p2}
  Nodes = {n1, n2, n3}
  RollbackOn = {p2}
  Scenarios <- TwoRollbacks
PROPERTY MovesOnlyListedNodes
CHECK_DEADLOCK FALSE
