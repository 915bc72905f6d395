SPECIFICATION FairSpec
CONSTANTS
  p1 = p1
  p2 = p2
  n1 = n1
  n2 = n2
  n3 = n3
  None = None
  EmptyNode = EmptyNode
  Policies = {p1, p2}
  Nodes = {n1, n2}
  RollbackOn = {p1, p2}
  Scenarios <- MovesEditsAndFaults
INVARIANT PlaceholderAlone
INVARIANT NoDuplicates
PROPERTY NeverEmptied
PROPERTY Reaggregated
PROPERTY EventuallyHome
