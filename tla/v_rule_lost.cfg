SPECIFICATION Spec
CONSTANTS
  p1 = p1
  p2 = p2
  v1 = v1
  v2 = v2
  None = None
  Crd = Crd
  Policies = {p1, p2}
  Versions = {v1, v2}
  Scenarios <- TwoPolicies
INVARIANT RuleStays
CHECK_DEADLOCK FALSE
