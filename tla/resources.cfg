SPECIFICATION FairSpec
CONSTANTS
  p1 = p1
  p2 = p2
  v1 = v1
  v2 = v2
  None = None
  Crd = Crd
  Policies = {p1, p2}
  Versions = {v1, v2}
  Scenarios <- ComeAndGo
INVARIANT AssetsStand
PROPERTY DeletedPolicyGoes
CHECK_DEADLOCK FALSE
