SPECIFICATION FairSpec
CONSTANTS
  None = None
  Policies = {p1, p2}
  RollbackOn = {p1, p2}
  AutoIsolation = {}
  Budgets <- OneCrash
PROPERTY RollbackFinishes
