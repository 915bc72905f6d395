SPECIFICATION FairSpec
CONSTANTS
  None = None
  Policies = {p1, p2}
  RollbackOn = {p1, p2}
  AutoIsolation = {}
  Budgets <- Recoverable
PROPERTY UpgradeFinishes
PROPERTY AdoptedNodeRecovers
PROPERTY DeletionFinishes
