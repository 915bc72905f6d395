SPECIFICATION FairSpec
CONSTANTS
  None = None
  Policies = {p1, p2}
  RollbackOn = {p1, p2}
  AutoIsolation = {}
  Budgets <- Plain
INVARIANT OneVersionOnNode
PROPERTY CreatedInSequence
PROPERTY RemovedInSequence
PROPERTY VersionChangesWhenTornDown
PROPERTY Converges
PROPERTY RollbackFinishes
