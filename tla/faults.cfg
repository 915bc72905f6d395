SPECIFICATION Spec
CONSTANTS
  None = None
  Policies = {p1, p2}
  RollbackOn = {p1, p2}
  AutoIsolation = {p1, p2}
  Budgets <- Everything
SYMMETRY Symmetry
INVARIANT TypeOK
INVARIANT VersionFollowsPolicy
INVARIANT PriorNeverActive
INVARIANT VerdictEndsWork
INVARIANT RollbackStartsClean
INVARIANT SelectorsInOrder
INVARIANT OneFlowAtATime
INVARIANT WithdrawnIsBare
INVARIANT JudgedNodeIsComplete
INVARIANT NothingLeftBehind
INVARIANT DeletedPolicyReleasesNode
PROPERTY ImplementsHistory
CHECK_DEADLOCK FALSE
