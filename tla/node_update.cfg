SPECIFICATION Spec
CONSTANTS
  active = active
  torn = torn
  timer = timer
  other = other
  x = x
  Absent = Absent
  Unknown = Unknown
  LabelKeys = {active, torn}
  AnnotationKeys = {timer}
  ForeignLabels = {other}
  Values = {x}
  Calls <- VerifiedCalls
  MaxAttempts = 3
  Budgets <- ThreeCalls
INVARIANT TypeOK
INVARIANT WrittenOnSuccess
INVARIANT AcknowledgedStays
PROPERTY OnlyOldMapsOverwrite
CHECK_DEADLOCK FALSE
