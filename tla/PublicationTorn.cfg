\* t1 hydrates two inputs of t2 while t2 publishes its second run.
SPECIFICATION Spec
CONSTANTS
  None = None
  Input = {"signal_inventory", "capability_adoption"}
  View = {"opportunities"}
  Series = {}
  LiveOnly = {}
  Owner <- MCOwner
  Reported <- MCReported
  Selectable <- MCSelectable
  NonBlocking <- MCNonBlocking
  Needs <- MCNeeds
  DisabledOK <- MCDisabledOK
  Schema <- SameSchema
  MaxAge = 1
  FutureSkew = 0
  MaxCompose = 1
  MaxRuns <- OneTwoNone
  MaxClock = 0
INVARIANTS
  HydratedFromOneScan
CHECK_DEADLOCK FALSE
