\* Ages: one run of each tier while four units pass.
SPECIFICATION Spec
CONSTANTS
  None = None
  Input = {"service_accounts"}
  View = {"risk_service_accounts"}
  Series = {"service_accounts_total"}
  LiveOnly = {}
  Owner <- MCOwner
  Reported <- MCReported
  Selectable <- MCSelectable
  NonBlocking <- MCNonBlocking
  Needs <- MCNeeds
  DisabledOK <- MCDisabledOK
  Schema <- SameSchema
  MaxAge = 1
  FutureSkew = 0
  MaxCompose = 1
  MaxRuns <- OneOneOne
  MaxClock = 5
INVARIANTS
  SamplesWithinTheCap
  PoisonIsContained
CHECK_DEADLOCK FALSE
