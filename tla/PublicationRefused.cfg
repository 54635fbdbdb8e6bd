\* The state each tier keeps beside its views, and the gates before it.
SPECIFICATION Spec
CONSTANTS
  None = None
  Input = {"ai_billing", "assistant", "dataplane"}
  View = {"ai_cost"}
  Series = {"adaptive_rules", "value_savings"}
  LiveOnly = {"value_savings"}
  Owner <- MCOwner
  Reported <- MCReported
  Selectable <- MCBillingSelectable
  NonBlocking <- MCNonBlocking
  Needs <- MCNeeds
  DisabledOK <- MCDisabledOK
  Schema <- SameSchema
  MaxAge = 1
  FutureSkew = 0
  MaxCompose = 1
  MaxRuns <- OneOneOne
  MaxClock = 0
INVARIANTS
  RefusedLeavesNoTrace
CHECK_DEADLOCK FALSE
