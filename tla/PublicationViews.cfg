\* One run of t1 and t3, two of t2: the maturity view needs t2's input and t3's.
SPECIFICATION Spec
CONSTANTS
  None = None
  Input = {"label_inventory", "dataplane"}
  View = {"maturity"}
  Series = {}
  LiveOnly = {}
  Owner <- MCOwner
  Reported <- MCReported
  Selectable <- MCSelectable
  NonBlocking <- MCNonBlocking
  Needs <- MCNeeds
  DisabledOK <- MCDisabledOK
  Schema <- OlderT3
  MaxAge = 1
  FutureSkew = 0
  MaxCompose = 1
  MaxRuns <- OneTwoOne
  MaxClock = 0
INVARIANTS
  HydratedInputsAreAccepted
  NoRevival
PROPERTIES
  OnlyPolicyExcuses
  SoloRunIsCurrent
CHECK_DEADLOCK FALSE
