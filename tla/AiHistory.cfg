\* Two overlapping writers, two months under a retention of one, drifting clocks.
CONSTANTS
  w1 = w1
  w2 = w2
  s1 = s1
  s2 = s2
  x = x
  Writer = {w1, w2}
  Source = {"billing_observation"}
  Stack = {s1, s2}
  Value = {x}
  None = None
  MonthLength = 2
  MaxMonths = 1
  MaxRows = 2
  FutureSkew = 0
  Drift = 1
  MaxClock = 3
  MaxRuns = 2
SPECIFICATION Spec
SYMMETRY Symmetry
INVARIANTS
  HistoryIsReadable
  PublishedIsRecorded
PROPERTIES
  ObservationsOnlyAdvance
  DepartedStaysOut
CHECK_DEADLOCK FALSE
