\* A run that follows one which died between minting and storing.
CONSTANTS
  r1 = r1
  r2 = r2
  s1 = s1
  s2 = s2
  None = None
  Run = {r1, r2}
  Stack = {s1, s2}
  Skipped = {s2}
  VersionChecked = TRUE
  MaxId = 5
  MaxStarts = 2
  MaxTrouble = 1
  MaxChurn = 1
  MaxUpsets = 1
SPECIFICATION Spec
SYMMETRY Symmetry
INVARIANTS
  CrashesAreRepaired
CHECK_DEADLOCK FALSE
