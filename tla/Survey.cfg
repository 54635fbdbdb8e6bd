\* Two attempts and two overlapping observers of one tier; the constants of the
\* other parts are given in MCSurvey.
CONSTANTS
  a1 = a1
  a2 = a2
  o1 = o1
  o2 = o2
  t1 = t1
  t4 = t4
  v1 = v1
  None = None
  Attempt = {a1, a2}
  Observing = {o1, o2}
  Tier = {t1}
  Unread = {}
  View = {v1}
  MaxClock = 2
  MaxFaults = 1
  Lookback = 1
  Deadline = 1
  MaxAttempts = 2
  MaxRuns = 2
  Bounds <- MCBounds
  Warn = 2
  MaxCount = 3
  MaxMisreads = 2
  MaxGrowth = 1
  Stack <- MCStack
  Holdings <- MCHoldings
  MaxChanges = 1
  MaxLost = 1
  Happening <- MCLog
  TopMix = 1
  MaxLate = 2
  MaxFailed = 1
  ActiveUsers <- MCUsers
  ObjectCounts <- MCCounts
  RuleWeights <- MCWeights
SPECIFICATION SurveySpec
SYMMETRY Symmetry
INVARIANTS
  StoreIsSound
  SuccessIsWhole
  VerdictsAreSound
  FiguresAreTrue
PROPERTIES
  NothingUnlearned
CHECK_DEADLOCK FALSE
