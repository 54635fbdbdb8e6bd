\* A call that may be retried and two oversized reads, one slot per host.
CONSTANTS
  c1 = c1
  s1 = s1
  s2 = s2
  gcom = gcom
  stack = stack
  None = None
  Caller = {c1, s1, s2}
  Guarded = {s1, s2}
  Synthetic = {s1, s2}
  Host = {gcom, stack}
  HostOf <- MCHostOf
  Limited = {gcom}
  Rate = 1
  HostSlots = 1
  MaxReads = 1
  MaxAttempts = 2
  Timeout = 2
  Deadline = 3
  Backoff = 0
  BackoffCap = 2
  Advice = {1, 2}
  MaxClock = 4
SPECIFICATION FairSpec
INVARIANTS
  LimitsKept
PROPERTIES
  SentInTime
  CallsEnd
CHECK_DEADLOCK FALSE
