\* Two contenders and one task that bypasses the lock.  Overrun plus skew is exactly
\* the grace; AWS requests are fair.
SPECIFICATION FairSpec
CONSTANTS
  r1 = r1
  r2 = r2
  r3 = r3
  Run <- MCRun
  Bypass <- MCBypass
  Deadline <- MCDeadline
  Grace = 2
  Skew <- MCSkew
  MaxSkew = 1
  MaxOverrun = 1
  MaxClock = 5
  Absent = Absent
  Unreadable = Unreadable
INVARIANTS
  ExclusiveWhileValid
PROPERTIES
  RemovedOnlyByOwnerOrExpiry
  ImplementsMutex
  StaleLockIsBroken
CHECK_DEADLOCK FALSE
