\* Two callers of two calls over two workers: slots run out once operations hang.
SPECIFICATION FairSpec
CONSTANTS
  c1 = c1
  c2 = c2
  w1 = w1
  w2 = w2
  Caller <- MCCaller
  Worker <- MCWorker
  MaxCalls = 2
  None = None
INVARIANTS
  SlotsAccounted
  RoomForEveryJob
PROPERTIES
  AbandonedNeverStarts
  CallsEnd
CHECK_DEADLOCK FALSE
