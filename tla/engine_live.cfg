SPECIFICATION FairSpec
CONSTANTS
  Fact = {"p1", "p2", "c1", "c2"}
  Local = {}
  Event = {"p1", "p2", "c1", "c2"}
  EventOf <- MCEventOf
  NeedEpoch <- MCNeedEpoch
  Commit = {"c1", "c2"}
  Malformed = {}
  Expirable = {}
  MaxDeferred = 2
  MaxAttempts = 2
  MaxCopies <- MCOnce
  MaxRestarts = 0
  MaxFailures = 1
  NoCheckpoint = NoCheckpoint
PROPERTIES
  ReadableIsResolved
  RetryPassEnds
  StartReachesLive
CHECK_DEADLOCK FALSE
