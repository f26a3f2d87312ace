SPECIFICATION Spec
CONSTANTS
  Fact = {"p1", "p2", "b2", "c1"}
  Local = {"l1"}
  Event = {"p1", "p2", "b2", "c1", "l1"}
  EventOf <- MCEventOf
  NeedEpoch <- MCNeedEpoch
  Commit = {"c1"}
  Malformed = {"b2"}
  Expirable = {"p1"}
  MaxDeferred = 2
  MaxAttempts = 1
  MaxCopies <- MCOnce
  MaxRestarts = 1
  MaxFailures = 0
  NoCheckpoint = NoCheckpoint
INVARIANTS
  TypeOK
  CoveredHasOutcome
  ProjectionComplete

  
CHECK_DEADLOCK FALSE
