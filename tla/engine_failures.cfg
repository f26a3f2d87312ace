SPECIFICATION Spec
CONSTANTS
  Fact = {"q1", "c1", "c2"}
  Local = {}
  Event = {"q1", "c1", "c2"}
  EventOf <- MCEventOf
  NeedEpoch <- MCNeedEpoch
  Commit = {"c1", "c2"}
  Malformed = {}
  Expirable = {}
  MaxDeferred = 2
  MaxAttempts = 1
  MaxCopies <- MCTwice
  MaxRestarts = 1
  MaxFailures = 1
  NoCheckpoint = NoCheckpoint
INVARIANTS
  NoSilentLoss
  CoveredHasOutcome
  ParkedStoreAgrees
CHECK_DEADLOCK FALSE
