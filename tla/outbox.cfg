SPECIFICATION FairSpec
CONSTANTS
  Edit = {"e1", "e2"}
  NoEnvelope = NoEnvelope
  Commit = Commit
  MaxEntries = 1
  MaxCommits = 1
  MaxTurns = 1
  MaxFailures = 1
INVARIANTS
  TypeOK
  AttributionIsRight
  SentIsAccepted
  PendingIsTracked
  RegistryMatchesStore
PROPERTIES
  DispatchSettles
CHECK_DEADLOCK FALSE
