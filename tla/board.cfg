SPECIFICATION Spec
CONSTANTS
  Device = {"a", "b"}
  Founder = "a"
  Author <- MCAuthor
  Client <- MCClient
  Mutation = {"task.status_changed", "task.deleted"}
  NoTask = NoTask
  NoEvent = NoEvent
  MaxEdits = 3
  Clock = {1, 3}
  MaxFaults = 1
INVARIANTS
  TypeOK
  ShowsTheLog
  AtomicEditsConverge
  LoneWriterIsHeard
CHECK_DEADLOCK FALSE
