SPECIFICATION Spec
CONSTANTS
  Device = {"a", "b", "c"}
  Group = {"g"}
  Creator <- MCCreator
  Worker = {"w1"}
  Task = {"t1"}
  Workers <- MCWorkers
  Tasks <- MCTasks
  WorkersA = {"w1"}
  WorkersB = {"w1"}
  TasksA = {"t1"}
  TasksB = {"t1"}
  None = None
  MaxVersion = 2
  MaxHandlers = 3
  Forgets <- MCForgets
  MaxFaults = 0
PROPERTIES
  ForgetSparesOthers
CHECK_DEADLOCK FALSE
