SPECIFICATION Spec
CONSTANTS
  Device = {"a", "b"}
  Group = {"g"}
  Creator <- MCCreator
  Worker = {w1, w2, w3}
  Task = {t1, t2, t3}
  Workers <- MCWorkers
  Tasks <- MCTasks
  WorkersA = {}
  WorkersB = {w2, w3}
  TasksA = {t1, t2}
  TasksB = {t3}
  None = None
  MaxVersion = 2
  MaxHandlers = 2
  Forgets <- MCForgets
  MaxFaults = 2
INVARIANTS
  TypeOK
  WelcomeAccounted
  OneWelcomePerSlot
  ForgetSweepsGroup
  BarrierIsHeld
PROPERTIES
  ForgottenStaysOut
SYMMETRY MCSymmetry
CHECK_DEADLOCK FALSE
