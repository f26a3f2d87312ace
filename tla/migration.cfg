SPECIFICATION Spec
CONSTANTS
  Pubkey = {p1, p2}
  Run = {r1, r2, r3}
  Store = {s1, s2}
  Task = {t}
  None = None
  MaxCrashes = 1
INVARIANTS
  LegacyKept
  OnePartition
PROPERTIES
  NeverSetBack
CHECK_DEADLOCK FALSE
