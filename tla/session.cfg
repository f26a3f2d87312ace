SPECIFICATION Spec
CONSTANTS
  Mount = {m1, m2}
  Sent = {s1}
  Snap = {b1}
  Local = {l1}
  None = None
  MaxFailures = 1
INVARIANTS
  TypeOK
  BoardIsWhole
  OneDrain
PROPERTIES
  OnlyOwnersWrite
  MarkIsKept
CHECK_DEADLOCK FALSE
