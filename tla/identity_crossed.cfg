SPECIFICATION Spec
CONSTANTS
  Pubkey = {p1, p2}
  Login = {l1, l2, l3}
  Group = {g}
  None = None
  Old = old
  Hasty = {"network"}
  MaxReloads = 0
INVARIANTS
  IsolatedByConstruction
SYMMETRY MCSymmetry
CHECK_DEADLOCK FALSE
