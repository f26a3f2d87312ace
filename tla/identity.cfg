SPECIFICATION Spec
CONSTANTS
  Pubkey = {p1, p2}
  Login = {l1, l2}
  Group = {g1}
  None = None
  Old = old
  Hasty = {"signin", "network"}
  MaxReloads = 1
INVARIANTS
  TypeOK
  BoundToPage
  ClientIsOfPage
  ClientKeepsItsSlot
  ReloadRestoresNoOther
  NoGhostLeaf
SYMMETRY MCSymmetry
CHECK_DEADLOCK FALSE
