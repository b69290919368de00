\* Three callbacks, two disconnects, two failures.
CONSTANTS
  Callbacks = {k1, k2, k3}
  Disconnects = {d1, d2}
  First = First
  None = None
  MaxFaults = 2
  k1 = k1 k2 = k2 k3 = k3 d1 = d1 d2 = d2
SPECIFICATION Spec
SYMMETRY Symmetry
INVARIANTS TypeOK LeaksExplained RowNotDeleted
CHECK_DEADLOCK FALSE
