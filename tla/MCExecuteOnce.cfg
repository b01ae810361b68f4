\* Two overlapping requests with one key.
CONSTANTS
  Requests = {r1, r2}
  Keys = {k1}
  Roles = {"operator"}
  Threshold = 2
SPECIFICATION Spec
SYMMETRY Symmetry
CHECK_DEADLOCK FALSE
INVARIANTS OneRunPerKey
