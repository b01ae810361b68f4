\* Three overlapping requests of an operator or a guest, each with one of two keys.
CONSTANTS
  Requests = {r1, r2, r3}
  Keys = {k1, k2}
  Roles = {"operator", "guest"}
  Threshold = 2
SPECIFICATION Spec
SYMMETRY Symmetry
CHECK_DEADLOCK FALSE
INVARIANTS NoRerun ReplayIsFaithful CancelStands EscalationAgrees LedgerFirst
