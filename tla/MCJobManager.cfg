\* Two jobs with two callers, and four jobs over a table that keeps two.
SPECIFICATION PartsSpec
CONSTANTS
  Jobs = {j1, j2}
  Callers = {c1, c2}
  NoOne = NoOne
  OtherServer = OtherServer
  MaxRetained = 1
  MaxQueued = 2
  MaxBytes = 3
  Sizes = {1, 2}
  MaxTurns = 2
  MaxBatch = 2
  TableJobs = {j1, j2, j3, j4}
  TableRetained = 2
SYMMETRY Symmetry
INVARIANTS LeaseKept SteeringKept CancellationWins MutationsDisclosed UsageRecordedOnce
PROPERTY TableRight
