SPECIFICATION FairSpec
CONSTANTS
  Jobs = {j1, j2}
  Callers = {c1}
  NoOne = NoOne
  OtherServer = OtherServer
  MaxRetained = 1
  MaxQueued = 2
  MaxBytes = 2
  Sizes = {1}
  MaxTurns = 3
  MaxBatch = 2
PROPERTIES
  JobsEnd
  CancelTakesEffect
  KeepsPromise
