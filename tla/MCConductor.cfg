\* Two overlapping requests of an administrator or another, over two keys; two runs
\* of a job over a target of the candidate and a file that is none;
\* three builders; three upserts.  Requests and runs share their values, and so
\* their permutations.
CONSTANTS
  Parts = {"package", "stages", "decision", "advice"}
  Requests = {r1, r2}
  Keys = {k1, k2}
  Roles = {"admin", "guest"}
  Statuses = {"completed", "blocked", "finalizing"}
  Runs = {r1, r2}
  Files = {f, g}
  Targets = {f}
  Tracked = {"reviewing"}
  Lone = lone
  Answers <- SomeAnswers
  Objectives = {"locality", "speed"}
  Builders = 3
  MaxMedoids = 2
  Aligned = 2
  Threshold = 1
  CloseL1 = 2
  OverlayKeys = {"alias", "pair"}
  OwnerOf <- RepoOf
  OverlayRepos = {"repo", "other"}
  OverlayTasks = {"task"}
  MaxMemory = 1
SPECIFICATION PartsSpec
SYMMETRY Symmetry
CHECK_DEADLOCK FALSE
INVARIANTS PackageWhole FailedRepairReset CheckpointsKept RowIsTrue DecisionsRight
