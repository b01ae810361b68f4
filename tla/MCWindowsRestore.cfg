\* The same, for the claim of commit.
CONSTANTS
  Parts = {"posix", "windows"}
  Files = {f1, f2}
  Mine = mine
  Versions = {v1, v2, v3}
  Large = {v3}
  New = new
  None = none
  Root = root
  D = d
  E = e
  F = f
  L = l
  Nodes = {root, d, e, f, l}
  Subdirs = {d, e}
  Links = {l}
  EntryNames = {"a", "g", "h"}
  Hidden = {"h"}
  Control = {"g"}
  Unsafe = {"h"}
  Deep = deep
  Patterns <- Globs
  Trees <- Workspaces
  MaxEntries = 5
  MaxDirectories = 2
  MaxDepth = 2
  MaxResults = 2
  MaxMoves = 1
  MaxFailures = 1
SPECIFICATION PartsSpec
SYMMETRY Symmetry
CHECK_DEADLOCK FALSE
INVARIANT DisplacementRestored
