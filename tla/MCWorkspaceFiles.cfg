\* Two failing calls, four foreign versions in two reusable files; one change under a walk;
\* two while a file is opened.
CONSTANTS
  Parts = {"posix", "windows", "walk", "agents", "edits", "paths"}
  Files = {f1, f2}
  Mine = mine
  Versions = {v1, v2, v3, v4}
  Large = {v4}
  New = new
  None = none
  Root = root
  D = d
  E = e
  F = f
  L = l
  Nodes = {root, d, e, f, l}
  Subdirs = {d, e}
  Links = {l}
  EntryNames = {"a", "g", "h"}
  Hidden = {"h"}
  Control = {"g"}
  Unsafe = {"h"}
  Deep = deep
  Patterns <- Globs
  Trees <- Workspaces
  MaxEntries = 5
  MaxDirectories = 2
  MaxDepth = 2
  MaxResults = 2
  MaxMoves = 1
  MaxFailures = 2
SPECIFICATION PartsSpec
SYMMETRY Symmetry
CHECK_DEADLOCK FALSE
INVARIANTS DataKept ReportsAreTrue WalkRight OpeningRight
PROPERTY ReplacementRight
