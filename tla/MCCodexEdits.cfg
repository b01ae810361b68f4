\* The transaction over the configuration of Codex alone.
CONSTANTS
  Parts = {"codex"}
  Procs = {}
  Ids = {}
  Warnings = {}
  MaxRecords = 1
  None = None
  Servers = {}
  Records = {}
  MaxChunks = 2
  MaxFiles = 1
  MaxEdits = 4
  MaxFailures = 2
  Other = Other
  MaxFaults = 0
  MaxOutside = 0
SPECIFICATION PartsSpec
CHECK_DEADLOCK FALSE
INVARIANT NewerEditsKept
