\* Two processes over two records of which one fits, on POSIX and on Windows; two servers that write three
\* lines to logs of three chunks; four edits and two failing system calls;
\* entries of two generations;
\* three runs of an installer, two failing commands, signals or changes by others.
CONSTANTS
  Parts = {"journal", "journalWindows", "usage", "server", "codex", "windows", "policy", "install"}
  p1 = p1  p2 = p2
  i1 = i1  i2 = i2
  w1 = w1
  Procs = {p1, p2}
  Ids = {i1, i2}
  Warnings = {w1}
  MaxRecords = 1
  None = None
  l1 = l1  l2 = l2  l3 = l3
  Servers = {p1, p2}
  Records = {l1, l2, l3}
  MaxChunks = 3
  MaxFiles = 3
  MaxEdits = 4
  MaxFailures = 2
  Other = Other
  MaxFaults = 2
  MaxOutside = 1
SPECIFICATION PartsSpec
SYMMETRY Symmetry
CHECK_DEADLOCK FALSE
INVARIANTS JournalKept LinesWhole ConfigurationKept
PROPERTIES StepsRight
