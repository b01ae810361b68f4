SPECIFICATION PartsSpec
CONSTANTS
  Parts = {"calls", "lease", "bash"}
  Servers = {s1, s2}
  Tx = {t1, t2}
  NoTx = NoTx
  Foreign = Foreign
  MaxRecords = 1
  Owners = {s1, s2}
  Tools = {t1, t2}
  Paths = {p1, p2}
  Dirs = {d1, d2}
  NoDir = NoDir
  Opens = {o1, o2, o3}
  NoOpen = NoOpen
SYMMETRY Symmetry
INVARIANTS OneDelegation JournalFirst Disclosed RecordsFit LeaseExact
PROPERTY KeepsPromise
