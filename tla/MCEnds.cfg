\* Two servers, one of which makes a tool call; two requests; one call of two attempts.
CONSTANTS
  Parts = {"tools", "sync", "provider"}
  Servers = {s1, s2}
  Tx = {t1}
  NoTx = {t1}
  Foreign = Foreign
  MaxRecords = 1
  Requests = {r1, r2}
  MaxCancels = 2
  MaxChanges = 1
  None = None
  RunSeconds = 2
  RequestSeconds = 1
  Backoff = 1
  Retries = 1
  Horizon = 5
  MaxAsleep = 1
  MaxSkew = 1
SPECIFICATION PartsSpec
CHECK_DEADLOCK FALSE
PROPERTIES ToolCallsEnd DelegationsEnd
