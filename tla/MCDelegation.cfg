\* Three synchronous requests that overlap, each cancelled up to three times;
\* three turns of up to two tools with budgets that some runs reach; three
\* attempts in a run of four units, two of which may be slept through; a child
\* that is sent up to three SIGTERMs.
CONSTANTS
  Parts = {"sync", "loop", "call", "pipe"}
  r1 = r1  r2 = r2  r3 = r3
  Requests = {r1, r2, r3}
  MaxCancels = 3
  MaxChanges = 2
  None = None
  m1 = m1  m2 = m2
  Messages = {m1, m2}
  MaxTurns = 3
  MaxPlan = 2
  MaxTools = 3
  MaxTokens = 22
  Output = 2
  MaxHistory = 9
  MaxBytes = 3
  Reports = {0, 6}
  Chunks = {0, 2}
  RunSeconds = 4
  RequestSeconds = 2
  Backoff = 1
  Retries = 2
  Horizon = 8
  MaxAsleep = 2
  MaxSkew = 1
  MaxSignals = 3
SPECIFICATION PartsSpec
SYMMETRY Symmetry
CHECK_DEADLOCK FALSE
INVARIANTS CancelIsSafe ConversationRight BudgetsHold AttemptsRight
