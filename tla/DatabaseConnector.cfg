CONSTANTS
  Thread = {t1, t2}
  Conn = {c1}
  NoThread = NoThread
  NoConn = NoConn
  pool_max_db_cons = 0
  db_retry_time = 2
  HasDefaultCharset = FALSE
  MaxOutages = 1
  Operation = {"query", "charset_query", "execute", "escape"}
  MaxCalls = 2
SPECIFICATION FairConnSpec
INVARIANTS
  CharsetRestored
  SuccessWasApplied
  UnreachableIsReal
PROPERTY ReturnsWithoutOutage
