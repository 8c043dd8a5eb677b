CONSTANTS
  Thread = {t1, t2, t3}
  Conn = {c1}
  NoThread = NoThread
  NoConn = NoConn
  pool_max_db_cons = 0
  db_retry_time = 1
  HasDefaultCharset = FALSE
  MaxOutages = 1
  Operation = {"query"}
  MaxCalls = 1
SPECIFICATION FairConnSpec
PROPERTY EveryCallReturns
