CONSTANTS
  Thread = {t1, t2, t3, t4}
  Conn = {c1, c2}
  NoThread = NoThread
  NoConn = NoConn
  pool_max_db_cons = 1
  db_retry_time = 2
  HasDefaultCharset = TRUE
  MaxOutages = 2
SYMMETRY Symmetry
SPECIFICATION PoolSpec
INVARIANTS
  PoolTypeOK
  ExclusiveUse
  CountIsUsed
  
  NoLostWakeup
