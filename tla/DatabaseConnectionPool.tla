------------------------ MODULE DatabaseConnectionPool ------------------------
(***************************************************************************)
(* utils/database/database_connection_pool.cc: a pool of MySQL connections *)
(* that limits how many of them are in use.                                *)
(*                                                                         *)
(* Threads call grab() and release(); m_conns_in_use_mutex protects the    *)
(* count, and is held while create() connects and while release() has      *)
(* given a bad connection back to the base class but not yet removed it;   *)
(* these two critical sections are two actions each, every other one is a  *)
(* single action.  A thread that finds too many connections in use waits   *)
(* on the condition variable; release() notifies one waiter, which then    *)
(* competes for the mutex with everyone else.                              *)
(*                                                                         *)
(* mysqlpp::ConnectionPool, the base class, is not part of the repository. *)
(* It is modelled by what grab() and release() rely on: it keeps the       *)
(* connections, destroys any of the idle ones that are older than          *)
(* max_idle_time() before it hands one out, hands out an idle one if there *)
(* is one, and otherwise calls create().  The clock is left out: any       *)
(* subset of the idle connections may be too old.                          *)
(***************************************************************************)
EXTENDS Integers, FiniteSets

CONSTANTS
  Thread,             \* the threads that use the pool
  Conn,               \* the connections that may exist
  NoThread,           \* nobody owns the mutex
  NoConn,             \* NULL, for a Connection*
  pool_max_db_cons,   \* FLAGS_pool_max_db_cons
  db_retry_time,      \* FLAGS_db_retry_time
  HasDefaultCharset,  \* whether m_db_default_charset is not empty
  MaxOutages          \* bound: how often the database goes down

ASSUME ThreadAssumption == IsFiniteSet(Thread) /\ NoThread \notin Thread
ASSUME ConnAssumption == IsFiniteSet(Conn) /\ NoConn \notin Conn
ASSUME FlagAssumption ==
  /\ pool_max_db_cons \in Nat
  /\ Cardinality(Conn) > pool_max_db_cons
  /\ db_retry_time \in Nat
  /\ HasDefaultCharset \in BOOLEAN
  /\ MaxOutages \in Nat

VARIABLES
  m_conns_in_use,  \* the count of connections handed out
  mutex,           \* owner of m_conns_in_use_mutex between two actions
  at,              \* where each thread is in grab() or release()
  held,            \* the connection each thread has a pointer to
  pool,            \* each connection: absent, idle in the pool or in use
  tries,           \* attempts create() has left
  open,            \* FALSE once the destructor has run
  db,              \* whether the database accepts connections
  outages          \* how often it went down

poolVars ==
  <<m_conns_in_use, mutex, at, held, pool, tries, open, db, outages>>

InState(s) == {c \in Conn : pool[c] = s}
ThreadsAt(S) == {t \in Thread : at[t] \in S}
Waiting == ThreadsAt({"wait"})

(***************************************************************************)
(* Slips the properties have to notice.                                    *)
(***************************************************************************)
\* grab() that lets one more thread through.
FullLate == m_conns_in_use > pool_max_db_cons + 1

\* release() that forgets to notify.
NotifyNobody(now) == at' = now

\* release() that returns before --m_conns_in_use for a bad connection.
CountKeptIfBad(bad) == IF bad THEN m_conns_in_use ELSE m_conns_in_use - 1

\* release() that unlocks before it removes a bad connection.
UnlockBeforeRemove(t) == NoThread

\* release() that decrements once more for a connection it removes.
CountTwiceIfBad(bad) == m_conns_in_use - IF bad THEN 2 ELSE 1
-----------------------------------------------------------------------------
PoolInit ==
  /\ m_conns_in_use = 0
  /\ mutex = NoThread
  /\ at = [t \in Thread |-> "out"]
  /\ held = [t \in Thread |-> NoConn]
  /\ pool = [c \in Conn |-> "absent"]
  /\ tries = 0
  /\ open = TRUE
  /\ db = "up"
  /\ outages = 0

\* The condition grab() waits on to become false.
Full == m_conns_in_use > pool_max_db_cons

\* t is at lock(), or has left wait() and needs the mutex again; it gets it.
Locks(t) == at[t] \in {"lock", "relock"} /\ mutex = NoThread

\* Where grab() continues after its critical section.
AfterGrab == IF HasDefaultCharset THEN "charset" ELSE "hold"

\* The base pool destroys the idle connections in old and marks c in use.
Marked(c, old) ==
  [x \in Conn |-> IF x = c THEN "used" ELSE IF x \in old THEN "absent" ELSE pool[x]]

BeginGrab(t) ==
  /\ open
  /\ at[t] = "out"
  /\ at' = [at EXCEPT ![t] = "lock"]
  /\ UNCHANGED <<m_conns_in_use, mutex, held, pool, tries, open, db, outages>>

GrabWait(t) ==
  /\ Locks(t)
  /\ Full
  /\ at' = [at EXCEPT ![t] = "wait"]
  /\ UNCHANGED <<m_conns_in_use, mutex, held, pool, tries, open, db, outages>>

GrabIdle(t) ==
  /\ Locks(t)
  /\ ~Full
  /\ \E old \in SUBSET InState("idle") : \E c \in InState("idle") \ old :
       /\ pool' = Marked(c, old)
       /\ held' = [held EXCEPT ![t] = c]
  /\ m_conns_in_use' = m_conns_in_use + 1
  /\ at' = [at EXCEPT ![t] = AfterGrab]
  /\ UNCHANGED <<mutex, tries, open, db, outages>>

\* No idle connection is left: the base class calls create(), with the mutex
\* held until it returns.
GrabCreate(t) ==
  /\ Locks(t)
  /\ ~Full
  /\ pool' = [c \in Conn |-> IF pool[c] = "idle" THEN "absent" ELSE pool[c]]
  /\ mutex' = t
  /\ tries' = db_retry_time
  /\ at' = [at EXCEPT ![t] = "create"]
  /\ UNCHANGED <<m_conns_in_use, held, open, db, outages>>

CreateConnects(t) ==
  /\ at[t] = "create"
  /\ tries > 0
  /\ db = "up"
  /\ \E c \in InState("absent") :
       /\ pool' = [pool EXCEPT ![c] = "used"]
       /\ held' = [held EXCEPT ![t] = c]
  /\ m_conns_in_use' = m_conns_in_use + 1
  /\ mutex' = NoThread
  /\ at' = [at EXCEPT ![t] = AfterGrab]
  /\ UNCHANGED <<tries, open, db, outages>>

CreateFails(t) ==
  /\ at[t] = "create"
  /\ tries > 0
  /\ db = "down"
  /\ tries' = tries - 1
  /\ UNCHANGED <<m_conns_in_use, mutex, at, held, pool, open, db, outages>>

\* create() gives up; grab() unlocks and will return NULL.
CreateGivesUp(t) ==
  /\ at[t] = "create"
  /\ tries = 0
  /\ mutex' = NoThread
  /\ at' = [at EXCEPT ![t] = "null"]
  /\ UNCHANGED <<m_conns_in_use, held, pool, tries, open, db, outages>>

ReturnNull(t) ==
  /\ at[t] = "null"
  /\ at' = [at EXCEPT ![t] = "out"]
  /\ UNCHANGED <<m_conns_in_use, mutex, held, pool, tries, open, db, outages>>

SetDefaultClientCharset(t) ==
  /\ at[t] = "charset"
  /\ db = "up"
  /\ at' = [at EXCEPT ![t] = "hold"]
  /\ UNCHANGED <<m_conns_in_use, mutex, held, pool, tries, open, db, outages>>

\* The statement throws on a connection the server has closed, or while the
\* database is down; grab() is left without returning the connection.
SetDefaultClientCharsetThrows(t) ==
  /\ at[t] = "charset"
  /\ at' = [at EXCEPT ![t] = "out"]
  /\ held' = [held EXCEPT ![t] = NoConn]
  /\ UNCHANGED <<m_conns_in_use, mutex, pool, tries, open, db, outages>>

\* --m_conns_in_use
CountAfterRelease(bad) == m_conns_in_use - 1

\* notify_one(), given the places of the threads after the release.
NotifyOne(now) ==
  IF Waiting = {} THEN at' = now
  ELSE \E w \in Waiting : at' = [now EXCEPT ![w] = "relock"]

\* The scope of release()'s lock: remove() runs before the mutex is given up.
LockDuringRemove(t) == t

\* release() up to the test of is_bad_con: the base class takes the
\* connection back.  A good one is announced to a waiter at once; of a bad one
\* the thread keeps the pointer, and the mutex, for remove().
Release(t, bad) ==
  /\ at[t] = "hold"
  /\ mutex = NoThread
  /\ pool' = [pool EXCEPT ![held[t]] = "idle"]
  /\ m_conns_in_use' = CountAfterRelease(bad)
  /\ \/ /\ ~bad
        /\ held' = [held EXCEPT ![t] = NoConn]
        /\ mutex' = NoThread
        /\ NotifyOne([at EXCEPT ![t] = "out"])
     \/ /\ bad
        /\ held' = held
        /\ mutex' = LockDuringRemove(t)
        /\ at' = [at EXCEPT ![t] = "remove"]
  /\ UNCHANGED <<tries, open, db, outages>>

\* remove(pc) destroys the connection, then a waiter is notified.
Remove(t) ==
  /\ at[t] = "remove"
  /\ pool' = [pool EXCEPT ![held[t]] = "absent"]
  /\ held' = [held EXCEPT ![t] = NoConn]
  /\ mutex' = NoThread
  /\ NotifyOne([at EXCEPT ![t] = "out"])
  /\ UNCHANGED <<m_conns_in_use, tries, open, db, outages>>

\* wait() may return without a notification.
SpuriousWake(t) ==
  /\ at[t] = "wait"
  /\ at' = [at EXCEPT ![t] = "relock"]
  /\ UNCHANGED <<m_conns_in_use, mutex, held, pool, tries, open, db, outages>>

\* clear(): the owner destroys the pool when no thread uses it.
Destroy ==
  /\ open
  /\ \A t \in Thread : at[t] = "out"
  /\ pool' = [c \in Conn |-> "absent"]
  /\ open' = FALSE
  /\ UNCHANGED <<m_conns_in_use, mutex, at, held, tries, db, outages>>

\* The pool is gone; nothing happens any more.
Destroyed == ~open /\ UNCHANGED poolVars

DbDown ==
  /\ db = "up"
  /\ outages < MaxOutages
  /\ db' = "down"
  /\ outages' = outages + 1
  /\ UNCHANGED <<m_conns_in_use, mutex, at, held, pool, tries, open>>

DbUp ==
  /\ db = "down"
  /\ db' = "up"
  /\ UNCHANGED <<m_conns_in_use, mutex, at, held, pool, tries, open, outages>>

\* The steps inside grab(): what a thread that called it does by itself.
GrabStep(t) ==
  \/ GrabWait(t)
  \/ GrabIdle(t)
  \/ GrabCreate(t)
  \/ CreateConnects(t)
  \/ CreateFails(t)
  \/ CreateGivesUp(t)
  \/ SetDefaultClientCharset(t)

Environment == DbDown \/ DbUp \/ \E t \in Thread : SpuriousWake(t)

PoolNext ==
  \/ \E t \in Thread :
       \/ BeginGrab(t)
       \/ GrabStep(t)
       \/ ReturnNull(t)
       \/ SetDefaultClientCharsetThrows(t)
       \/ \E bad \in BOOLEAN : Release(t, bad)
       \/ Remove(t)
  \/ Environment
  \/ Destroy
  \/ Destroyed

PoolSpec == PoolInit /\ [][PoolNext]_poolVars

\* A thread inside grab() runs on, and a thread that has a connection gives
\* it back; nobody has to call grab().
PoolFairness ==
  \A t \in Thread :
    /\ WF_poolVars(GrabStep(t))
    /\ WF_poolVars(ReturnNull(t))
    /\ WF_poolVars(\E bad \in BOOLEAN : Release(t, bad))
    /\ WF_poolVars(Remove(t))
-----------------------------------------------------------------------------
PoolTypeOK ==
  /\ m_conns_in_use \in Nat
  /\ mutex \in Thread \cup {NoThread}
  /\ at \in [Thread -> {"out", "lock", "wait", "relock", "create", "null",
                        "charset", "hold", "remove"}]
  /\ held \in [Thread -> Conn \cup {NoConn}]
  /\ pool \in [Conn -> {"absent", "idle", "used"}]
  /\ tries \in 0 .. db_retry_time
  /\ open \in BOOLEAN
  /\ db \in {"up", "down"}
  /\ outages \in 0 .. MaxOutages

\* The pool's own count agrees with the connections the base class has
\* handed out, whatever mixture of waits, failed creations, exceptions and
\* releases of bad connections came before.  (A connection whose default
\* charset could not be set stays counted by both, though no thread has it.)
CountIsUsed == open => m_conns_in_use = Cardinality(InState("used"))

\* A connection that grab() returned belongs to one thread until that thread
\* calls release(): it stays marked in use, nobody else has a pointer to it,
\* and neither idle expiry nor the remove() that ends the release of a bad
\* connection by another thread destroys it.
ExclusiveUse ==
  \A t \in ThreadsAt({"charset", "hold"}) :
    /\ pool[held[t]] = "used"
    /\ \A u \in Thread \ {t} : held[u] # held[t]

\* The limit grab() enforces: connections open or being opened never exceed
\* pool_max_db_cons + 1, idle ones included, since create() is called only
\* when nothing is idle.  It is one more than the text of the flag says, "the
\* max connections in a database pool": the test in grab() is ">".
OpenBounded ==
  Cardinality(InState("used")) + Cardinality(InState("idle"))
    + Cardinality(ThreadsAt({"create"})) <= pool_max_db_cons + 1

\* While a thread waits, every slot is taken, a thread that was woken is on
\* its way to take it, or the notification of remove() is still to come.
SlotsCovered ==
  Waiting # {} =>
    m_conns_in_use + Cardinality(ThreadsAt({"relock", "create", "remove"}))
      > pool_max_db_cons

\* Until connecting fails for the first time, notify_one() is enough: no slot
\* is forgotten while a thread waits for it in grab(), although threads that
\* never waited may overtake the one that was woken.
NoLostWakeup == outages = 0 /\ db_retry_time > 0 => SlotsCovered
===============================================================================
