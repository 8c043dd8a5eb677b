----------------------- MODULE DatabaseConnector_proofs -----------------------
(***************************************************************************)
(* Proofs about the connection pool, for any number of threads and any     *)
(* value of the flags; then the connector: it uses the pool as the pool's  *)
(* specification allows, so what is proved of the pool holds of the        *)
(* connector, and what the connector itself keeps true of charsets and of  *)
(* its retries.                                                            *)
(***************************************************************************)
EXTENDS DatabaseConnector, FiniteSetTheorems, TLAPS

(***************************************************************************)
(* The sets that are counted are finite, before and after a step.          *)
(***************************************************************************)
LEMMA PoolCounts ==
  ASSUME NEW s
  PROVE  /\ IsFiniteSet(InState(s)) /\ Cardinality(InState(s)) \in Nat
         /\ IsFiniteSet(InState(s)') /\ Cardinality(InState(s)') \in Nat
<1>1. InState(s) \subseteq Conn /\ InState(s)' \subseteq Conn
  BY DEF InState
<1> QED BY <1>1, FS_Subset, FS_CardinalityType, ConnAssumption

LEMMA ThreadCounts ==
  ASSUME NEW S
  PROVE  /\ IsFiniteSet(ThreadsAt(S)) /\ Cardinality(ThreadsAt(S)) \in Nat
         /\ IsFiniteSet(ThreadsAt(S)') /\ Cardinality(ThreadsAt(S)') \in Nat
<1>1. ThreadsAt(S) \subseteq Thread /\ ThreadsAt(S)' \subseteq Thread
  BY DEF ThreadsAt
<1> QED BY <1>1, FS_Subset, FS_CardinalityType, ThreadAssumption
-----------------------------------------------------------------------------
(***************************************************************************)
(* The inductive invariant.  The mutex is owned between two actions only   *)
(* while create() runs or a bad connection is about to be removed; a       *)
(* thread has a connection exactly when grab() has got one for it and      *)
(* release() has not finished; while create() runs nothing is idle and a   *)
(* slot is free, since nobody else can get past the mutex; and for the     *)
(* same reason a connection that is about to be removed stays idle.        *)
(***************************************************************************)
Places == {"out", "lock", "wait", "relock", "create", "null", "charset", "hold",
           "remove"}

MutexInv == \A t \in Thread : at[t] \in {"create", "remove"} <=> mutex = t

HeldInv ==
  \A t \in Thread : held[t] # NoConn <=> at[t] \in {"charset", "hold", "remove"}

HolderInv ==
  \A t \in Thread : held[t] # NoConn =>
    /\ pool[held[t]] = IF at[t] = "remove" THEN "idle" ELSE "used"
    /\ \A u \in Thread \ {t} : held[u] # held[t]

ClosedInv == ~open => /\ \A t \in Thread : at[t] = "out"
                      /\ \A c \in Conn : pool[c] = "absent"

CreateInv ==
  \A t \in Thread : at[t] = "create" => /\ \A c \in Conn : pool[c] # "idle"
                                        /\ m_conns_in_use <= pool_max_db_cons

OpenInv ==
  Cardinality(InState("used")) + Cardinality(InState("idle")) <= pool_max_db_cons + 1

PoolInv == /\ PoolTypeOK
           /\ MutexInv
           /\ HeldInv
           /\ ClosedInv
           /\ CreateInv
           /\ HolderInv
           /\ CountIsUsed
           /\ OpenInv

LEMMA PoolInitInv == PoolInit => PoolInv
<1> SUFFICES ASSUME PoolInit PROVE PoolInv
  OBVIOUS
<1>1. PoolTypeOK /\ MutexInv /\ HeldInv /\ ClosedInv /\ CreateInv /\ HolderInv
  BY FlagAssumption, ThreadAssumption, ConnAssumption
     DEF PoolInit, PoolTypeOK, MutexInv, HeldInv, ClosedInv, CreateInv, HolderInv
<1>2. InState("used") = {} /\ InState("idle") = {}
  BY DEF PoolInit, InState
<1>3. CountIsUsed /\ OpenInv
  BY <1>2, FS_EmptySet, FlagAssumption DEF PoolInit, CountIsUsed, OpenInv
<1> QED BY <1>1, <1>3 DEF PoolInv

\* A step that leaves the pool, the count, the holders and the mutex alone
\* and moves one thread among the places outside create() and outside the
\* possession of a connection.
LEMMA MoveInv ==
  ASSUME PoolInv, NEW t \in Thread, NEW p,
         at[t] \notin {"create", "charset", "hold", "remove"}, open,
         p \in {"out", "lock", "wait", "relock", "null"},
         at' = [at EXCEPT ![t] = p],
         UNCHANGED <<m_conns_in_use, mutex, held, pool, tries, open, db, outages>>
  PROVE  PoolInv'
<1>1. PoolTypeOK' /\ MutexInv' /\ HeldInv' /\ ClosedInv' /\ CreateInv' /\ HolderInv'
  BY DEF PoolInv, PoolTypeOK, MutexInv, HeldInv, ClosedInv, CreateInv, HolderInv
<1>2. CountIsUsed' /\ OpenInv'
  BY DEF PoolInv, CountIsUsed, OpenInv, InState
<1> QED BY <1>1, <1>2 DEF PoolInv

\* Taking a connection that nobody has: it is marked in use, counted and
\* held by t, and no other connection becomes idle or used.
LEMMA TakeCounts ==
  ASSUME PoolInv, open, NEW c \in Conn, pool[c] # "used",
         PoolTypeOK', pool'[c] = "used",
         \A x \in Conn \ {c} : pool'[x] = pool[x] \/ (pool[x] = "idle" /\ pool'[x] = "absent")
  PROVE  /\ Cardinality(InState("used")') = m_conns_in_use + 1
         /\ pool[c] = "idle" => Cardinality(InState("idle")') <= Cardinality(InState("idle")) - 1
         /\ Cardinality(InState("idle")') <= Cardinality(InState("idle"))
<1>1. InState("used")' = InState("used") \cup {c} /\ c \notin InState("used")
  BY DEF InState
<1>2. Cardinality(InState("used")') = m_conns_in_use + 1
  BY <1>1, PoolCounts, FS_AddElement DEF PoolInv, CountIsUsed
<1>3. InState("idle")' \subseteq InState("idle") \ {c}
  BY DEF InState
<1>4. Cardinality(InState("idle") \ {c}) =
        IF c \in InState("idle") THEN Cardinality(InState("idle")) - 1
        ELSE Cardinality(InState("idle"))
  BY PoolCounts, FS_RemoveElement
<1>5. /\ IsFiniteSet(InState("idle") \ {c})
      /\ Cardinality(InState("idle")') <= Cardinality(InState("idle") \ {c})
  BY <1>3, PoolCounts, FS_Subset
<1>6. pool[c] = "idle" => c \in InState("idle")
  BY DEF InState
<1> QED BY <1>2, <1>4, <1>5, <1>6, PoolCounts

\* t comes out of the critical section of grab() with the connection c.
LEMMA TakeInv ==
  ASSUME PoolInv, open, NEW t \in Thread, at[t] \in {"lock", "relock", "create"},
         NEW c \in Conn, pool[c] # "used", pool'[c] = "used",
         \A x \in Conn \ {c} :
           pool'[x] = pool[x] \/ (pool[x] = "idle" /\ pool'[x] = "absent"),
         pool' \in [Conn -> {"absent", "idle", "used"}],
         m_conns_in_use <= pool_max_db_cons,
         mutex = NoThread \/ mutex = t, mutex' = NoThread,
         mutex = t => at[t] = "create" /\ \A x \in Conn : pool[x] # "idle",
         at[t] = "create" => mutex = t,
         pool[c] = "idle" \/ at[t] = "create",
         m_conns_in_use' = m_conns_in_use + 1,
         held' = [held EXCEPT ![t] = c],
         at' = [at EXCEPT ![t] = AfterGrab],
         UNCHANGED <<tries, open, db, outages>>
  PROVE  PoolInv'
<1>1. PoolTypeOK' /\ MutexInv' /\ HeldInv' /\ ClosedInv' /\ CreateInv'
  BY ConnAssumption, ThreadAssumption
     DEF PoolInv, PoolTypeOK, MutexInv, HeldInv, ClosedInv, CreateInv, AfterGrab
<1>2. HolderInv'
  <2>1. \A u \in Thread : at[u] # "remove" /\ at'[u] # "remove"
    BY ThreadAssumption DEF PoolInv, PoolTypeOK, MutexInv, AfterGrab
  <2>2. \A u \in Thread : held[u] # NoConn =>
          held[u] \in Conn /\ pool[held[u]] = "used"
    BY <2>1 DEF PoolInv, PoolTypeOK, HolderInv
  <2>3. \A u \in Thread : held[u] # NoConn => held[u] # c /\ pool'[held[u]] = "used"
    BY <2>2
  <2>4. held'[t] = c /\ c # NoConn /\ \A u \in Thread \ {t} : held'[u] = held[u]
    BY ConnAssumption DEF PoolInv, PoolTypeOK
  <2> QED BY <2>1, <2>3, <2>4 DEF PoolInv, HolderInv
<1>3. /\ Cardinality(InState("used")') = m_conns_in_use + 1
      /\ pool[c] = "idle" =>
           Cardinality(InState("idle")') <= Cardinality(InState("idle")) - 1
      /\ Cardinality(InState("idle")') <= Cardinality(InState("idle"))
  BY <1>1, TakeCounts
<1>4. CountIsUsed'
  BY <1>3 DEF CountIsUsed
<1>5. OpenInv'
  <2>1. CASE at[t] = "create"
    <3>1. InState("idle") = {}
      BY <2>1 DEF InState
    <3>2. Cardinality(InState("idle")') <= 0
      BY <1>3, <3>1, FS_EmptySet
    <3> QED BY <1>3, <3>2, PoolCounts, FlagAssumption
            DEF OpenInv, PoolInv, PoolTypeOK
  <2>2. CASE pool[c] = "idle"
    <3>1. Cardinality(InState("used")) = m_conns_in_use
      BY DEF PoolInv, CountIsUsed
    <3> QED BY <1>3, <2>2, <3>1, PoolCounts, FlagAssumption
            DEF OpenInv, PoolInv, PoolTypeOK
  <2> QED BY <2>1, <2>2
<1> QED BY <1>1, <1>2, <1>4, <1>5 DEF PoolInv

LEMMA GrabIdleInv ==
  ASSUME PoolInv, NEW t \in Thread, GrabIdle(t)
  PROVE  PoolInv'
<1>1. open /\ mutex = NoThread /\ at[t] \in {"lock", "relock"}
  BY DEF GrabIdle, Locks, PoolInv, ClosedInv
<1>2. PICK old \in SUBSET InState("idle") : \E c \in InState("idle") \ old :
        pool' = Marked(c, old) /\ held' = [held EXCEPT ![t] = c]
  BY DEF GrabIdle
<1>3. PICK c \in InState("idle") \ old :
        pool' = Marked(c, old) /\ held' = [held EXCEPT ![t] = c]
  BY <1>2
<1>4. /\ c \in Conn /\ pool[c] = "idle" /\ pool'[c] = "used"
      /\ \A x \in Conn \ {c} :
           pool'[x] = pool[x] \/ (pool[x] = "idle" /\ pool'[x] = "absent")
      /\ pool' \in [Conn -> {"absent", "idle", "used"}]
  <2>1. c \in Conn /\ pool[c] = "idle"
    BY <1>3 DEF InState
  <2>2. \A x \in old : pool[x] = "idle"
    BY <1>2 DEF InState
  <2>3. pool' = [x \in Conn |-> IF x = c THEN "used"
                                ELSE IF x \in old THEN "absent" ELSE pool[x]]
    BY <1>3 DEF Marked
  <2>4. pool \in [Conn -> {"absent", "idle", "used"}]
    BY DEF PoolInv, PoolTypeOK
  <2>5. pool'[c] = "used"
    BY <2>1, <2>3
  <2>6. ASSUME NEW x \in Conn \ {c}
        PROVE  pool'[x] = pool[x] \/ (pool[x] = "idle" /\ pool'[x] = "absent")
    <3>1. pool'[x] = IF x \in old THEN "absent" ELSE pool[x]
      BY <2>3
    <3> QED BY <2>2, <3>1
  <2>7. pool' \in [Conn -> {"absent", "idle", "used"}]
    BY <2>3, <2>4
  <2> QED BY <2>1, <2>5, <2>6, <2>7
<1>5. m_conns_in_use <= pool_max_db_cons
  BY FlagAssumption DEF GrabIdle, Full, PoolInv, PoolTypeOK
<1>6. mutex # t
  BY <1>1, ThreadAssumption
<1> QED BY <1>1, <1>3, <1>4, <1>5, <1>6, TakeInv DEF GrabIdle

LEMMA CreateConnectsInv ==
  ASSUME PoolInv, NEW t \in Thread, CreateConnects(t)
  PROVE  PoolInv'
<1>1. /\ at[t] = "create" /\ mutex = t /\ mutex # NoThread /\ open
      /\ \A x \in Conn : pool[x] # "idle"
      /\ m_conns_in_use <= pool_max_db_cons
  BY ThreadAssumption DEF CreateConnects, PoolInv, MutexInv, ClosedInv, CreateInv
<1>2. PICK c \in InState("absent") :
        pool' = [pool EXCEPT ![c] = "used"] /\ held' = [held EXCEPT ![t] = c]
  BY DEF CreateConnects
<1>3. /\ c \in Conn /\ pool[c] = "absent" /\ pool'[c] = "used"
      /\ \A x \in Conn \ {c} : pool'[x] = pool[x]
      /\ pool' \in [Conn -> {"absent", "idle", "used"}]
  BY <1>2 DEF InState, PoolInv, PoolTypeOK
<1>4. /\ m_conns_in_use' = m_conns_in_use + 1
      /\ mutex' = NoThread
      /\ at' = [at EXCEPT ![t] = AfterGrab]
      /\ UNCHANGED <<tries, open, db, outages>>
  BY DEF CreateConnects
<1> QED BY <1>1, <1>2, <1>3, <1>4, TakeInv

LEMMA GrabCreateInv ==
  ASSUME PoolInv, NEW t \in Thread, GrabCreate(t)
  PROVE  PoolInv'
<1>1. open /\ mutex = NoThread /\ at[t] \in {"lock", "relock"} /\ mutex' = t
  BY DEF GrabCreate, Locks, PoolInv, ClosedInv
<1>2. m_conns_in_use <= pool_max_db_cons
  BY FlagAssumption DEF GrabCreate, Full, PoolInv, PoolTypeOK
<1>3. PoolTypeOK'
  BY FlagAssumption DEF GrabCreate, PoolInv, PoolTypeOK
<1>4. MutexInv' /\ HeldInv' /\ ClosedInv'
  BY <1>1, ThreadAssumption DEF GrabCreate, PoolInv, PoolTypeOK, MutexInv, HeldInv, ClosedInv
<1>5. CreateInv' /\ HolderInv'
  <2>1. CreateInv'
    BY <1>2 DEF GrabCreate, CreateInv
  <2>2. \A u \in Thread : at[u] # "remove" /\ at'[u] # "remove"
    BY <1>1, ThreadAssumption DEF GrabCreate, PoolInv, PoolTypeOK, MutexInv
  <2>3. \A u \in Thread : held[u] # NoConn =>
          held[u] \in Conn /\ pool[held[u]] = "used" /\ pool'[held[u]] = "used"
    BY <2>2 DEF GrabCreate, PoolInv, PoolTypeOK, HolderInv
  <2>4. HolderInv'
    BY <2>2, <2>3 DEF GrabCreate, PoolInv, HolderInv
  <2> QED BY <2>1, <2>4
<1>6. InState("used")' = InState("used") /\ InState("idle")' = {}
  BY DEF GrabCreate, InState
<1>7. CountIsUsed'
  BY <1>1, <1>6 DEF GrabCreate, PoolInv, CountIsUsed
<1>8. OpenInv'
  BY <1>1, <1>2, <1>6, FS_EmptySet, FlagAssumption
     DEF OpenInv, PoolInv, PoolTypeOK, CountIsUsed
<1> QED BY <1>3, <1>4, <1>5, <1>7, <1>8 DEF PoolInv

LEMMA CreateEndsInv ==
  ASSUME PoolInv, NEW t \in Thread, CreateFails(t) \/ CreateGivesUp(t)
  PROVE  PoolInv'
<1>1. PoolTypeOK' /\ MutexInv' /\ HeldInv' /\ ClosedInv' /\ CreateInv' /\ HolderInv'
  BY ThreadAssumption, FlagAssumption
     DEF CreateFails, CreateGivesUp, PoolInv, PoolTypeOK, MutexInv, HeldInv,
         ClosedInv, CreateInv, HolderInv
<1>2. CountIsUsed' /\ OpenInv'
  BY DEF CreateFails, CreateGivesUp, PoolInv, CountIsUsed, OpenInv, InState
<1> QED BY <1>1, <1>2 DEF PoolInv

\* Leaving SetDefaultClientCharset(): the connection is kept, or forgotten.
LEMMA CharsetInv ==
  ASSUME PoolInv, NEW t \in Thread,
         SetDefaultClientCharset(t) \/ SetDefaultClientCharsetThrows(t)
  PROVE  PoolInv'
<1>1. PoolTypeOK' /\ MutexInv' /\ HeldInv' /\ ClosedInv' /\ CreateInv' /\ HolderInv'
  BY DEF SetDefaultClientCharset, SetDefaultClientCharsetThrows, PoolInv,
         PoolTypeOK, MutexInv, HeldInv, ClosedInv, CreateInv, HolderInv
<1>2. CountIsUsed' /\ OpenInv'
  BY DEF SetDefaultClientCharset, SetDefaultClientCharsetThrows, PoolInv,
         CountIsUsed, OpenInv, InState
<1> QED BY <1>1, <1>2 DEF PoolInv

\* Where the threads are after notify_one().
Notified(t) ==
  \/ Waiting = {} /\ at' = [at EXCEPT ![t] = "out"]
  \/ \E w \in Thread : /\ w # t /\ at[w] = "wait"
                       /\ at' = [at EXCEPT ![t] = "out", ![w] = "relock"]

LEMMA NotifyOneEffect ==
  ASSUME NEW t \in Thread, at[t] # "wait", NotifyOne([at EXCEPT ![t] = "out"])
  PROVE  Notified(t)
BY DEF Notified, NotifyOne, Waiting, ThreadsAt

LEMMA NotifiedPlaces ==
  ASSUME PoolInv, NEW t \in Thread, Notified(t)
  PROVE  /\ \A u \in Thread \ {t} :
              at'[u] = at[u] \/ (at[u] = "wait" /\ at'[u] = "relock")
         /\ at'[t] = "out"
         /\ at' \in [Thread -> Places]
<1>1. at \in [Thread -> Places]
  BY DEF PoolInv, PoolTypeOK, Places
<1>2. CASE at' = [at EXCEPT ![t] = "out"]
  BY <1>1, <1>2 DEF Places
<1>3. ASSUME NEW w \in Thread, w # t, at[w] = "wait",
             at' = [at EXCEPT ![t] = "out", ![w] = "relock"]
      PROVE  /\ \A u \in Thread \ {t} :
                  at'[u] = at[u] \/ (at[u] = "wait" /\ at'[u] = "relock")
             /\ at'[t] = "out"
             /\ at' \in [Thread -> Places]
  BY <1>1, <1>3 DEF Places
<1> QED BY <1>2, <1>3 DEF Notified

\* What release() does with the places: t leaves with a notification, or
\* goes on to remove().
LEMMA ReleasePlaces ==
  ASSUME PoolInv, NEW t \in Thread, NEW bad \in BOOLEAN, Release(t, bad)
  PROVE  \/ ~bad /\ Notified(t) /\ mutex' = NoThread
            /\ held' = [held EXCEPT ![t] = NoConn]
         \/ bad /\ at' = [at EXCEPT ![t] = "remove"] /\ mutex' = t /\ held' = held
BY NotifyOneEffect DEF Release, LockDuringRemove

LEMMA ReleaseInv ==
  ASSUME PoolInv, NEW t \in Thread, NEW bad \in BOOLEAN, Release(t, bad)
  PROVE  PoolInv'
<1> DEFINE c == held[t]
<1>1. at[t] = "hold" /\ mutex = NoThread /\ open
  BY DEF Release, PoolInv, ClosedInv
<1>2. c \in Conn /\ pool[c] = "used" /\ \A u \in Thread \ {t} : held[u] # c
  BY <1>1 DEF PoolInv, PoolTypeOK, HeldInv, HolderInv
<1>3. /\ \A u \in Thread \ {t} : at'[u] = at[u] \/ (at[u] = "wait" /\ at'[u] = "relock")
      /\ at'[t] = IF bad THEN "remove" ELSE "out"
      /\ at' \in [Thread -> Places]
  <2>1. at \in [Thread -> Places]
    BY DEF PoolInv, PoolTypeOK, Places
  <2>2. CASE bad
    BY <2>1, <2>2, ReleasePlaces DEF Places
  <2>3. CASE ~bad
    BY <2>3, ReleasePlaces, NotifiedPlaces
  <2> QED BY <2>2, <2>3
<1>4. pool' = [pool EXCEPT ![c] = "idle"] /\ pool \in [Conn -> {"absent", "idle", "used"}]
  BY DEF Release, PoolInv, PoolTypeOK
<1>5. /\ InState("used")' = InState("used") \ {c} /\ c \in InState("used")
      /\ InState("idle")' = InState("idle") \cup {c} /\ c \notin InState("idle")
  BY <1>2, <1>4 DEF InState
<1>6. /\ Cardinality(InState("used")) = m_conns_in_use
      /\ Cardinality(InState("used")') = m_conns_in_use - 1
      /\ m_conns_in_use' = m_conns_in_use - 1
      /\ m_conns_in_use' \in Nat
  <2>1. /\ Cardinality(InState("used")) = m_conns_in_use
        /\ m_conns_in_use' = m_conns_in_use - 1
    BY <1>1 DEF PoolInv, CountIsUsed, Release, CountAfterRelease
  <2>2. Cardinality(InState("used")') = m_conns_in_use - 1
    BY <1>5, <2>1, PoolCounts, FS_RemoveElement
  <2> QED BY <2>1, <2>2, PoolCounts
<1>7. Cardinality(InState("idle")') = Cardinality(InState("idle")) + 1
  <2>1. /\ IsFiniteSet(InState("idle")) /\ Cardinality(InState("idle")) \in Nat
    BY PoolCounts
  <2> HIDE DEF c
  <2> QED BY <1>5, <2>1, FS_AddElement
<1>8. PoolTypeOK'
  <2>1. held' \in [Thread -> Conn \cup {NoConn}] /\ mutex' \in Thread \cup {NoThread}
    BY ReleasePlaces DEF PoolInv, PoolTypeOK
  <2> QED BY <1>3, <1>4, <1>6, <2>1 DEF Release, PoolInv, PoolTypeOK, Places
<1>9. MutexInv' /\ HeldInv' /\ ClosedInv' /\ CreateInv'
  <2>1. MutexInv'
    BY <1>1, <1>3, ReleasePlaces, ThreadAssumption DEF PoolInv, PoolTypeOK, MutexInv
  <2>2. HeldInv'
    BY <1>1, <1>2, <1>3, ReleasePlaces, ConnAssumption DEF PoolInv, PoolTypeOK, HeldInv
  <2>3. ClosedInv'
    BY <1>1 DEF Release, ClosedInv
  <2>4. CreateInv'
    BY <1>1, <1>3, ThreadAssumption DEF PoolInv, MutexInv, CreateInv
  <2> QED BY <2>1, <2>2, <2>3, <2>4
<1>10. HolderInv'
  <2>1. \A u \in Thread \ {t} : held'[u] = held[u] /\ (at'[u] = "remove" <=> at[u] = "remove")
    BY <1>3, ReleasePlaces DEF PoolInv, PoolTypeOK
  <2>2. held'[t] = IF bad THEN c ELSE NoConn
    BY ReleasePlaces DEF PoolInv, PoolTypeOK
  <2>3. \A u \in Thread \ {t} : held[u] # NoConn =>
          held[u] \in Conn /\ held[u] # c /\ pool'[held[u]] = pool[held[u]]
    BY <1>2, <1>4 DEF PoolInv, PoolTypeOK
  <2>4. pool'[c] = "idle"
    BY <1>2, <1>4
  <2> HIDE DEF c
  <2> QED BY <1>2, <1>3, <2>1, <2>2, <2>3, <2>4, ConnAssumption DEF PoolInv, HolderInv
<1>11. CountIsUsed'
  BY <1>6 DEF CountIsUsed
<1>12. OpenInv'
  BY <1>6, <1>7, PoolCounts, FlagAssumption DEF OpenInv, PoolInv
<1> QED BY <1>8, <1>9, <1>10, <1>11, <1>12 DEF PoolInv

LEMMA RemovePlaces ==
  ASSUME PoolInv, NEW t \in Thread, Remove(t)
  PROVE  Notified(t)
BY NotifyOneEffect DEF Remove

LEMMA RemoveInv ==
  ASSUME PoolInv, NEW t \in Thread, Remove(t)
  PROVE  PoolInv'
<1> DEFINE c == held[t]
<1>1. at[t] = "remove" /\ mutex = t /\ open
  BY DEF Remove, PoolInv, ClosedInv, MutexInv
<1>2. c \in Conn /\ pool[c] = "idle" /\ \A u \in Thread \ {t} : held[u] # c
  BY <1>1 DEF PoolInv, PoolTypeOK, HeldInv, HolderInv
<1>3. /\ \A u \in Thread \ {t} : at'[u] = at[u] \/ (at[u] = "wait" /\ at'[u] = "relock")
      /\ at'[t] = "out"
      /\ at' \in [Thread -> Places]
  BY RemovePlaces, NotifiedPlaces
<1>4. /\ pool' = [pool EXCEPT ![c] = "absent"]
      /\ pool \in [Conn -> {"absent", "idle", "used"}]
      /\ held' = [held EXCEPT ![t] = NoConn] /\ held \in [Thread -> Conn \cup {NoConn}]
      /\ mutex' = NoThread
  BY DEF Remove, PoolInv, PoolTypeOK
<1>5. InState("used")' = InState("used") /\ InState("idle")' \subseteq InState("idle")
  BY <1>2, <1>4 DEF InState
<1>6. PoolTypeOK'
  BY <1>3, <1>4 DEF Remove, PoolInv, PoolTypeOK, Places
<1>7. MutexInv'
  BY <1>1, <1>3, <1>4, ThreadAssumption DEF PoolInv, MutexInv
<1>8. HeldInv'
  BY <1>3, <1>4 DEF PoolInv, HeldInv
<1>9. ClosedInv' /\ CreateInv'
  BY <1>1, <1>3 DEF Remove, PoolInv, MutexInv, ClosedInv, CreateInv
<1>10. HolderInv'
  <2>1. \A u \in Thread \ {t} : held[u] # NoConn => pool'[held[u]] = pool[held[u]]
    BY <1>2, <1>4
  <2> HIDE DEF c
  <2> QED BY <1>3, <1>4, <2>1 DEF PoolInv, HolderInv
<1>11. CountIsUsed'
  BY <1>5 DEF Remove, PoolInv, CountIsUsed
<1>12. OpenInv'
  <2>1. Cardinality(InState("idle")') <= Cardinality(InState("idle"))
    BY <1>5, PoolCounts, FS_Subset
  <2> QED BY <1>5, <2>1, PoolCounts, FlagAssumption DEF OpenInv, PoolInv
<1> QED BY <1>6, <1>7, <1>8, <1>9, <1>10, <1>11, <1>12 DEF PoolInv

LEMMA EnvironmentInv ==
  ASSUME PoolInv, DbDown \/ DbUp
  PROVE  PoolInv'
<1>1. PoolTypeOK' /\ MutexInv' /\ HeldInv' /\ ClosedInv' /\ CreateInv' /\ HolderInv'
  BY FlagAssumption
     DEF DbDown, DbUp, PoolInv, PoolTypeOK, MutexInv, HeldInv, ClosedInv,
         CreateInv, HolderInv
<1>2. CountIsUsed' /\ OpenInv'
  BY DEF DbDown, DbUp, PoolInv, CountIsUsed, OpenInv, InState
<1> QED BY <1>1, <1>2 DEF PoolInv

LEMMA DestroyInv ==
  ASSUME PoolInv, Destroy
  PROVE  PoolInv'
<1>1. PoolTypeOK' /\ MutexInv' /\ HeldInv' /\ ClosedInv' /\ CreateInv' /\ HolderInv'
  BY DEF Destroy, PoolInv, PoolTypeOK, MutexInv, HeldInv, ClosedInv, CreateInv, HolderInv
<1>2. InState("used")' = {} /\ InState("idle")' = {}
  BY DEF Destroy, InState
<1>3. CountIsUsed' /\ OpenInv'
  BY <1>2, FS_EmptySet, FlagAssumption DEF Destroy, CountIsUsed, OpenInv
<1> QED BY <1>1, <1>3 DEF PoolInv

LEMMA PoolStepInv == PoolInv /\ [PoolNext]_poolVars => PoolInv'
<1> SUFFICES ASSUME PoolInv, [PoolNext]_poolVars PROVE PoolInv'
  OBVIOUS
<1>1. CASE UNCHANGED poolVars
  <2>1. PoolTypeOK' /\ MutexInv' /\ HeldInv' /\ ClosedInv' /\ CreateInv' /\ HolderInv'
    BY <1>1 DEF poolVars, PoolInv, PoolTypeOK, MutexInv, HeldInv, ClosedInv,
                CreateInv, HolderInv
  <2>2. CountIsUsed' /\ OpenInv'
    BY <1>1 DEF poolVars, PoolInv, CountIsUsed, OpenInv, InState
  <2> QED BY <2>1, <2>2 DEF PoolInv
<1>2. ASSUME NEW t \in Thread,
             BeginGrab(t) \/ GrabWait(t) \/ ReturnNull(t) \/ SpuriousWake(t)
      PROVE  PoolInv'
  <2>1. PICK p \in {"out", "lock", "wait", "relock", "null"} :
          /\ at[t] \notin {"create", "charset", "hold", "remove"}
          /\ at' = [at EXCEPT ![t] = p]
          /\ UNCHANGED <<m_conns_in_use, mutex, held, pool, tries, open, db, outages>>
    BY <1>2 DEF BeginGrab, GrabWait, ReturnNull, SpuriousWake, Locks
  <2>2. open
    BY <1>2 DEF BeginGrab, GrabWait, ReturnNull, SpuriousWake, Locks, PoolInv, ClosedInv
  <2> QED BY <2>1, <2>2, MoveInv
<1>3. ASSUME NEW t \in Thread, GrabStep(t)
      PROVE  PoolInv'
  BY <1>2, <1>3, GrabIdleInv, GrabCreateInv, CreateConnectsInv, CreateEndsInv,
     CharsetInv DEF GrabStep
<1>4. ASSUME NEW t \in Thread, NEW bad \in BOOLEAN, Release(t, bad)
      PROVE  PoolInv'
  BY <1>4, ReleaseInv
<1>4a. ASSUME NEW t \in Thread, Remove(t)
       PROVE  PoolInv'
  BY <1>4a, RemoveInv
<1>5. CASE Environment
  BY <1>2, <1>5, EnvironmentInv DEF Environment
<1>6. CASE Destroy \/ Destroyed
  BY <1>1, <1>6, DestroyInv DEF Destroyed
<1> QED BY <1>1, <1>2, <1>3, <1>4, <1>4a, <1>5, <1>6, CharsetInv DEF PoolNext

\* Every step of grab(), release() and the environment keeps the invariant.
THEOREM PoolInvariant == PoolSpec => []PoolInv
BY PoolInitInv, PoolStepInv, PTL DEF PoolSpec

\* Every variable of the pool keeps its type; the count never becomes
\* negative, although release() decrements it without a test.
THEOREM PoolTypeCorrect == PoolSpec => []PoolTypeOK
BY PoolInvariant, PTL DEF PoolInv

\* m_conns_in_use is the number of connections the base class has handed
\* out, through failed creations, exceptions and removals.
THEOREM PoolCountCorrect == PoolSpec => []CountIsUsed
BY PoolInvariant, PTL DEF PoolInv

\* No two threads have the same connection, and no connection is evicted,
\* reused or destroyed while a thread has it.
THEOREM PoolExclusiveUse == PoolSpec => []ExclusiveUse
<1>1. PoolInv => ExclusiveUse
  BY DEF PoolInv, HeldInv, HolderInv, ExclusiveUse, ThreadsAt
<1> QED BY <1>1, PoolInvariant, PTL

LEMMA PoolInvBounded == PoolInv => OpenBounded
<1> SUFFICES ASSUME PoolInv PROVE OpenBounded
  OBVIOUS
<1>1. CASE ThreadsAt({"create"}) = {}
  BY <1>1, FS_EmptySet, PoolCounts DEF PoolInv, OpenInv, OpenBounded
<1>2. CASE ThreadsAt({"create"}) # {}
  <2>1. PICK t \in Thread : at[t] = "create"
    BY <1>2 DEF ThreadsAt
  <2>2. open /\ ThreadsAt({"create"}) = {t}
    BY <2>1 DEF PoolInv, MutexInv, ThreadsAt, ClosedInv
  <2>3. InState("idle") = {}
    BY <2>1 DEF PoolInv, CreateInv, InState
  <2>4. Cardinality(InState("used")) <= pool_max_db_cons
    BY <2>1, <2>2 DEF PoolInv, CreateInv, CountIsUsed
  <2>5. Cardinality(ThreadsAt({"create"})) = 1
    BY <2>2, FS_Singleton
  <2>6. Cardinality(InState("idle")) = 0
    BY <2>3, FS_EmptySet
  <2>7. Cardinality(InState("used")) \in Nat
    BY PoolCounts
  <2>8. pool_max_db_cons \in Nat
    BY FlagAssumption
  <2> QED BY <2>4, <2>5, <2>6, <2>7, <2>8 DEF OpenBounded
<1> QED BY <1>1, <1>2

\* At most pool_max_db_cons + 1 connections are open or being opened.
THEOREM PoolOpenBounded == PoolSpec => []OpenBounded
BY PoolInvariant, PoolInvBounded, PTL
-----------------------------------------------------------------------------
(***************************************************************************)
(* Wakeups.  Until connecting fails, a thread that was woken ends up with  *)
(* a connection, so the slot it was woken for is never forgotten; and the  *)
(* thread that removes a bad connection will wake one.                     *)
(***************************************************************************)
Reliable == outages = 0 /\ db_retry_time > 0

TriesLeft == \A t \in Thread : at[t] = "create" => tries > 0

WakeupInv ==
  Reliable => /\ db = "up"
              /\ TriesLeft
              /\ SlotsCovered

Awake == {"relock", "create", "remove"}

\* A step that moves one thread, unless it moves out of Awake with no new
\* connection counted, keeps SlotsCovered.
LEMMA MoveKeepsWakeup ==
  ASSUME PoolInv, SlotsCovered, NEW t \in Thread, NEW p,
         at' = [at EXCEPT ![t] = p], p # "wait", m_conns_in_use' \in Nat,
         \/ m_conns_in_use' = m_conns_in_use + 1
         \/ m_conns_in_use' = m_conns_in_use /\ (p \in Awake \/ at[t] \notin Awake)
  PROVE  SlotsCovered'
<1> DEFINE n == Cardinality(ThreadsAt(Awake))
           m == Cardinality(ThreadsAt(Awake)')
<1>1. n \in Nat /\ m \in Nat
  BY ThreadCounts
<1>2. /\ p \in Awake /\ at[t] \in Awake => m = n
      /\ p \notin Awake /\ at[t] \notin Awake => m = n
      /\ p \in Awake /\ at[t] \notin Awake => m = n + 1
      /\ p \notin Awake /\ at[t] \in Awake => m = n - 1
  <2>1. at'[t] = p /\ \A x \in Thread \ {t} : at'[x] = at[x]
    BY DEF PoolInv, PoolTypeOK
  <2>2. CASE p \in Awake <=> at[t] \in Awake
    BY <2>1, <2>2 DEF ThreadsAt
  <2>3. CASE p \in Awake /\ at[t] \notin Awake
    <3>1. ThreadsAt(Awake)' = ThreadsAt(Awake) \cup {t} /\ t \notin ThreadsAt(Awake)
      BY <2>1, <2>3 DEF ThreadsAt
    <3> QED BY <2>3, <3>1, ThreadCounts, FS_AddElement
  <2>4. CASE p \notin Awake /\ at[t] \in Awake
    <3>1. ThreadsAt(Awake)' = ThreadsAt(Awake) \ {t} /\ t \in ThreadsAt(Awake)
      BY <2>1, <2>4 DEF ThreadsAt
    <3> QED BY <2>4, <3>1, ThreadCounts, FS_RemoveElement
  <2> QED BY <2>2, <2>3, <2>4
<1>3. Waiting' \subseteq Waiting
  BY DEF Waiting, ThreadsAt, PoolInv, PoolTypeOK
<1>4. Waiting # {} => m_conns_in_use + n > pool_max_db_cons
  BY DEF SlotsCovered, Awake
<1>5. m_conns_in_use \in Nat
  BY DEF PoolInv, PoolTypeOK
<1>6. Waiting' # {} => m_conns_in_use' + m > pool_max_db_cons
  BY <1>1, <1>2, <1>3, <1>4, <1>5, FlagAssumption
<1> QED BY <1>6 DEF SlotsCovered, Awake

\* notify_one() by a thread that gives up a slot, or whose slot was free
\* already, puts a waiter in its place.
LEMMA NotifyKeepsWakeup ==
  ASSUME PoolInv, SlotsCovered, NEW t \in Thread, Notified(t),
         \/ at[t] = "hold" /\ m_conns_in_use' = m_conns_in_use - 1
         \/ at[t] = "remove" /\ m_conns_in_use' = m_conns_in_use
  PROVE  SlotsCovered'
<1> DEFINE n == Cardinality(ThreadsAt(Awake))
           m == Cardinality(ThreadsAt(Awake)')
<1>1. CASE Waiting = {} /\ at' = [at EXCEPT ![t] = "out"]
  <2>1. Waiting' = {}
    BY <1>1 DEF Waiting, ThreadsAt, PoolInv, PoolTypeOK
  <2> QED BY <2>1 DEF SlotsCovered
<1>2. ASSUME NEW w \in Thread, w # t, at[w] = "wait",
             at' = [at EXCEPT ![t] = "out", ![w] = "relock"]
      PROVE  SlotsCovered'
  <2>1. m_conns_in_use \in Nat /\ n \in Nat /\ m \in Nat
    BY ThreadCounts DEF PoolInv, PoolTypeOK
  <2>2. w \in Waiting
    BY <1>2 DEF Waiting, ThreadsAt
  <2>3. m_conns_in_use + n > pool_max_db_cons
    BY <2>2 DEF SlotsCovered, Awake
  <2>4. at'[t] = "out" /\ at'[w] = "relock" /\ \A x \in Thread \ {t, w} : at'[x] = at[x]
    BY <1>2 DEF PoolInv, PoolTypeOK
  <2>5. CASE at[t] = "hold" /\ m_conns_in_use' = m_conns_in_use - 1
    <3>1. /\ ThreadsAt(Awake)' = ThreadsAt(Awake) \cup {w}
          /\ w \notin ThreadsAt(Awake)
      BY <1>2, <2>4, <2>5 DEF ThreadsAt, Awake
    <3>2. m = n + 1
      BY <3>1, ThreadCounts, FS_AddElement
    <3>3. m_conns_in_use' + m > pool_max_db_cons
      BY <2>1, <2>3, <2>5, <3>2, FlagAssumption
    <3> QED BY <3>3 DEF SlotsCovered, Awake
  <2>6. CASE at[t] = "remove" /\ m_conns_in_use' = m_conns_in_use
    <3> DEFINE S == ThreadsAt(Awake) \ {t}
    <3>1. /\ ThreadsAt(Awake)' = S \cup {w}
          /\ w \notin S /\ t \in ThreadsAt(Awake)
      BY <1>2, <2>4, <2>6 DEF ThreadsAt, Awake
    <3>2. Cardinality(S) = n - 1 /\ IsFiniteSet(S)
      BY <3>1, ThreadCounts, FS_RemoveElement
    <3> HIDE DEF S
    <3>3. m = n
      <4>1. Cardinality(S \cup {w}) = Cardinality(S) + 1
        BY <3>1, <3>2, FS_AddElement
      <4> QED BY <2>1, <3>1, <3>2, <4>1
    <3>4. m_conns_in_use' + m > pool_max_db_cons
      BY <2>1, <2>3, <2>6, <3>3
    <3> QED BY <3>4 DEF SlotsCovered, Awake
  <2> QED BY <2>5, <2>6
<1> QED BY <1>1, <1>2 DEF Notified

LEMMA ReleaseKeepsWakeup ==
  ASSUME PoolInv, SlotsCovered, NEW t \in Thread, NEW bad \in BOOLEAN, Release(t, bad)
  PROVE  SlotsCovered'
<1>1. at[t] = "hold" /\ m_conns_in_use' = m_conns_in_use - 1 /\ m_conns_in_use \in Nat
  BY DEF Release, CountAfterRelease, PoolInv, PoolTypeOK
<1>2. CASE Notified(t)
  BY <1>1, <1>2, NotifyKeepsWakeup
<1>3. CASE at' = [at EXCEPT ![t] = "remove"]
  <2>1. at'[t] = "remove" /\ \A x \in Thread \ {t} : at'[x] = at[x]
    BY <1>3 DEF PoolInv, PoolTypeOK
  <2>2. ThreadsAt(Awake)' = ThreadsAt(Awake) \cup {t} /\ t \notin ThreadsAt(Awake)
    BY <1>1, <2>1 DEF ThreadsAt, Awake
  <2>3. Cardinality(ThreadsAt(Awake)') = Cardinality(ThreadsAt(Awake)) + 1
    BY <2>2, ThreadCounts, FS_AddElement
  <2>4. Waiting' \subseteq Waiting
    BY <2>1 DEF Waiting, ThreadsAt
  <2>5. Cardinality(ThreadsAt(Awake)) \in Nat
    BY ThreadCounts
  <2>6. Waiting # {} => m_conns_in_use + Cardinality(ThreadsAt(Awake)) > pool_max_db_cons
    BY DEF SlotsCovered, Awake
  <2>7. Waiting' # {} => m_conns_in_use' + Cardinality(ThreadsAt(Awake)') > pool_max_db_cons
    BY <1>1, <2>3, <2>4, <2>5, <2>6, FlagAssumption
  <2> QED BY <2>7 DEF SlotsCovered, Awake
<1> QED BY <1>2, <1>3, ReleasePlaces

LEMMA WakeupStep == PoolInv /\ WakeupInv /\ [PoolNext]_poolVars => WakeupInv'
<1> SUFFICES ASSUME PoolInv, WakeupInv, [PoolNext]_poolVars, Reliable'
             PROVE  db' = "up" /\ TriesLeft' /\ SlotsCovered'
  BY DEF WakeupInv
<1>0. Reliable /\ ~DbDown
  <2>1. outages' = 0 /\ db_retry_time > 0 /\ outages \in Nat
    BY FlagAssumption DEF Reliable, PoolInv, PoolTypeOK
  <2>2. ~DbDown
    BY <2>1 DEF DbDown
  <2>3. outages' = outages
    BY <2>2 DEF PoolNext, GrabStep, Environment, Destroyed, poolVars, BeginGrab,
                GrabWait, GrabIdle, GrabCreate, CreateConnects, CreateFails,
                CreateGivesUp, ReturnNull, SetDefaultClientCharset,
                SetDefaultClientCharsetThrows, Release, Remove, SpuriousWake, Destroy,
                DbUp
  <2> QED BY <2>1, <2>2, <2>3 DEF Reliable
<1>1. db = "up" /\ TriesLeft /\ SlotsCovered
  BY <1>0 DEF WakeupInv
<1>2. ~DbUp /\ \A t \in Thread : ~CreateFails(t) /\ ~CreateGivesUp(t)
  BY <1>1, ThreadAssumption, FlagAssumption
     DEF DbUp, CreateFails, CreateGivesUp, PoolInv, PoolTypeOK, TriesLeft
<1>3. PoolInv' /\ m_conns_in_use' \in Nat
  BY PoolStepInv DEF PoolInv, PoolTypeOK
<1>4. CASE UNCHANGED poolVars
  BY <1>1, <1>4 DEF poolVars, SlotsCovered, Waiting, ThreadsAt, TriesLeft
<1>5. ASSUME NEW t \in Thread, GrabWait(t)
      PROVE  db' = "up" /\ TriesLeft' /\ SlotsCovered'
  <2>1. m_conns_in_use' > pool_max_db_cons
    BY <1>5 DEF GrabWait, Full
  <2>2. Cardinality(ThreadsAt(Awake)') \in Nat
    BY ThreadCounts
  <2>3. SlotsCovered'
    BY <1>3, <2>1, <2>2, FlagAssumption DEF SlotsCovered, Awake
  <2> QED BY <1>1, <1>5, <2>3 DEF GrabWait, TriesLeft, PoolInv, PoolTypeOK
<1>6. ASSUME NEW t \in Thread, BeginGrab(t) \/ ReturnNull(t) \/ SpuriousWake(t)
      PROVE  db' = "up" /\ TriesLeft' /\ SlotsCovered'
  <2>1. PICK p : /\ at' = [at EXCEPT ![t] = p] /\ p # "wait"
                 /\ m_conns_in_use' = m_conns_in_use
                 /\ at[t] \notin Awake
    BY <1>6 DEF BeginGrab, ReturnNull, SpuriousWake, Awake
  <2>2. SlotsCovered'
    BY <1>1, <1>3, <2>1, MoveKeepsWakeup
  <2> QED BY <1>1, <1>6, <2>2
          DEF BeginGrab, ReturnNull, SpuriousWake, TriesLeft, PoolInv, PoolTypeOK
<1>7. ASSUME NEW t \in Thread, GrabIdle(t) \/ CreateConnects(t)
      PROVE  db' = "up" /\ TriesLeft' /\ SlotsCovered'
  <2>1. at' = [at EXCEPT ![t] = AfterGrab] /\ m_conns_in_use' = m_conns_in_use + 1
    BY <1>7 DEF GrabIdle, CreateConnects
  <2>2. AfterGrab # "wait"
    BY DEF AfterGrab
  <2>3. SlotsCovered'
    BY <1>1, <1>3, <2>1, <2>2, MoveKeepsWakeup
  <2> QED BY <1>1, <1>7, <2>1, <2>3
          DEF GrabIdle, CreateConnects, AfterGrab, TriesLeft, PoolInv, PoolTypeOK
<1>8. ASSUME NEW t \in Thread, GrabCreate(t)
      PROVE  db' = "up" /\ TriesLeft' /\ SlotsCovered'
  <2>1. at' = [at EXCEPT ![t] = "create"] /\ m_conns_in_use' = m_conns_in_use
    BY <1>8 DEF GrabCreate
  <2>2. SlotsCovered'
    BY <1>1, <1>3, <2>1, MoveKeepsWakeup DEF Awake
  <2> QED BY <1>0, <1>1, <1>8, <2>2 DEF GrabCreate, Reliable, TriesLeft
<1>9. ASSUME NEW t \in Thread,
             SetDefaultClientCharset(t) \/ SetDefaultClientCharsetThrows(t)
      PROVE  db' = "up" /\ TriesLeft' /\ SlotsCovered'
  <2>1. PICK p : /\ at' = [at EXCEPT ![t] = p] /\ p # "wait"
                 /\ m_conns_in_use' = m_conns_in_use
                 /\ at[t] \notin Awake
    BY <1>9 DEF SetDefaultClientCharset, SetDefaultClientCharsetThrows, Awake
  <2>2. SlotsCovered'
    BY <1>1, <1>3, <2>1, MoveKeepsWakeup
  <2> QED BY <1>1, <1>9, <2>2
          DEF SetDefaultClientCharset, SetDefaultClientCharsetThrows, TriesLeft, PoolInv,
              PoolTypeOK
<1>10. ASSUME NEW t \in Thread, (\E bad \in BOOLEAN : Release(t, bad)) \/ Remove(t)
       PROVE  db' = "up" /\ TriesLeft' /\ SlotsCovered'
  <2>1. SlotsCovered'
    <3>1. CASE \E bad \in BOOLEAN : Release(t, bad)
      BY <1>1, <3>1, ReleaseKeepsWakeup
    <3>2. CASE Remove(t)
      <4>1. at[t] = "remove" /\ m_conns_in_use' = m_conns_in_use
        BY <3>2 DEF Remove
      <4> QED BY <1>1, <3>2, <4>1, RemovePlaces, NotifyKeepsWakeup
    <3> QED BY <1>10, <3>1, <3>2
  <2>2. \A u \in Thread : at'[u] = "create" => at[u] = "create"
    <3>1. Notified(t) \/ at' = [at EXCEPT ![t] = "remove"]
      BY <1>10, ReleasePlaces, RemovePlaces
    <3>2. CASE Notified(t)
      BY <3>2, NotifiedPlaces
    <3> QED BY <3>1, <3>2 DEF PoolInv, PoolTypeOK
  <2>3. db' = db /\ tries' = tries
    BY <1>10 DEF Release, Remove
  <2> QED BY <1>1, <2>1, <2>2, <2>3 DEF TriesLeft
<1>11. CASE Destroy
  <2>1. Waiting' = {}
    BY <1>11 DEF Destroy, Waiting, ThreadsAt
  <2> QED BY <1>1, <1>11, <2>1 DEF Destroy, SlotsCovered, TriesLeft
<1> QED BY <1>0, <1>2, <1>4, <1>5, <1>6, <1>7, <1>8, <1>9, <1>10, <1>11
        DEF PoolNext, GrabStep, Environment, Destroyed

LEMMA WakeupInit == PoolInit => WakeupInv
<1> SUFFICES ASSUME PoolInit PROVE WakeupInv
  OBVIOUS
<1>1. Waiting = {}
  BY DEF PoolInit, Waiting, ThreadsAt
<1> QED BY <1>1 DEF PoolInit, WakeupInv, SlotsCovered, TriesLeft

\* Until connecting fails for the first time, notify_one() never loses a
\* slot: while a thread waits in grab(), every slot is taken or a woken
\* thread is on its way to it.  After an outage this is false: see
\* EveryCallReturns.
THEOREM PoolNoLostWakeup == PoolSpec => []NoLostWakeup
<1>1. WakeupInv => NoLostWakeup
  BY DEF WakeupInv, NoLostWakeup, Reliable
<1> QED BY <1>1, WakeupInit, WakeupStep, PoolInvariant, PTL DEF PoolSpec
-----------------------------------------------------------------------------
(* The connector. *)
LEMMA ConnStepIsPoolStep == [ConnNext]_vars => [PoolNext]_poolVars
<1> SUFFICES ASSUME [ConnNext]_vars PROVE [PoolNext]_poolVars
  OBVIOUS
<1>1. CASE UNCHANGED vars
  BY <1>1 DEF vars
<1>2. ASSUME NEW t \in Thread, NEW o \in Operation, Call(t, o)
      PROVE  UNCHANGED poolVars
  BY <1>2 DEF Call
<1>3. ASSUME NEW t \in Thread,
             \/ GiveUp(t) \/ StatementFails(t) \/ ReplyLost(t) \/ RunStatement(t)
             \/ MakeQuery(t) \/ SwitchCharset(t) \/ RunCharsetQuery(t)
             \/ RestoreCharset(t)
      PROVE  UNCHANGED poolVars
  BY <1>3 DEF GiveUp, StatementFails, ReplyLost, RunStatement, MakeQuery,
              SwitchCharset, RunCharsetQuery, RestoreCharset, Throws
<1>4. ASSUME NEW t \in Thread,
             \/ Attempt(t) \/ InGrab(t) \/ GotNull(t)
             \/ ReleaseGood(t) \/ ReleaseBad(t) \/ RemoveBad(t)
      PROVE  PoolNext
  <2>1. \/ BeginGrab(t) \/ GrabStep(t) \/ ReturnNull(t)
        \/ Release(t, FALSE) \/ Release(t, TRUE) \/ Remove(t)
    BY <1>4 DEF Attempt, InGrab, GotNull, ReleaseGood, ReleaseBad, RemoveBad, BadAfterThrow
  <2> QED BY <2>1 DEF PoolNext
<1>5. CASE Surroundings \/ DestroyConnector \/ ConnectorDestroyed
  BY <1>5 DEF Surroundings, DestroyConnector, ConnectorDestroyed, PoolNext
<1> QED BY <1>1, <1>2, <1>3, <1>4, <1>5 DEF ConnNext, CallStep

\* The connector implements the pool's specification: however its calls
\* retry, fail and give up, it grabs and releases as the pool expects.
THEOREM ConnectorImplementsPool == ConnSpec => PoolSpec
<1>1. ConnInit => PoolInit
  BY DEF ConnInit
<1> QED BY <1>1, ConnStepIsPoolStep, PTL DEF ConnSpec, PoolSpec

\* So no two calls ever share a connection.
THEOREM ConnectorExclusiveUse == ConnSpec => []ExclusiveUse
BY ConnectorImplementsPool, PoolExclusiveUse, PTL

\* So the calls in progress never open more than pool_max_db_cons + 1
\* connections.
THEOREM ConnectorOpenBounded == ConnSpec => []OpenBounded
BY ConnectorImplementsPool, PoolOpenBounded, PTL
-----------------------------------------------------------------------------
(***************************************************************************)
(* Charsets.  A call has a connection exactly in the stages after grab()   *)
(* and before release(), and keeps a pointer while it removes a bad one;   *)
(* between the two SET NAMES it alone has the switched connection, and     *)
(* remembers the server's charset; a connection goes back to the pool only *)
(* from the stage "good", where the charset is the server's again.         *)
(***************************************************************************)
Running == {"body", "switched", "queried", "good", "bad"}

ConnType ==
  /\ HasDefaultCharset = FALSE
  /\ stage \in [Thread -> {"idle", "loop", "grab", "remove"} \cup Running]
  /\ charset \in [Conn -> Charset]
  /\ original \in [Thread -> Charset]

StageInv ==
  \A t \in Thread : /\ stage[t] \in Running <=> at[t] = "hold"
                    /\ stage[t] = "remove" <=> at[t] = "remove"
                    /\ stage[t] # "grab" => at[t] \in {"out", "hold", "remove"}
                    /\ at[t] # "charset"

SwitchedInv ==
  \A t \in Thread :
    /\ stage[t] \in {"body", "good"} => charset[held[t]] = "server"
    /\ stage[t] \in {"switched", "queried"} => original[t] = "server"

Removing(c) == \E t \in Thread : at[t] = "remove" /\ held[t] = c

IdleInv == \A c \in Conn : pool[c] = "idle" => charset[c] = "server" \/ Removing(c)

ConnInv == ConnType /\ StageInv /\ SwitchedInv /\ IdleInv

LEMMA ConnInitInv == ConnInit => ConnInv
BY DEF ConnInit, PoolInit, ConnInv, ConnType, StageInv, SwitchedInv, IdleInv,
       Running, Charset

\* A step of a call that leaves pool, places and holders alone and changes
\* no charset.
LEMMA QuietInv ==
  ASSUME PoolInv, ConnInv, NEW t \in Thread, NEW s,
         \/ /\ stage[t] \in {"idle", "loop"} /\ s \in {"idle", "loop"}
         \/ /\ stage[t] = "body" /\ s \in {"good", "bad"}
         \/ /\ stage[t] = "switched" /\ s \in {"queried", "bad"}
         \/ /\ stage[t] = "queried" /\ s = "bad",
         stage' = [stage EXCEPT ![t] = s],
         UNCHANGED <<at, held, pool, charset, original>>
  PROVE  ConnInv'
BY DEF ConnInv, ConnType, StageInv, SwitchedInv, IdleInv, Removing, Running

\* Only t's own connection changes its charset.
LEMMA SwitchInv ==
  ASSUME PoolInv, ConnInv, NEW t \in Thread, SwitchCharset(t) \/ RestoreCharset(t)
  PROVE  ConnInv'
<1>1. at[t] = "hold" /\ held[t] \in Conn /\ pool[held[t]] = "used"
  BY DEF SwitchCharset, RestoreCharset, ConnInv, StageInv, Running,
         PoolInv, PoolTypeOK, HeldInv, HolderInv
<1>2. \A u \in Thread \ {t} : stage[u] \in Running => held[u] \in Conn /\ held[u] # held[t]
  BY <1>1 DEF ConnInv, StageInv, PoolInv, PoolTypeOK, HeldInv, HolderInv
<1>3. /\ stage' = [stage EXCEPT ![t] = stage'[t]]
      /\ \/ /\ stage[t] = "body" /\ stage'[t] = "switched"
            /\ original' = [original EXCEPT ![t] = charset[held[t]]]
            /\ charset' = [charset EXCEPT ![held[t]] = "asked"]
         \/ /\ stage[t] = "queried" /\ stage'[t] = "good"
            /\ original' = original
            /\ charset' = [charset EXCEPT ![held[t]] = original[t]]
      /\ UNCHANGED <<at, held, pool>>
  BY DEF SwitchCharset, RestoreCharset, Set, poolVars, ConnInv, ConnType
<1>4. ConnType'
  BY <1>1, <1>3 DEF ConnInv, ConnType, Charset, Running
<1>5. StageInv'
  BY <1>3 DEF ConnInv, ConnType, StageInv, Running
<1>6. IdleInv'
  BY <1>1, <1>3 DEF ConnInv, ConnType, IdleInv, Removing
<1>7. SwitchedInv'
  BY <1>1, <1>2, <1>3 DEF ConnInv, ConnType, SwitchedInv, Running
<1> QED BY <1>4, <1>5, <1>6, <1>7 DEF ConnInv

\* A connection that comes out of grab() has the server's charset: an idle
\* one by IdleInv, a new one because it is new.
LEMMA GrabbedInv ==
  ASSUME PoolInv, PoolInv', ConnInv, NEW t \in Thread, stage[t] = "grab",
         NEW c \in Conn, held' = [held EXCEPT ![t] = c],
         at' = [at EXCEPT ![t] = "hold"],
         stage' = [stage EXCEPT ![t] = "body"],
         charset' \in [Conn -> Charset], charset'[c] = "server",
         \A x \in Conn : pool[x] # "absent" => charset'[x] = charset[x],
         \A x \in Conn : pool'[x] = "idle" => pool[x] = "idle",
         original' = original
  PROVE  ConnInv'
<1>1. ConnType'
  BY DEF ConnInv, ConnType, Running
<1>2. StageInv'
  BY DEF ConnInv, ConnType, StageInv, Running, PoolInv, PoolTypeOK
<1>3. IdleInv'
  <2>1. at[t] # "remove"
    BY DEF ConnInv, StageInv
  <2>2. \A x \in Conn : Removing(x) => Removing(x)'
    BY <2>1 DEF Removing, PoolInv, PoolTypeOK
  <2> QED BY <2>2 DEF ConnInv, IdleInv
<1>4. SwitchedInv'
  <2> SUFFICES ASSUME NEW u \in Thread
               PROVE  /\ stage'[u] \in {"body", "good"} => charset'[held'[u]] = "server"
                      /\ stage'[u] \in {"switched", "queried"} => original'[u] = "server"
    BY DEF SwitchedInv
  <2>1. CASE u = t
    BY <2>1 DEF ConnInv, ConnType, PoolInv, PoolTypeOK
  <2>2. CASE u # t
    <3>1. stage'[u] = stage[u] /\ held'[u] = held[u]
      BY <2>2 DEF ConnInv, ConnType, PoolInv, PoolTypeOK
    <3>2. stage[u] \in Running => held[u] \in Conn /\ pool[held[u]] = "used"
      BY DEF ConnInv, StageInv, PoolInv, PoolTypeOK, HeldInv, HolderInv
    <3> QED BY <3>1, <3>2 DEF ConnInv, SwitchedInv, Running
  <2> QED BY <2>1, <2>2
<1> QED BY <1>1, <1>2, <1>3, <1>4 DEF ConnInv

\* A thread that is still inside grab(), or has just entered or left it
\* without a connection.
LEMMA OutsideInv ==
  ASSUME PoolInv, PoolInv', ConnInv, NEW t \in Thread, stage[t] \notin Running,
         stage[t] # "remove",
         NEW p, p \notin {"hold", "charset", "remove"}, at' = [at EXCEPT ![t] = p],
         NEW s \in {"idle", "loop", "grab"}, stage' = [stage EXCEPT ![t] = s],
         s # "grab" => p = "out",
         \A x \in Conn : pool'[x] = "idle" => pool[x] = "idle",
         UNCHANGED <<held, charset, original>>
  PROVE  ConnInv'
<1>1. ConnType' /\ IdleInv'
  <2>1. at[t] # "remove"
    BY DEF ConnInv, StageInv
  <2>2. \A x \in Conn : Removing(x) => Removing(x)'
    BY <2>1 DEF Removing, PoolInv, PoolTypeOK
  <2> QED BY <2>2 DEF ConnInv, ConnType, IdleInv
<1>2. StageInv'
  BY DEF ConnInv, ConnType, StageInv, Running, PoolInv, PoolTypeOK
<1>3. SwitchedInv'
  BY DEF ConnInv, ConnType, SwitchedInv, Running
<1> QED BY <1>1, <1>2, <1>3 DEF ConnInv

LEMMA InGrabInv ==
  ASSUME PoolInv, PoolInv', ConnInv, NEW t \in Thread, InGrab(t)
  PROVE  ConnInv'
<1>1. /\ stage[t] = "grab" /\ GrabStep(t) /\ original' = original
      /\ stage' = IF at'[t] = "hold" THEN [stage EXCEPT ![t] = "body"] ELSE stage
      /\ charset' = [c \in Conn |-> IF pool[c] = "absent" /\ pool'[c] = "used"
                                      THEN "server" ELSE charset[c]]
  BY DEF InGrab, Set
<1>2. /\ charset' \in [Conn -> Charset]
      /\ \A x \in Conn : pool[x] # "absent" => charset'[x] = charset[x]
  BY <1>1 DEF ConnInv, ConnType, Charset
<1>3. at \in [Thread -> Places] /\ stage = [stage EXCEPT ![t] = "grab"]
  BY <1>1 DEF PoolInv, PoolTypeOK, ConnInv, ConnType, Places
<1>4. AfterGrab = "hold" /\ at[t] # "charset"
  BY DEF AfterGrab, ConnInv, ConnType, StageInv
<1>5. CASE GrabWait(t) \/ GrabCreate(t) \/ CreateFails(t) \/ CreateGivesUp(t)
  <2>1. PICK p : /\ p \notin {"hold", "charset", "remove"} /\ at' = [at EXCEPT ![t] = p]
    <3>1. CASE CreateFails(t)
      BY <1>3, <3>1 DEF CreateFails
    <3> QED BY <1>5, <3>1 DEF GrabWait, GrabCreate, CreateGivesUp
  <2>2. held' = held /\ \A x \in Conn : pool'[x] = pool[x]
                                        \/ (pool[x] = "idle" /\ pool'[x] = "absent")
    BY <1>5 DEF GrabWait, GrabCreate, CreateFails, CreateGivesUp, PoolInv, PoolTypeOK
  <2>3. stage' = stage
    BY <1>1, <1>3, <2>1
  <2>4. charset' = charset
    BY <1>1, <2>2 DEF ConnInv, ConnType
  <2>5. stage[t] \notin Running /\ stage[t] # "remove" /\ \A x \in Conn : pool'[x] = "idle" => pool[x] = "idle"
    BY <1>1, <2>2 DEF Running
  <2>6. stage' = [stage EXCEPT ![t] = "grab"]
    BY <1>3, <2>3
  <2> QED BY <1>1, <2>1, <2>2, <2>4, <2>5, <2>6, OutsideInv
<1>6. CASE GrabIdle(t)
  <2>1. PICK old \in SUBSET InState("idle") : \E c \in InState("idle") \ old :
          pool' = Marked(c, old) /\ held' = [held EXCEPT ![t] = c]
    BY <1>6 DEF GrabIdle
  <2>2. PICK c \in InState("idle") \ old :
          pool' = Marked(c, old) /\ held' = [held EXCEPT ![t] = c]
    BY <2>1
  <2>3. c \in Conn /\ pool[c] = "idle" /\ charset'[c] = "server"
    <3>1. \A u \in Thread : at[u] # "remove"
      BY <1>6, ThreadAssumption DEF GrabIdle, Locks, PoolInv, MutexInv
    <3> QED BY <1>2, <2>2, <3>1 DEF InState, ConnInv, IdleInv, Removing
  <2>4. \A x \in Conn : pool'[x] = "idle" => pool[x] = "idle"
    BY <2>2 DEF Marked
  <2>5. at' = [at EXCEPT ![t] = "hold"] /\ at'[t] = "hold"
    BY <1>3, <1>4, <1>6 DEF GrabIdle
  <2> QED BY <1>1, <1>2, <2>2, <2>3, <2>4, <2>5, GrabbedInv
<1>7. CASE CreateConnects(t)
  <2>1. PICK c \in InState("absent") :
          pool' = [pool EXCEPT ![c] = "used"] /\ held' = [held EXCEPT ![t] = c]
    BY <1>7 DEF CreateConnects
  <2>2. c \in Conn /\ pool[c] = "absent" /\ pool'[c] = "used"
    BY <2>1 DEF InState, PoolInv, PoolTypeOK
  <2>3. charset'[c] = "server"
    BY <1>1, <2>2
  <2>4. \A x \in Conn : pool'[x] = "idle" => pool[x] = "idle"
    BY <2>1, <2>2 DEF PoolInv, PoolTypeOK
  <2>5. at' = [at EXCEPT ![t] = "hold"] /\ at'[t] = "hold"
    BY <1>3, <1>4, <1>7 DEF CreateConnects
  <2> QED BY <1>1, <1>2, <2>1, <2>2, <2>3, <2>4, <2>5, GrabbedInv
<1>8. ~SetDefaultClientCharset(t)
  BY <1>4 DEF SetDefaultClientCharset
<1> QED BY <1>1, <1>5, <1>6, <1>7, <1>8 DEF GrabStep

\* Only a connection with the server's charset goes back to the pool for
\* good.
LEMMA GiveBackInv ==
  ASSUME PoolInv, PoolInv', ConnInv, NEW t \in Thread, ReleaseGood(t) \/ ReleaseBad(t)
  PROVE  ConnInv'
<1>1. PICK bad \in BOOLEAN : /\ Release(t, bad) /\ (bad \/ stage[t] = "good")
                            /\ (bad => stage' = [stage EXCEPT ![t] = "remove"])
                            /\ (~bad => stage' = [stage EXCEPT ![t] = "idle"])
  BY DEF ReleaseGood, ReleaseBad, BadAfterThrow, Set
<1>2. /\ stage[t] \in Running /\ stage[t] # "remove" /\ charset' = charset /\ original' = original
      /\ pool' = [pool EXCEPT ![held[t]] = "idle"]
  BY <1>1 DEF ReleaseGood, ReleaseBad, Release, Running
<1>3. /\ held'[t] = IF bad THEN held[t] ELSE NoConn
      /\ \A u \in Thread \ {t} : held'[u] = held[u]
  BY <1>1, ReleasePlaces DEF PoolInv, PoolTypeOK
<1>4. /\ at'[t] = IF bad THEN "remove" ELSE "out"
      /\ \A u \in Thread \ {t} : at'[u] = at[u] \/ (at[u] = "wait" /\ at'[u] = "relock")
  <2>1. CASE bad
    BY <1>1, <2>1, ReleasePlaces DEF PoolInv, PoolTypeOK
  <2>2. CASE ~bad
    BY <1>1, <2>2, ReleasePlaces, NotifiedPlaces
  <2> QED BY <2>1, <2>2
<1>5. ConnType'
  BY <1>1, <1>2 DEF ConnInv, ConnType
<1>6. StageInv'
  BY <1>1, <1>2, <1>4 DEF ConnInv, ConnType, StageInv, Running
<1>7. IdleInv'
  <2> SUFFICES ASSUME NEW c \in Conn, pool'[c] = "idle"
               PROVE  charset'[c] = "server" \/ Removing(c)'
    BY DEF IdleInv
  <2>1. CASE c = held[t]
    BY <1>1, <1>2, <1>3, <1>4, <2>1 DEF ConnInv, SwitchedInv, Removing
  <2>2. CASE c # held[t]
    <3>1. pool[c] = "idle"
      BY <1>2, <2>2 DEF PoolInv, PoolTypeOK
    <3>2. Removing(c) => Removing(c)'
      BY <1>3, <1>4, <2>2 DEF Removing
    <3> QED BY <1>2, <3>1, <3>2 DEF ConnInv, IdleInv
  <2> QED BY <2>1, <2>2
<1>8. SwitchedInv'
  BY <1>1, <1>2, <1>3 DEF ConnInv, ConnType, SwitchedInv
<1> QED BY <1>5, <1>6, <1>7, <1>8 DEF ConnInv

\* The connection that is removed was the one in the pool that may have been
\* switched.
LEMMA RemoveBadInv ==
  ASSUME PoolInv, PoolInv', ConnInv, NEW t \in Thread, RemoveBad(t)
  PROVE  ConnInv'
<1>1. /\ stage[t] = "remove" /\ stage' = [stage EXCEPT ![t] = "loop"]
      /\ charset' = charset /\ original' = original
      /\ pool' = [pool EXCEPT ![held[t]] = "absent"]
      /\ held' = [held EXCEPT ![t] = NoConn] /\ Remove(t)
  BY DEF RemoveBad, Remove, Set
<1>2. /\ at'[t] = "out"
      /\ \A u \in Thread \ {t} : at'[u] = at[u] \/ (at[u] = "wait" /\ at'[u] = "relock")
  BY <1>1, RemovePlaces, NotifiedPlaces
<1>3. \A u \in Thread \ {t} : held'[u] = held[u]
  BY <1>1 DEF PoolInv, PoolTypeOK
<1>4. ConnType'
  BY <1>1 DEF ConnInv, ConnType
<1>5. StageInv'
  BY <1>1, <1>2 DEF ConnInv, ConnType, StageInv, Running
<1>6. IdleInv'
  <2> SUFFICES ASSUME NEW c \in Conn, pool'[c] = "idle"
               PROVE  charset'[c] = "server" \/ Removing(c)'
    BY DEF IdleInv
  <2>1. pool[c] = "idle" /\ c # held[t]
    BY <1>1 DEF PoolInv, PoolTypeOK
  <2>2. Removing(c) => Removing(c)'
    BY <1>2, <1>3, <2>1 DEF Removing
  <2> QED BY <1>1, <2>1, <2>2 DEF ConnInv, IdleInv
<1>7. SwitchedInv'
  BY <1>1, <1>3 DEF ConnInv, ConnType, SwitchedInv
<1> QED BY <1>4, <1>5, <1>6, <1>7 DEF ConnInv

LEMMA ConnStepInv == PoolInv /\ PoolInv' /\ ConnInv /\ [ConnNext]_vars => ConnInv'
<1> SUFFICES ASSUME PoolInv, PoolInv', ConnInv, [ConnNext]_vars PROVE ConnInv'
  OBVIOUS
<1>1. CASE UNCHANGED vars
  BY <1>1 DEF vars, poolVars, connVars, ConnInv, ConnType, StageInv, SwitchedInv, IdleInv,
              Removing
<1>2. ASSUME NEW t \in Thread, NEW o \in Operation, Call(t, o)
      PROVE  ConnInv'
  BY <1>2, QuietInv DEF Call, Set, poolVars
<1>3. ASSUME NEW t \in Thread, GiveUp(t)
      PROVE  ConnInv'
  BY <1>3, QuietInv DEF GiveUp, Set, poolVars
<1>4. ASSUME NEW t \in Thread, StatementFails(t) \/ ReplyLost(t)
      PROVE  ConnInv'
  BY <1>4, QuietInv DEF StatementFails, ReplyLost, Throws, AfterThrow, Set, poolVars
<1>5. ASSUME NEW t \in Thread, RunStatement(t) \/ MakeQuery(t) \/ RunCharsetQuery(t)
      PROVE  ConnInv'
  BY <1>5, QuietInv DEF RunStatement, MakeQuery, RunCharsetQuery, Set, poolVars
<1>6. ASSUME NEW t \in Thread, Attempt(t)
      PROVE  ConnInv'
  <2>1. /\ stage[t] \notin Running /\ stage[t] # "remove" /\ at' = [at EXCEPT ![t] = "lock"]
        /\ stage' = [stage EXCEPT ![t] = "grab"]
        /\ UNCHANGED <<held, pool, charset, original>>
    BY <1>6 DEF Attempt, BeginGrab, Set, Running
  <2> QED BY <2>1, OutsideInv
<1>7. ASSUME NEW t \in Thread, GotNull(t)
      PROVE  ConnInv'
  <2>1. /\ stage[t] \notin Running /\ stage[t] # "remove" /\ at' = [at EXCEPT ![t] = "out"]
        /\ stage' = [stage EXCEPT ![t] = "idle"]
        /\ UNCHANGED <<held, pool, charset, original>>
    BY <1>7 DEF GotNull, ReturnNull, Set, Running
  <2> QED BY <2>1, OutsideInv
<1>8. CASE Surroundings
  <2>1. UNCHANGED <<held, pool, stage, charset, original>>
    BY <1>8 DEF Surroundings, Environment, DbDown, DbUp, SpuriousWake
  <2>2. \A u \in Thread : at'[u] = at[u] \/ (at[u] = "wait" /\ at'[u] = "relock")
    BY <1>8 DEF Surroundings, Environment, DbDown, DbUp, SpuriousWake, PoolInv, PoolTypeOK
  <2>3. StageInv'
    BY <2>1, <2>2 DEF ConnInv, StageInv
  <2>4. IdleInv'
    BY <2>1, <2>2 DEF ConnInv, IdleInv, Removing
  <2> QED BY <2>1, <2>3, <2>4 DEF ConnInv, ConnType, SwitchedInv
<1>9. CASE DestroyConnector \/ ConnectorDestroyed
  BY <1>1, <1>9 DEF DestroyConnector, Destroy, ConnectorDestroyed, Destroyed, vars,
     connVars, ConnInv, ConnType, StageInv, SwitchedInv, IdleInv
<1> QED BY <1>1, <1>2, <1>3, <1>4, <1>5, <1>6, <1>7, <1>8, <1>9,
           InGrabInv, GiveBackInv, RemoveBadInv, SwitchInv DEF ConnNext, CallStep

\* No call runs on a connection whose charset another call left switched,
\* whichever statement of ExecuteQuery() threw.
THEOREM ConnectorCharsetRestored == ConnSpec => []CharsetRestored
<1>1. ConnInv => CharsetRestored
  BY DEF ConnInv, SwitchedInv, IdleInv, Removing, CharsetRestored, InState, ThreadsAt
<1>2. ConnSpec => []PoolInv
  BY ConnectorImplementsPool, PoolInvariant, PTL
<1> QED BY <1>1, <1>2, ConnInitInv, ConnStepInv, PTL DEF ConnSpec
-----------------------------------------------------------------------------
(***************************************************************************)
(* Retries.  Every attempt costs one of db_retry_time, and applies the     *)
(* statement at most once: while an attempt is in progress one application *)
(* is reserved for it.  A call that has not returned has told its caller   *)
(* nothing; it has seen the present state of the database; and create()    *)
(* loses an attempt only while the database is down.                       *)
(***************************************************************************)
RetryType ==
  /\ retry \in [Thread -> Int]
  /\ applied \in [Thread -> Nat]
  /\ result \in [Thread -> BOOLEAN]
  /\ unreachable \in [Thread -> BOOLEAN]
  /\ seen \in [Thread -> SUBSET {"up", "down"}]
  /\ stage \in [Thread -> {"idle", "loop", "grab", "remove"} \cup Running]
  /\ op \in [Thread -> {"none"} \cup Operation]

AttemptsInv ==
  \A t \in Thread :
    /\ stage[t] = "idle" => applied[t] <= db_retry_time
    /\ stage[t] # "idle" => retry[t] >= 0
    /\ stage[t] \in {"loop", "queried", "good", "bad", "remove"} =>
         applied[t] + retry[t] <= db_retry_time
    /\ stage[t] \in {"grab", "body", "switched"} =>
         applied[t] + retry[t] < db_retry_time

AppliedInv ==
  \A t \in Thread :
    /\ stage[t] = "idle" /\ result[t] /\ op[t] # "escape" => applied[t] >= 1
    /\ stage[t] = "queried" => applied[t] >= 1
    /\ stage[t] = "good" /\ op[t] # "escape" => applied[t] >= 1

SilentInv == \A t \in Thread : stage[t] # "idle" => ~result[t] /\ ~unreachable[t]

SeenInv ==
  \A t \in Thread :
    /\ stage[t] # "idle" => db \in seen[t]
    /\ at[t] = "null" => "down" \in seen[t]
    /\ at[t] = "create" /\ tries < db_retry_time => "down" \in seen[t]

RetryInv == /\ RetryType
            /\ AttemptsInv
            /\ AppliedInv
            /\ SilentInv
            /\ SeenInv
            /\ UnreachableIsReal

LEMMA RetryInitInv == ConnInit => RetryInv
BY FlagAssumption
   DEF ConnInit, PoolInit, RetryInv, RetryType, AttemptsInv, AppliedInv, SilentInv,
       SeenInv, UnreachableIsReal, Running

\* A step of a call between grab() and release() that applies nothing.
LEMMA NotAppliedInv ==
  ASSUME PoolInv, ConnInv, RetryInv, NEW t \in Thread, NEW s,
         \/ stage[t] \in {"body", "switched", "queried"} /\ s = "bad"
         \/ stage[t] = "body" /\ s = "switched"
         \/ stage[t] = "body" /\ s = "good" /\ op[t] = "escape"
         \/ stage[t] = "queried" /\ s = "good",
         stage' = [stage EXCEPT ![t] = s],
         UNCHANGED <<at, tries, db, op, retry, result, unreachable, seen, applied>>
  PROVE  RetryInv'
<1>1. RetryType'
  BY DEF RetryInv, RetryType, Running
<1>2. AttemptsInv'
  BY FlagAssumption DEF RetryInv, RetryType, AttemptsInv, Running
<1>3. AppliedInv'
  BY DEF RetryInv, RetryType, AppliedInv, Running
<1>4. SilentInv' /\ SeenInv' /\ UnreachableIsReal'
  BY DEF RetryInv, RetryType, SilentInv, SeenInv, UnreachableIsReal, Running
<1> QED BY <1>1, <1>2, <1>3, <1>4 DEF RetryInv

\* The step that applies the statement, from a stage with an application in
\* reserve.
LEMMA AppliesInv ==
  ASSUME PoolInv, ConnInv, RetryInv, NEW t \in Thread,
         NEW s \in {"queried", "good", "bad"}, stage[t] \in {"body", "switched"},
         stage' = [stage EXCEPT ![t] = s],
         applied' = [applied EXCEPT ![t] = applied[t] + 1],
         UNCHANGED <<at, tries, db, op, retry, result, unreachable, seen>>
  PROVE  RetryInv'
<1>1. RetryType'
  BY DEF RetryInv, RetryType, Running
<1>2. AttemptsInv'
  BY FlagAssumption DEF RetryInv, RetryType, AttemptsInv, Running
<1>3. AppliedInv'
  BY DEF RetryInv, RetryType, AppliedInv, Running
<1>4. SilentInv' /\ SeenInv' /\ UnreachableIsReal'
  BY DEF RetryInv, RetryType, SilentInv, SeenInv, UnreachableIsReal, Running
<1> QED BY <1>1, <1>2, <1>3, <1>4 DEF RetryInv

LEMMA RunsInv ==
  ASSUME PoolInv, ConnInv, RetryInv, NEW t \in Thread,
         \/ StatementFails(t) \/ ReplyLost(t) \/ RunStatement(t) \/ MakeQuery(t)
         \/ SwitchCharset(t) \/ RunCharsetQuery(t) \/ RestoreCharset(t)
  PROVE  RetryInv'
<1>1. UNCHANGED <<at, tries, db, op, retry, result, unreachable, seen>>
  BY DEF StatementFails, ReplyLost, RunStatement, MakeQuery, SwitchCharset,
         RunCharsetQuery, RestoreCharset, Throws, poolVars
<1>2. CASE StatementFails(t)
  BY <1>1, <1>2, NotAppliedInv DEF StatementFails, Throws, AfterThrow, Set
<1>3. CASE MakeQuery(t) \/ SwitchCharset(t) \/ RestoreCharset(t)
  BY <1>1, <1>3, NotAppliedInv DEF MakeQuery, SwitchCharset, RestoreCharset, Set
<1>4. CASE ReplyLost(t)
  BY <1>1, <1>4, AppliesInv DEF ReplyLost, Throws, AfterThrow, Set
<1>5. CASE RunStatement(t) \/ RunCharsetQuery(t)
  BY <1>1, <1>5, AppliesInv DEF RunStatement, RunCharsetQuery, Set
<1> QED BY <1>2, <1>3, <1>4, <1>5

\* A step inside grab().  Only the owner of the mutex is in create(), so the
\* attempts that are counted down are its own.
LEMMA GrabStepRetryInv ==
  ASSUME PoolInv, PoolInv', ConnInv, RetryInv, NEW t \in Thread, InGrab(t)
  PROVE  RetryInv'
<1>1. /\ stage[t] = "grab" /\ GrabStep(t)
      /\ stage' = IF at'[t] = "hold" THEN [stage EXCEPT ![t] = "body"] ELSE stage
      /\ UNCHANGED <<op, retry, result, unreachable, applied, seen>>
  BY DEF InGrab, Set
<1>2. db' = db /\ db \in {"up", "down"} /\ tries \in 0 .. db_retry_time
  BY <1>1 DEF GrabStep, GrabWait, GrabIdle, GrabCreate, CreateConnects, CreateFails,
              CreateGivesUp, SetDefaultClientCharset, PoolInv, PoolTypeOK
<1>3. db_retry_time > 0 /\ db \in seen[t]
  BY <1>1, FlagAssumption DEF RetryInv, RetryType, AttemptsInv, SeenInv
<1>4. RetryType' /\ AttemptsInv' /\ AppliedInv' /\ SilentInv' /\ UnreachableIsReal'
  BY <1>1 DEF RetryInv, RetryType, AttemptsInv, AppliedInv, SilentInv,
              UnreachableIsReal, Running
<1>5. /\ at'[t] = "null" => "down" \in seen[t]
      /\ at'[t] = "create" /\ tries' < db_retry_time => "down" \in seen[t]
  <2>1. CASE GrabWait(t) \/ GrabIdle(t) \/ CreateConnects(t) \/ SetDefaultClientCharset(t)
    BY <2>1 DEF GrabWait, GrabIdle, CreateConnects, SetDefaultClientCharset, AfterGrab,
                PoolInv, PoolTypeOK
  <2>2. CASE GrabCreate(t)
    BY <2>2, FlagAssumption DEF GrabCreate, PoolInv, PoolTypeOK
  <2>3. CASE CreateFails(t)
    BY <1>3, <2>3 DEF CreateFails
  <2>4. CASE CreateGivesUp(t)
    BY <1>3, <2>4 DEF CreateGivesUp, RetryInv, SeenInv, PoolInv, PoolTypeOK
  <2> QED BY <1>1, <2>1, <2>2, <2>3, <2>4 DEF GrabStep
<1>6. ASSUME NEW u \in Thread, u # t
      PROVE  /\ at'[u] = "null" => "down" \in seen[u]
             /\ at'[u] = "create" /\ tries' < db_retry_time => "down" \in seen[u]
  <2>1. at'[u] = at[u]
    BY <1>1, <1>6 DEF GrabStep, GrabWait, GrabIdle, GrabCreate, CreateConnects,
       CreateFails, CreateGivesUp, SetDefaultClientCharset, PoolInv, PoolTypeOK
  <2>2. at'[u] = "create" => tries' = tries
    <3>1. at'[u] = "create" => at'[t] # "create" /\ at[t] # "create"
      BY <1>6, <2>1 DEF PoolInv, MutexInv
    <3> QED BY <1>1, <3>1 DEF GrabStep, GrabWait, GrabIdle, GrabCreate, CreateConnects,
               CreateFails, CreateGivesUp, SetDefaultClientCharset, PoolInv, PoolTypeOK
  <2> QED BY <2>1, <2>2 DEF RetryInv, SeenInv
<1>7. SeenInv'
  BY <1>1, <1>2, <1>5, <1>6 DEF RetryInv, RetryType, SeenInv
<1> QED BY <1>4, <1>7 DEF RetryInv

\* The steps at the two ends of an attempt.
LEMMA LoopInv ==
  ASSUME PoolInv, PoolInv', ConnInv, RetryInv, NEW t \in Thread,
         \/ Attempt(t) \/ GiveUp(t) \/ GotNull(t)
         \/ ReleaseGood(t) \/ ReleaseBad(t) \/ RemoveBad(t)
  PROVE  RetryInv'
<1>1. db' = db /\ tries' = tries
  BY DEF Attempt, BeginGrab, GiveUp, poolVars, GotNull, ReturnNull, ReleaseGood,
         ReleaseBad, Release, RemoveBad, Remove
<1>2. UNCHANGED <<op, applied, seen>>
  BY DEF Attempt, GiveUp, GotNull, ReleaseGood, ReleaseBad, RemoveBad
<1>3. \A u \in Thread : at'[u] \in {"create", "null"} => at[u] = at'[u]
  <2>1. CASE ReleaseGood(t) \/ ReleaseBad(t)
    <3>1. PICK bad \in BOOLEAN : Release(t, bad)
      BY <2>1 DEF ReleaseGood, ReleaseBad, BadAfterThrow
    <3>2. Notified(t) \/ at' = [at EXCEPT ![t] = "remove"]
      BY <3>1, ReleasePlaces
    <3>3. CASE Notified(t)
      BY <3>3, NotifiedPlaces
    <3> QED BY <3>2, <3>3 DEF PoolInv, PoolTypeOK
  <2>2. CASE Attempt(t) \/ GiveUp(t) \/ GotNull(t)
    BY <2>2 DEF Attempt, BeginGrab, GiveUp, poolVars, GotNull, ReturnNull, PoolInv, PoolTypeOK
  <2>3. CASE RemoveBad(t)
    BY <2>3, RemovePlaces, NotifiedPlaces DEF RemoveBad
  <2> QED BY <2>1, <2>2, <2>3
<1>4. CASE Attempt(t)
  BY <1>1, <1>2, <1>3, <1>4, FlagAssumption
     DEF Attempt, MayTryAgain, Set, RetryInv, RetryType, AttemptsInv, AppliedInv, SilentInv,
         SeenInv, UnreachableIsReal, Running
<1>5. CASE GiveUp(t)
  BY <1>1, <1>2, <1>3, <1>5, FlagAssumption
     DEF GiveUp, FlagAtEnd, MayTryAgain, Set, RetryInv, RetryType, AttemptsInv, AppliedInv,
         SilentInv, SeenInv, UnreachableIsReal, Running
<1>6. CASE GotNull(t)
  BY <1>1, <1>2, <1>3, <1>6, FlagAssumption
     DEF GotNull, ReturnNull, Set, RetryInv, RetryType, AttemptsInv, AppliedInv,
         SilentInv, SeenInv, UnreachableIsReal, Running
<1>7. CASE ReleaseGood(t)
  BY <1>1, <1>2, <1>3, <1>7, FlagAssumption
     DEF ReleaseGood, Set, RetryInv, RetryType, AttemptsInv, AppliedInv,
         SilentInv, SeenInv, UnreachableIsReal, Running
<1>8. CASE ReleaseBad(t)
  BY <1>1, <1>2, <1>3, <1>8, FlagAssumption
     DEF ReleaseBad, Set, RetryInv, RetryType, AttemptsInv, AppliedInv,
         SilentInv, SeenInv, UnreachableIsReal, Running
<1>9. CASE RemoveBad(t)
  BY <1>1, <1>2, <1>3, <1>9, FlagAssumption
     DEF RemoveBad, Set, RetryInv, RetryType, AttemptsInv, AppliedInv,
         SilentInv, SeenInv, UnreachableIsReal, Running
<1> QED BY <1>4, <1>5, <1>6, <1>7, <1>8, <1>9

LEMMA CallInv ==
  ASSUME PoolInv, ConnInv, RetryInv, NEW t \in Thread, NEW o \in Operation, Call(t, o)
  PROVE  RetryInv'
<1>1. /\ stage[t] = "idle" /\ at[t] = "out" /\ UNCHANGED <<db, at, tries>>
      /\ db \in {"up", "down"}
  BY DEF Call, poolVars, ConnInv, StageInv, Running, PoolInv, PoolTypeOK
<1>2. RetryType'
  BY <1>1, FlagAssumption DEF Call, Set, RetryInv, RetryType
<1>3. AttemptsInv'
  BY <1>1, FlagAssumption DEF Call, Set, RetryInv, RetryType, AttemptsInv, Running
<1>4. AppliedInv'
  BY <1>1 DEF Call, Set, RetryInv, RetryType, AppliedInv
<1>5. SilentInv' /\ UnreachableIsReal'
  BY <1>1 DEF Call, Set, RetryInv, RetryType, SilentInv, UnreachableIsReal
<1>6. SeenInv'
  BY <1>1 DEF Call, Set, RetryInv, RetryType, SeenInv
<1> QED BY <1>2, <1>3, <1>4, <1>5, <1>6 DEF RetryInv

\* The database changes its state under calls in progress.
LEMMA SurroundingsInv ==
  ASSUME PoolInv, PoolInv', ConnInv, RetryInv, Surroundings
  PROVE  RetryInv'
<1>1. /\ UNCHANGED <<op, stage, retry, result, unreachable, applied, tries>>
      /\ db' \in {"up", "down"}
      /\ seen' = [t \in Thread |-> IF stage[t] = "idle" THEN seen[t] ELSE seen[t] \cup {db'}]
  BY DEF Surroundings, Environment, DbDown, DbUp, SpuriousWake, PoolInv, PoolTypeOK
<1>2. \A u \in Thread : at'[u] \in {"create", "null"} => at[u] = at'[u]
  BY DEF Surroundings, Environment, DbDown, DbUp, SpuriousWake, PoolInv, PoolTypeOK
<1>3. RetryType' /\ AttemptsInv' /\ AppliedInv' /\ SilentInv'
  BY <1>1 DEF RetryInv, RetryType, AttemptsInv, AppliedInv, SilentInv
<1>4. SeenInv' /\ UnreachableIsReal'
  BY <1>1, <1>2 DEF RetryInv, RetryType, SeenInv, UnreachableIsReal
<1> QED BY <1>3, <1>4 DEF RetryInv

LEMMA RetryStepInv ==
  PoolInv /\ PoolInv' /\ ConnInv /\ RetryInv /\ [ConnNext]_vars => RetryInv'
<1> SUFFICES ASSUME PoolInv, PoolInv', ConnInv, RetryInv, [ConnNext]_vars
             PROVE  RetryInv'
  OBVIOUS
<1>1. CASE UNCHANGED <<connVars, at, tries, db>>
  BY <1>1 DEF connVars, RetryInv, RetryType, AttemptsInv, AppliedInv, SilentInv,
              SeenInv, UnreachableIsReal
<1>2. CASE DestroyConnector \/ ConnectorDestroyed \/ UNCHANGED vars
  BY <1>1, <1>2 DEF DestroyConnector, Destroy, ConnectorDestroyed, Destroyed, poolVars, vars
<1> QED BY <1>2, CallInv, LoopInv, GrabStepRetryInv, RunsInv, SurroundingsInv
           DEF ConnNext, CallStep

LEMMA RetryInvariant == ConnSpec => []RetryInv
<1>1. ConnSpec => []PoolInv
  BY ConnectorImplementsPool, PoolInvariant, PTL
<1> QED BY <1>1, ConnInitInv, ConnStepInv, RetryInitInv, RetryStepInv, PTL DEF ConnSpec

\* A call that returns true had its statement applied, and however often
\* replies are lost, no call applies its statement more than db_retry_time
\* times.
THEOREM ConnectorSuccessWasApplied == ConnSpec => []SuccessWasApplied
<1>1. RetryInv => SuccessWasApplied
  BY FlagAssumption
     DEF RetryInv, RetryType, AttemptsInv, AppliedInv, SuccessWasApplied, Running
<1> QED BY <1>1, RetryInvariant, PTL

\* is_db_unreachable is raised only by a call during which the database was
\* down: create() gives up only after attempts that failed.
THEOREM ConnectorUnreachableIsReal == ConnSpec => []UnreachableIsReal
BY RetryInvariant, PTL DEF RetryInv
===============================================================================
