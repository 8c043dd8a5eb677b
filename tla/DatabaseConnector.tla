--------------------------- MODULE DatabaseConnector ---------------------------
(***************************************************************************)
(* utils/database/database_connector.cc on top of the connection pool: the *)
(* two ExecuteQuery(), Execute() and Escape() called by several threads.   *)
(* All four are one loop, "while (retry_time--)": grab a connection, give  *)
(* up with is_db_unreachable if there is none, run the statements of the   *)
(* operation, and release the connection, as bad if anything went wrong.   *)
(*                                                                         *)
(* The constructor never stores its parameter db_name, so Init() finds     *)
(* m_db_name empty and replaces every setting by the flags and the default *)
(* charset by "": the pool below has no default charset.                   *)
(*                                                                         *)
(* SQL text and results are left out; of a statement the model keeps       *)
(* whether the server applied it, since a failed call may have lost only   *)
(* the reply.  Any statement may throw (a closed connection, a syntax      *)
(* error), and none succeeds while the database is down.                   *)
(***************************************************************************)
EXTENDS DatabaseConnectionPool

CONSTANTS
  Operation, \* the operations that are called
  MaxCalls   \* bound: the calls each thread makes

ASSUME CallAssumption ==
  /\ MaxCalls \in Nat
  /\ Operation \subseteq {"query", "charset_query", "execute", "escape"}

VARIABLES
  op,        \* the operation each thread is in
  stage,     \* where it is in the loop
  retry,     \* retry_time
  result,    \* what the last call returned
  unreachable, \* *is_db_unreachable, cleared by the caller before the call
  applied,   \* how often the server applied the statement of the call
  seen,      \* the states the database was in during the call
  charset,   \* each connection's client charset
  original,  \* original_charset of each thread
  calls      \* calls made by each thread

connVars == <<op, stage, retry, result, unreachable, applied, seen,
              charset, original, calls>>
vars == <<poolVars, connVars>>

Charset == {"server", "asked"}

(***************************************************************************)
(* Slips the properties have to notice.                                    *)
(***************************************************************************)
\* A catch block that returns the connection to the pool as good.
BadAfterThrowKept(t) == FALSE

\* An exception after the statement was sent taken for success.
AfterThrowDone(t) == "good"

\* *is_db_unreachable raised by every call that returns false.
FlagAtEndRaised(t) == TRUE
-----------------------------------------------------------------------------
\* Init() has cleared the default charset.
ConnInit ==
  /\ HasDefaultCharset = FALSE
  /\ PoolInit
  /\ op = [t \in Thread |-> "none"]
  /\ stage = [t \in Thread |-> "idle"]
  /\ retry = [t \in Thread |-> 0]
  /\ result = [t \in Thread |-> FALSE]
  /\ unreachable = [t \in Thread |-> FALSE]
  /\ applied = [t \in Thread |-> 0]
  /\ seen = [t \in Thread |-> {}]
  /\ charset = [c \in Conn |-> "server"]
  /\ original = [t \in Thread |-> "server"]
  /\ calls = [t \in Thread |-> 0]

Set(f, t, v) == [f EXCEPT ![t] = v]

\* A caller with a flag of its own, cleared, calls operation o.
Call(t, o) ==
  /\ open
  /\ stage[t] = "idle"
  /\ calls[t] < MaxCalls
  /\ op' = Set(op, t, o)
  /\ stage' = Set(stage, t, "loop")
  /\ retry' = Set(retry, t, db_retry_time)
  /\ result' = Set(result, t, FALSE)
  /\ unreachable' = Set(unreachable, t, FALSE)
  /\ applied' = Set(applied, t, 0)
  /\ seen' = Set(seen, t, {db})
  /\ calls' = Set(calls, t, calls[t] + 1)
  /\ UNCHANGED <<poolVars, charset, original>>

\* while (retry_time--)
MayTryAgain(t) == retry[t] > 0

Attempt(t) ==
  /\ stage[t] = "loop"
  /\ MayTryAgain(t)
  /\ BeginGrab(t)
  /\ retry' = Set(retry, t, retry[t] - 1)
  /\ stage' = Set(stage, t, "grab")
  /\ UNCHANGED <<op, result, unreachable, applied, seen, charset, original, calls>>

\* return false after the last attempt leaves *is_db_unreachable alone.
FlagAtEnd(t) == unreachable[t]

GiveUp(t) ==
  /\ stage[t] = "loop"
  /\ ~MayTryAgain(t)
  /\ retry' = Set(retry, t, retry[t] - 1)
  /\ stage' = Set(stage, t, "idle")
  /\ unreachable' = Set(unreachable, t, FlagAtEnd(t))
  /\ UNCHANGED <<poolVars, op, result, applied, seen,
                 charset, original, calls>>

\* A step of grab(); a connection create() makes has the server's charset.
InGrab(t) ==
  /\ stage[t] = "grab"
  /\ GrabStep(t)
  /\ stage' = IF at'[t] = "hold" THEN Set(stage, t, "body") ELSE stage
  /\ charset' = [c \in Conn |-> IF pool[c] = "absent" /\ pool'[c] = "used"
                                  THEN "server" ELSE charset[c]]
  /\ UNCHANGED <<op, retry, result, unreachable, applied, seen, original, calls>>

\* NULL: the loop is left and the call returns false.
GotNull(t) ==
  /\ stage[t] = "grab"
  /\ ReturnNull(t)
  /\ unreachable' = Set(unreachable, t, TRUE)
  /\ stage' = Set(stage, t, "idle")
  /\ UNCHANGED <<op, retry, result, applied, seen, charset, original, calls>>

\* Where the catch block, or the branch for a failed statement, continues.
AfterThrow(t) == "bad"

Throws(t) ==
  /\ stage' = Set(stage, t, AfterThrow(t))
  /\ UNCHANGED <<poolVars, op, retry, result, unreachable, seen, charset,
                 original, calls>>

\* connected() is false, or the next statement fails without being applied.
StatementFails(t) ==
  /\ stage[t] \in {"body", "switched", "queried"}
  /\ Throws(t)
  /\ UNCHANGED applied

\* Execute() loses the reply of a statement that the server applied.
ReplyLost(t) ==
  /\ stage[t] = "body"
  /\ op[t] = "execute"
  /\ db = "up"
  /\ applied' = Set(applied, t, applied[t] + 1)
  /\ Throws(t)

\* The statement of Execute() or of ExecuteQuery() with one parameter.
RunStatement(t) ==
  /\ stage[t] = "body"
  /\ op[t] \in {"query", "execute"}
  /\ db = "up"
  /\ applied' = Set(applied, t, applied[t] + 1)
  /\ stage' = Set(stage, t, "good")
  /\ UNCHANGED <<poolVars, op, retry, result, unreachable, seen, charset,
                 original, calls>>

\* Escape() makes a Query object and sends nothing to the server.
MakeQuery(t) ==
  /\ stage[t] = "body"
  /\ op[t] = "escape"
  /\ stage' = Set(stage, t, "good")
  /\ UNCHANGED <<poolVars, op, retry, result, unreachable, applied, seen,
                 charset, original, calls>>

\* ExecuteQuery() with a charset, steps 1 and 2.
SwitchCharset(t) ==
  /\ stage[t] = "body"
  /\ op[t] = "charset_query"
  /\ db = "up"
  /\ original' = Set(original, t, charset[held[t]])
  /\ charset' = Set(charset, held[t], "asked")
  /\ stage' = Set(stage, t, "switched")
  /\ UNCHANGED <<poolVars, op, retry, result, unreachable, applied, seen, calls>>

RunCharsetQuery(t) ==
  /\ stage[t] = "switched"
  /\ db = "up"
  /\ applied' = Set(applied, t, applied[t] + 1)
  /\ stage' = Set(stage, t, "queried")
  /\ UNCHANGED <<poolVars, op, retry, result, unreachable, seen, charset,
                 original, calls>>

\* Step 3.
RestoreCharset(t) ==
  /\ stage[t] = "queried"
  /\ db = "up"
  /\ charset' = Set(charset, held[t], original[t])
  /\ stage' = Set(stage, t, "good")
  /\ UNCHANGED <<poolVars, op, retry, result, unreachable, applied, seen,
                 original, calls>>

\* release(pcon, false); return true
ReleaseGood(t) ==
  /\ stage[t] = "good"
  /\ Release(t, FALSE)
  /\ result' = Set(result, t, TRUE)
  /\ stage' = Set(stage, t, "idle")
  /\ UNCHANGED <<op, retry, unreachable, applied, seen, charset, original, calls>>

BadAfterThrow(t) == TRUE

\* release(pcon, true), up to the removal of the connection.
ReleaseBad(t) ==
  /\ stage[t] = "bad"
  /\ Release(t, BadAfterThrow(t))
  /\ stage' = Set(stage, t, IF BadAfterThrow(t) THEN "remove" ELSE "loop")
  /\ UNCHANGED <<op, retry, result, unreachable, applied, seen, charset,
                 original, calls>>

\* The rest of release(pcon, true); continue
RemoveBad(t) ==
  /\ stage[t] = "remove"
  /\ Remove(t)
  /\ stage' = Set(stage, t, "loop")
  /\ UNCHANGED <<op, retry, result, unreachable, applied, seen, charset,
                 original, calls>>

\* The database or the scheduler moves; calls in progress remember
\* what the database went through.
Surroundings ==
  /\ Environment
  /\ seen' = [t \in Thread |-> IF stage[t] = "idle" THEN seen[t]
                                ELSE seen[t] \cup {db'}]
  /\ UNCHANGED <<op, stage, retry, result, unreachable, applied, charset,
                 original, calls>>

\* ~DatabaseConnector() drops the pool, after the last call has returned.
DestroyConnector ==
  /\ \A t \in Thread : stage[t] = "idle"
  /\ Destroy
  /\ UNCHANGED connVars

ConnectorDestroyed == Destroyed /\ UNCHANGED connVars

\* The steps a call takes by itself.
CallStep(t) ==
  \/ Attempt(t)
  \/ GiveUp(t)
  \/ InGrab(t)
  \/ GotNull(t)
  \/ StatementFails(t)
  \/ ReplyLost(t)
  \/ RunStatement(t)
  \/ MakeQuery(t)
  \/ SwitchCharset(t)
  \/ RunCharsetQuery(t)
  \/ RestoreCharset(t)
  \/ ReleaseGood(t)
  \/ ReleaseBad(t)
  \/ RemoveBad(t)

ConnNext ==
  \/ \E t \in Thread : (\E o \in Operation : Call(t, o)) \/ CallStep(t)
  \/ Surroundings
  \/ DestroyConnector
  \/ ConnectorDestroyed

ConnSpec == ConnInit /\ [][ConnNext]_vars

\* A thread inside a call runs on; nobody has to call, and neither the
\* database nor the scheduler owes anything.
FairConnSpec == ConnSpec /\ \A t \in Thread : WF_vars(CallStep(t))
-----------------------------------------------------------------------------
\* A query that names no charset never runs on a connection another call
\* switched: whatever step of ExecuteQuery() with a charset throws, its
\* connection is restored or removed before any thread gets it; only between
\* the two halves of release() does the pool have a switched connection.
CharsetRestored ==
  /\ \A c \in InState("idle") :
       charset[c] = "server" \/ \E t \in ThreadsAt({"remove"}) : held[t] = c
  /\ \A t \in Thread : stage[t] = "body" => charset[held[t]] = "server"

\* A call that returns true had its statement applied, whatever failed and
\* was retried before; retries of statements whose reply was lost repeat
\* them, but never more than db_retry_time times in all.
SuccessWasApplied ==
  \A t \in Thread :
    /\ stage[t] = "idle" /\ result[t] /\ op[t] # "escape" => applied[t] >= 1
    /\ applied[t] <= db_retry_time

\* is_db_unreachable is never raised by a call during which the database
\* was up all the time, even if that call waited, failed and retried.
UnreachableIsReal ==
  \A t \in Thread : unreachable[t] => "down" \in seen[t] /\ ~result[t]

\* Every call returns, as the comment on grab() has it, "wait to return a
\* connection until there are a reasonably low number in use already": no
\* thread waits for ever once connections are given back.
EveryCallReturns ==
  \A t \in Thread : (stage[t] # "idle") ~> (stage[t] = "idle")

\* It is kept while connecting never fails, whatever statements fail and are
\* retried, whatever connections are removed and however the waiting threads
\* are overtaken.
ReturnsWithoutOutage == [](outages = 0) => EveryCallReturns
================================================================================
