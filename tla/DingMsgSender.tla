----------------------------- MODULE DingMsgSender -----------------------------
(***************************************************************************)
(* utils/ding_talk: DingTalk(token) << text; sends text to a chat group.   *)
(* The stream object's destructor pushes the text on a queue; a thread of  *)
(* the singleton DingMsgSender takes messages from it and posts them.      *)
(*                                                                         *)
(* m_msgs_mtx protects the queue but not m_stop: the destructor of the     *)
(* singleton writes it without the lock, so it may do so between the       *)
(* moment the sender finds the wait predicate false and the moment it      *)
(* blocks.  That is why the predicate and the blocking are two actions.    *)
(* notify_one() is called after the lock is released, and only by the      *)
(* thread whose message was the first in an empty queue.                   *)
(*                                                                         *)
(* A message is the producer, its number and its kind: whether it has a    *)
(* token and whether the text was ended with std::endl.  The text itself   *)
(* is left out.                                                            *)
(***************************************************************************)
EXTENDS Naturals, Sequences, FiniteSets

CONSTANTS
  Producer,   \* the threads that use DingTalk streams
  NoOwner,    \* nobody owns m_msgs_mtx
  Kind,       \* bound: the kinds of message the producers write
  MaxMsgs     \* bound: messages each producer sends

ASSUME ProducerAssumption ==
  /\ NoOwner \notin Producer
  /\ NoOwner # "sender"
  /\ IsFiniteSet(Producer)
ASSUME BoundAssumption ==
  /\ MaxMsgs \in Nat
  /\ Kind \subseteq [token : BOOLEAN, endl : BOOLEAN]

VARIABLES
  m_msgs,     \* the queue
  m_stop,
  mutex,      \* owner of m_msgs_mtx between two actions
  sender,     \* where the sending thread is
  msg,        \* its local variable msg (a sequence of at most one message)
  at,         \* where each producer is
  count,      \* messages each producer has made
  dtor,       \* where ~DingMsgSender() is
  pushed,     \* history: all messages pushed, in order
  taken,      \* history: all messages taken from the queue, in order
  posted,     \* history: the messages posted successfully
  atStop      \* history: messages taken when m_stop was set

vars == <<m_msgs, m_stop, mutex, sender, msg, at, count, dtor,
          pushed, taken, posted, atStop>>

Message == [from : Producer, n : 1 .. MaxMsgs, kind : Kind]

(***************************************************************************)
(* Slips the properties have to notice.                                    *)
(***************************************************************************)
\* PushMsg() that notifies when the queue was not empty.
NotifyNeededLate(size) == size = 2

\* The sender's loop going on until the queue is drained.
LeavesLoopDrained == m_stop /\ m_msgs = <<>>

\* wait() in place of wait_for(): no time limit.
WaitForNoLimit == FALSE

\* if (m_msgs.size() > 1) in place of !m_msgs.empty().
HasMsgTwo == Len(m_msgs) > 1

\* m_msgs.back() taken, pop_front() called.
FrontIsBack == m_msgs[Len(m_msgs)]
-----------------------------------------------------------------------------
Init ==
  /\ m_msgs = <<>>
  /\ m_stop = FALSE
  /\ mutex = NoOwner
  /\ sender = "loop"
  /\ msg = <<>>
  /\ at = [p \in Producer |-> "idle"]
  /\ count = [p \in Producer |-> 0]
  /\ dtor = "live"
  /\ pushed = <<>>
  /\ taken = <<>>
  /\ posted = <<>>
  /\ atStop = 0

\* p has written to a DingTalk stream that now goes out of scope.
Begin(p) ==
  /\ at[p] = "idle"
  /\ count[p] < MaxMsgs
  /\ dtor = "live"
  /\ at' = [at EXCEPT ![p] = "push"]
  /\ count' = [count EXCEPT ![p] = @ + 1]
  /\ UNCHANGED <<m_msgs, m_stop, mutex, sender, msg, dtor, pushed, taken,
                 posted, atStop>>

\* if (1 == queue_size)
NotifyNeeded(size) == size = 1

\* The destructor of the stream's buffer reads the text and pushes it,
\* whether or not std::endl was written; sync(), which std::endl calls, does
\* nothing.
PushMsg(p) ==
  /\ at[p] = "push"
  /\ mutex = NoOwner
  /\ \E k \in Kind :
       LET m == [from |-> p, n |-> count[p], kind |-> k]
       IN  /\ m_msgs' = Append(m_msgs, m)
           /\ pushed' = Append(pushed, m)
  /\ at' = [at EXCEPT ![p] =
              IF NotifyNeeded(Len(m_msgs) + 1) THEN "notify" ELSE "idle"]
  /\ UNCHANGED <<m_stop, mutex, sender, msg, count, dtor, taken, posted, atStop>>

\* notify_one(): only the sender ever waits.
Wake == sender' = IF sender = "wait" THEN "lock" ELSE sender

Notify(p) ==
  /\ at[p] = "notify"
  /\ Wake
  /\ at' = [at EXCEPT ![p] = "idle"]
  /\ UNCHANGED <<m_msgs, m_stop, mutex, msg, count, dtor, pushed, taken,
                 posted, atStop>>
-----------------------------------------------------------------------------
LeavesLoop == m_stop

\* while (!m_stop)
LoopTest ==
  /\ sender = "loop"
  /\ sender' = IF LeavesLoop THEN "exit" ELSE "lock"
  /\ UNCHANGED <<m_msgs, m_stop, mutex, msg, at, count, dtor, pushed, taken,
                 posted, atStop>>

HasMsg == m_msgs # <<>>

Front == m_msgs[1]

\* After wait_for(), with the lock: take the first message if there is one.
TakeMsg ==
  \/ /\ HasMsg
     /\ msg' = <<Front>>
     /\ taken' = Append(taken, Front)
     /\ m_msgs' = Tail(m_msgs)
     /\ sender' = "send"
  \/ /\ ~HasMsg
     /\ sender' = "loop"
     /\ UNCHANGED <<m_msgs, msg, taken>>

\* The wait predicate is true: wait_for() returns.
PredicateTrue ==
  /\ sender = "lock"
  /\ mutex = NoOwner
  /\ HasMsg \/ m_stop
  /\ TakeMsg
  /\ UNCHANGED <<m_stop, mutex, at, count, dtor, pushed, posted, atStop>>

\* The wait predicate is false: the sender keeps the lock until it blocks.
PredicateFalse ==
  /\ sender = "lock"
  /\ mutex = NoOwner
  /\ ~(HasMsg \/ m_stop)
  /\ sender' = "block"
  /\ mutex' = "sender"
  /\ UNCHANGED <<m_msgs, m_stop, msg, at, count, dtor, pushed, taken, posted, atStop>>

Block ==
  /\ sender = "block"
  /\ sender' = "wait"
  /\ mutex' = NoOwner
  /\ UNCHANGED <<m_msgs, m_stop, msg, at, count, dtor, pushed, taken, posted, atStop>>

WaitFor == TRUE

\* The second is over.
Timeout ==
  /\ WaitFor
  /\ sender = "wait"
  /\ sender' = "timeout"
  /\ UNCHANGED <<m_msgs, m_stop, mutex, msg, at, count, dtor, pushed, taken,
                 posted, atStop>>

\* wait_for() returns after a timeout, whatever its predicate says.
TimedOut ==
  /\ sender = "timeout"
  /\ mutex = NoOwner
  /\ TakeMsg
  /\ UNCHANGED <<m_stop, mutex, at, count, dtor, pushed, posted, atStop>>

\* SendDingMsg(): nothing is posted without a token; what the post returns
\* is ignored.
SendDingMsg ==
  /\ sender = "send"
  /\ \/ posted' = posted
     \/ msg[1].kind.token /\ posted' = posted \o msg
  /\ msg' = <<>>
  /\ sender' = "loop"
  /\ UNCHANGED <<m_msgs, m_stop, mutex, at, count, dtor, pushed, taken, atStop>>

\* wait_for() may wake up without a notification.
SpuriousWake ==
  /\ sender = "wait"
  /\ sender' = "lock"
  /\ UNCHANGED <<m_msgs, m_stop, mutex, msg, at, count, dtor, pushed, taken,
                 posted, atStop>>
-----------------------------------------------------------------------------
\* ~DingMsgSender() runs at exit, when no producer is inside PushMsg().
SetStop ==
  /\ dtor = "live"
  /\ \A p \in Producer : at[p] = "idle"
  /\ m_stop' = TRUE
  /\ dtor' = "set"
  /\ atStop' = Len(taken)
  /\ UNCHANGED <<m_msgs, mutex, sender, msg, at, count, pushed, taken, posted>>

NotifyStop ==
  /\ dtor = "set"
  /\ Wake
  /\ dtor' = "join"
  /\ UNCHANGED <<m_msgs, m_stop, mutex, msg, at, count, pushed, taken, posted, atStop>>

Join ==
  /\ dtor = "join"
  /\ sender = "exit"
  /\ dtor' = "done"
  /\ UNCHANGED <<m_msgs, m_stop, mutex, sender, msg, at, count, pushed, taken,
                 posted, atStop>>

\* The process is gone; nothing happens any more.
Exited == dtor = "done" /\ UNCHANGED vars

SenderStep ==
  LoopTest \/ PredicateTrue \/ PredicateFalse \/ Block \/ Timeout \/ TimedOut
    \/ SendDingMsg

Next ==
  \/ \E p \in Producer : Begin(p) \/ PushMsg(p) \/ Notify(p)
  \/ SenderStep
  \/ SpuriousWake
  \/ SetStop
  \/ NotifyStop
  \/ Join
  \/ Exited

Spec == Init /\ [][Next]_vars

\* The sender runs, its one-second limit expires and its posts return; a
\* producer inside PushMsg() and the destructor once begun run on.
Fairness ==
  /\ WF_vars(SenderStep)
  /\ \A p \in Producer : WF_vars(PushMsg(p)) /\ WF_vars(Notify(p))
  /\ WF_vars(NotifyStop)
  /\ WF_vars(Join)

FairSpec == Spec /\ Fairness
-----------------------------------------------------------------------------
TypeOK ==
  /\ m_msgs \in Seq(Message)
  /\ m_stop \in BOOLEAN
  /\ mutex \in {NoOwner, "sender"}
  /\ sender \in {"loop", "lock", "block", "wait", "timeout", "send", "exit"}
  /\ msg \in Seq(Message)
  /\ at \in [Producer -> {"idle", "push", "notify"}]
  /\ count \in [Producer -> 0 .. MaxMsgs]
  /\ dtor \in {"live", "set", "join", "done"}
  /\ pushed \in Seq(Message)
  /\ taken \in Seq(Message)
  /\ posted \in Seq(Message)
  /\ atStop \in Nat

\* Messages leave the queue in the order they were pushed, by whichever
\* return of wait_for(), and none is lost, repeated or overtaken.
TakenInOrder == taken \o m_msgs = pushed

\* Notifying only when the queue was empty is enough: the sender never
\* sleeps on a message unless the producer that has to wake it is still
\* about to do so.
NeverSleepsOnMsg ==
  sender \in {"block", "wait"} /\ m_msgs # <<>> =>
    sender = "wait" /\ \E p \in Producer : at[p] = "notify"

\* At exit the sender posts at most one more message, the one it was about
\* to take when m_stop was set; the rest of the queue is dropped.
AtMostOneAfterStop == m_stop => Len(taken) <= atStop + 1

\* Every pushed message is taken, unless the process is exiting.
EveryMsgTaken ==
  \A n \in 1 .. MaxMsgs * Cardinality(Producer) :
    (Len(pushed) >= n) ~> (Len(taken) >= n \/ m_stop)

\* The destructor's join() returns, although its notification is lost when
\* it falls between the sender's test of the predicate and its blocking.
DestructorReturns == (dtor # "live") ~> (dtor = "done")
================================================================================
