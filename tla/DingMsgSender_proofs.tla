------------------------ MODULE DingMsgSender_proofs ------------------------
(***************************************************************************)
(* Proofs about the message queue, for any set of producers, any kinds of  *)
(* message and any number of messages.                                     *)
(***************************************************************************)
EXTENDS DingMsgSender, SequenceTheorems, TLAPS

(***************************************************************************)
(* The inductive invariant.  The sender owns the mutex between two actions *)
(* only from its test of the predicate until it blocks, and then the queue *)
(* is empty; and once m_stop is set the sender takes a message only on the *)
(* way from the test of its loop back to it.                               *)
(***************************************************************************)
BlockInv == sender = "block" => mutex = "sender"

PushInv == \A p \in Producer : at[p] = "push" => count[p] \in 1 .. MaxMsgs

Inside == {"lock", "block", "wait", "timeout"}

StopInv ==
  m_stop => /\ Len(taken) <= atStop + 1
            /\ sender \in Inside => Len(taken) <= atStop

DingInv ==
  /\ TypeOK
  /\ BlockInv
  /\ PushInv
  /\ TakenInOrder
  /\ NeverSleepsOnMsg
  /\ StopInv

\* What a step does to the queue and to its history.
QueueVars == <<m_msgs, pushed, taken, atStop>>

LEMMA DingInitInv == Init => DingInv
<1> SUFFICES ASSUME Init PROVE DingInv
  OBVIOUS
<1>1. 0 \in 0 .. MaxMsgs
  BY BoundAssumption
<1>2. TypeOK
  <2>1. <<>> \in Seq(Message)
    BY EmptySeq
  <2>2. /\ at \in [Producer -> {"idle", "push", "notify"}]
        /\ count \in [Producer -> 0 .. MaxMsgs]
    BY <1>1 DEF Init
  <2> QED BY <2>1, <2>2 DEF Init, TypeOK
<1> QED BY <1>2 DEF Init, DingInv, BlockInv, PushInv, TakenInOrder, NeverSleepsOnMsg,
               StopInv

\* Steps of a producer or of the destructor that touch neither the queue nor
\* the sender.
LEMMA ApartInv ==
  ASSUME DingInv, TypeOK', PushInv',
         UNCHANGED <<QueueVars, m_stop, mutex, sender>>,
         \A p \in Producer : at[p] = "notify" => at'[p] = "notify"
  PROVE  DingInv'
<1>1. NeverSleepsOnMsg'
  BY DEF DingInv, NeverSleepsOnMsg, QueueVars
<1> QED BY <1>1 DEF DingInv, BlockInv, TakenInOrder, StopInv, QueueVars

\* Steps that only move the sender.
LEMMA MoveInv ==
  ASSUME DingInv, UNCHANGED <<QueueVars, m_stop, at, count>>, TypeOK',
         sender' # "block",
         sender' = "wait" => m_msgs = <<>> \/ \E p \in Producer : at[p] = "notify",
         sender' \in Inside => sender \in Inside \/ ~m_stop
  PROVE  DingInv'
<1>1. NeverSleepsOnMsg'
  BY DEF NeverSleepsOnMsg, QueueVars
<1>2. StopInv'
  BY DEF DingInv, StopInv, QueueVars
<1> QED BY <1>1, <1>2 DEF DingInv, BlockInv, PushInv, TakenInOrder, QueueVars

LEMMA BeginInv ==
  ASSUME DingInv, NEW p \in Producer, Begin(p)
  PROVE  DingInv'
<1>1. count[p] + 1 \in 1 .. MaxMsgs
  BY BoundAssumption DEF DingInv, TypeOK, Begin
<1>2. TypeOK'
  BY <1>1 DEF DingInv, TypeOK, Begin
<1>3. PushInv'
  BY <1>1 DEF DingInv, TypeOK, PushInv, Begin
<1>4. /\ UNCHANGED <<QueueVars, m_stop, mutex, sender>>
      /\ \A q \in Producer : at[q] = "notify" => at'[q] = "notify"
  BY DEF DingInv, TypeOK, Begin, QueueVars
<1> QED BY <1>2, <1>3, <1>4, ApartInv

LEMMA PushMsgInv ==
  ASSUME DingInv, NEW p \in Producer, PushMsg(p)
  PROVE  DingInv'
<1> PICK k \in Kind :
      /\ m_msgs' = Append(m_msgs, [from |-> p, n |-> count[p], kind |-> k])
      /\ pushed' = Append(pushed, [from |-> p, n |-> count[p], kind |-> k])
  BY DEF PushMsg
<1> DEFINE m == [from |-> p, n |-> count[p], kind |-> k]
<1>1. m \in Message
  BY DEF DingInv, PushInv, PushMsg, Message
<1> HIDE DEF m
<1>2. m_msgs' = Append(m_msgs, m) /\ pushed' = Append(pushed, m)
  BY DEF m
<1>3. /\ m_msgs \in Seq(Message) /\ pushed \in Seq(Message) /\ taken \in Seq(Message)
      /\ m_msgs' \in Seq(Message) /\ pushed' \in Seq(Message)
  BY <1>1, <1>2, AppendProperties DEF DingInv, TypeOK
<1>4. TypeOK'
  BY <1>3 DEF DingInv, TypeOK, PushMsg
<1>5. TakenInOrder'
  <2>1. taken' = taken
    BY DEF PushMsg
  <2>2. taken \o Append(m_msgs, m) = Append(taken \o m_msgs, m)
    BY <1>1, <1>3
  <2> QED BY <1>2, <2>1, <2>2 DEF DingInv, TakenInOrder
<1>6. NeverSleepsOnMsg'
  <2>1. sender' = sender /\ sender # "block"
    BY ProducerAssumption DEF PushMsg, DingInv, BlockInv
  <2>2. CASE m_msgs = <<>>
    <3>1. at'[p] = "notify"
      BY <2>2 DEF PushMsg, NotifyNeeded, DingInv, TypeOK
    <3> QED BY <3>1, <2>1 DEF NeverSleepsOnMsg
  <2>3. CASE m_msgs # <<>> /\ sender = "wait"
    <3>1. PICK q \in Producer : at[q] = "notify"
      BY <2>3 DEF DingInv, NeverSleepsOnMsg
    <3>2. at'[q] = "notify"
      BY <3>1 DEF PushMsg, DingInv, TypeOK
    <3> QED BY <3>2, <2>1, <2>3 DEF NeverSleepsOnMsg
  <2> QED BY <2>1, <2>2, <2>3 DEF NeverSleepsOnMsg
<1>7. PushInv'
  BY DEF DingInv, TypeOK, PushInv, PushMsg
<1>8. BlockInv' /\ StopInv'
  BY DEF DingInv, BlockInv, StopInv, PushMsg
<1> QED BY <1>4, <1>5, <1>6, <1>7, <1>8 DEF DingInv

LEMMA NotifyInv ==
  ASSUME DingInv, NEW p \in Producer, Notify(p)
  PROVE  DingInv'
<1>1. TypeOK'
  BY DEF DingInv, TypeOK, Notify, Wake
<1>2. sender' # "wait" /\ (sender' = "block" => sender = "block")
  BY DEF Notify, Wake
<1>3. NeverSleepsOnMsg'
  BY <1>2 DEF DingInv, NeverSleepsOnMsg, Notify
<1>4. PushInv'
  BY DEF DingInv, TypeOK, PushInv, Notify
<1>5. StopInv'
  BY DEF DingInv, StopInv, Notify, Wake, Inside
<1> QED BY <1>1, <1>2, <1>3, <1>4, <1>5 DEF DingInv, BlockInv, TakenInOrder, Notify

\* The heart of the sender: moving the front of the queue to the taken ones.
LEMMA TakeMsgInv ==
  ASSUME DingInv, TakeMsg, sender \in Inside, sender' \in {"loop", "send"},
         UNCHANGED <<m_stop, mutex, at, count, dtor, pushed, posted, atStop>>
  PROVE  DingInv'
<1>1. CASE ~HasMsg
  <2>1. UNCHANGED <<m_msgs, msg, taken>>
    BY <1>1 DEF TakeMsg
  <2>2. TypeOK'
    BY <2>1 DEF DingInv, TypeOK
  <2> QED BY <2>1, <2>2, MoveInv DEF QueueVars, Inside
<1>2. CASE HasMsg
  <2>1. /\ m_msgs # <<>> /\ msg' = <<m_msgs[1]>>
        /\ taken' = Append(taken, m_msgs[1]) /\ m_msgs' = Tail(m_msgs)
    BY <1>2 DEF TakeMsg, HasMsg, Front
  <2>2. m_msgs \in Seq(Message) /\ taken \in Seq(Message)
    BY DEF DingInv, TypeOK
  <2>3. /\ m_msgs[1] \in Message /\ m_msgs' \in Seq(Message)
        /\ taken' \in Seq(Message) /\ Len(taken') = Len(taken) + 1
    BY <2>1, <2>2
  <2>4. TypeOK'
    BY <2>1, <2>3 DEF DingInv, TypeOK
  <2>5. TakenInOrder'
    <3>1. Append(taken, m_msgs[1]) \o Tail(m_msgs) = taken \o m_msgs
      BY <2>1, <2>2
    <3> QED BY <2>1, <3>1 DEF DingInv, TakenInOrder
  <2>6. StopInv'
    BY <2>3 DEF DingInv, TypeOK, StopInv, Inside
  <2> QED BY <2>4, <2>5, <2>6 DEF DingInv, BlockInv, PushInv, NeverSleepsOnMsg
<1> QED BY <1>1, <1>2

LEMMA SenderInv ==
  ASSUME DingInv, SenderStep \/ SpuriousWake
  PROVE  DingInv'
<1>1. CASE LoopTest
  BY <1>1, MoveInv DEF LoopTest, LeavesLoop, DingInv, TypeOK, QueueVars, Inside
<1>2. CASE PredicateTrue
  BY <1>2, TakeMsgInv DEF PredicateTrue, TakeMsg, Inside
<1>3. CASE TimedOut
  BY <1>3, TakeMsgInv DEF TimedOut, TakeMsg, Inside
<1>4. CASE PredicateFalse
  <2>1. TypeOK'
    BY <1>4 DEF PredicateFalse, DingInv, TypeOK
  <2>2. NeverSleepsOnMsg'
    BY <1>4 DEF PredicateFalse, HasMsg, NeverSleepsOnMsg
  <2> QED BY <1>4, <2>1, <2>2 DEF PredicateFalse, DingInv, BlockInv, PushInv,
            TakenInOrder, StopInv
<1>5. CASE Block
  <2>1. TypeOK' /\ m_msgs = <<>>
    BY <1>5 DEF Block, DingInv, TypeOK, NeverSleepsOnMsg
  <2> QED BY <1>5, <2>1, MoveInv DEF Block, QueueVars, Inside
<1>6. CASE Timeout
  BY <1>6, MoveInv DEF Timeout, DingInv, TypeOK, QueueVars, Inside
<1>7. CASE SendDingMsg
  <2>1. posted' \in Seq(Message)
    <3>1. posted' = posted \/ posted' = posted \o msg
      BY <1>7 DEF SendDingMsg
    <3>2. posted \in Seq(Message) /\ posted \o msg \in Seq(Message)
      BY ConcatProperties DEF DingInv, TypeOK
    <3> QED BY <3>1, <3>2
  <2>2. TypeOK'
    BY <1>7, <2>1 DEF SendDingMsg, DingInv, TypeOK
  <2> QED BY <1>7, <2>2, MoveInv DEF SendDingMsg, QueueVars, Inside
<1>8. CASE SpuriousWake
  BY <1>8, MoveInv DEF SpuriousWake, DingInv, TypeOK, QueueVars, Inside
<1> QED BY <1>1, <1>2, <1>3, <1>4, <1>5, <1>6, <1>7, <1>8 DEF SenderStep

LEMMA DestructorInv ==
  ASSUME DingInv, SetStop \/ NotifyStop \/ Join
  PROVE  DingInv'
<1>1. CASE SetStop
  <2>1. Len(taken) \in Nat
    BY DEF DingInv, TypeOK
  <2>2. TypeOK' /\ StopInv'
    BY <1>1, <2>1 DEF SetStop, DingInv, TypeOK, StopInv
  <2> QED BY <1>1, <2>2 DEF SetStop, DingInv, BlockInv, PushInv, TakenInOrder,
            NeverSleepsOnMsg
<1>2. CASE NotifyStop
  <2>1. TypeOK'
    BY <1>2 DEF NotifyStop, Wake, DingInv, TypeOK
  <2>2. NeverSleepsOnMsg' /\ BlockInv' /\ StopInv'
    BY <1>2 DEF NotifyStop, Wake, DingInv, NeverSleepsOnMsg, BlockInv, StopInv, Inside
  <2> QED BY <1>2, <2>1, <2>2 DEF NotifyStop, DingInv, PushInv, TakenInOrder
<1>3. CASE Join
  <2>1. TypeOK' /\ PushInv'
    BY <1>3 DEF Join, DingInv, TypeOK, PushInv
  <2> QED BY <1>3, <2>1, ApartInv DEF Join, QueueVars
<1> QED BY <1>1, <1>2, <1>3

LEMMA DingStepInv == DingInv /\ [Next]_vars => DingInv'
<1> SUFFICES ASSUME DingInv, [Next]_vars PROVE DingInv'
  OBVIOUS
<1>1. CASE UNCHANGED vars
  BY <1>1 DEF vars, DingInv, TypeOK, BlockInv, PushInv, TakenInOrder, NeverSleepsOnMsg,
     StopInv
<1>2. CASE Exited
  BY <1>1, <1>2 DEF Exited
<1> QED BY <1>1, <1>2, BeginInv, PushMsgInv, NotifyInv, SenderInv, DestructorInv
        DEF Next

\* The invariant holds of every behaviour of the producers, the sender and the
\* destructor.
THEOREM DingInvariant == Spec => []DingInv
BY DingInitInv, DingStepInv, PTL DEF Spec

\* Every variable of the sender, the producers and the destructor keeps its
\* type.
THEOREM DingTypeCorrect == Spec => []TypeOK
<1>1. DingInv => TypeOK
  BY DEF DingInv
<1> QED BY <1>1, DingInvariant, PTL

\* The sender takes the messages in the order PushMsg() put them in the
\* queue, without losing or repeating one.
THEOREM DingTakenInOrder == Spec => []TakenInOrder
<1>1. DingInv => TakenInOrder
  BY DEF DingInv
<1> QED BY <1>1, DingInvariant, PTL

\* PushMsg() notifies only when it finds the queue empty, after it has
\* released the lock, and still no message waits for a sleeping sender that
\* nobody is about to wake.
THEOREM DingNeverSleepsOnMsg == Spec => []NeverSleepsOnMsg
<1>1. DingInv => NeverSleepsOnMsg
  BY DEF DingInv
<1> QED BY <1>1, DingInvariant, PTL

\* After ~DingMsgSender() has set m_stop, at most one message leaves the
\* queue.
THEOREM DingAtMostOneAfterStop == Spec => []AtMostOneAfterStop
<1>1. DingInv => AtMostOneAfterStop
  BY DEF DingInv, StopInv, AtMostOneAfterStop
<1> QED BY <1>1, DingInvariant, PTL
===============================================================================
