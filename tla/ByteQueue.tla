------------------------------ MODULE ByteQueue ------------------------------
(***************************************************************************)
(* What a cgidump stream buffer promises its user, HttpBuf: a bounded FIFO *)
(* of bytes.  A packet is appended whole or refused whole, a read returns  *)
(* the oldest bytes, and only OutputTcpPkg consumes what it returns.       *)
(* TcpBuf implements this specification with a ring of MAX_BUF_SIZE cells. *)
(***************************************************************************)
EXTENDS Naturals, Sequences

CONSTANTS
  Capacity,   \* the number of bytes the queue can hold
  Packets,    \* the packets (byte sequences) that may be put
  ReadSizes   \* the lengths that may be asked for

VARIABLES
  queue,   \* the bytes put and not yet consumed, oldest first
  out,     \* the bytes the last read copied to its caller
  ok,      \* whether the last put was accepted
  call     \* the last call: the function and its argument

vars == <<queue, out, ok, call>>

Init ==
  /\ queue = <<>>
  /\ out = <<>>
  /\ ok = TRUE
  /\ call = <<>>

Store(data) ==
  /\ Len(queue) + Len(data) <= Capacity
  /\ queue' = queue \o data
  /\ ok' = TRUE
  /\ call' = <<"InputTcpPkg", data>>
  /\ UNCHANGED out

\* A packet that does not fit is refused and nothing of it is kept.
Refuse(data) ==
  /\ Len(queue) + Len(data) > Capacity
  /\ ok' = FALSE
  /\ call' = <<"InputTcpPkg", data>>
  /\ UNCHANGED <<queue, out>>

Put(data) == Store(data) \/ Refuse(data)

\* The number of bytes a read of n returns.
Available(n) == IF n > Len(queue) THEN Len(queue) ELSE n

Peek(n) ==
  /\ out' = SubSeq(queue, 1, Available(n))
  /\ call' = <<"PreOutputTcpPkg", n>>
  /\ UNCHANGED <<queue, ok>>

Get(n) ==
  /\ out' = SubSeq(queue, 1, Available(n))
  /\ queue' = SubSeq(queue, Available(n) + 1, Len(queue))
  /\ call' = <<"OutputTcpPkg", n>>
  /\ UNCHANGED ok

Next ==
  \/ \E data \in Packets : Put(data)
  \/ \E n \in ReadSizes : Peek(n) \/ Get(n)

Spec == Init /\ [][Next]_vars
==============================================================================
