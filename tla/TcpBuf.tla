------------------------------- MODULE TcpBuf -------------------------------
(***************************************************************************)
(* tools/cgidump/tcp_buf.cpp: the ring of MAX_BUF_SIZE bytes that holds    *)
(* one direction of a captured TCP stream until HttpBuf can cut a message  *)
(* out of it.                                                              *)
(*                                                                         *)
(* m_start = m_end means empty, so the ring must never fill completely;    *)
(* and after every write the code stores a NUL at m_buf[m_end], so that    *)
(* cell must not hold a byte that is still to be read.  RemainSize keeps   *)
(* two cells back for these two reasons.                                   *)
(*                                                                         *)
(* The pointer `data' of the C++ interface is a sequence for a packet put  *)
(* in, and the variable out for the caller's array a read copies into.     *)
(* Packets have Len >= 0: a length below 0, which ParsePkg does not keep   *)
(* away from the buffers (see ParsePkg), passes the test in InputTcpPkg    *)
(* and makes memcpy run out of the address space.                          *)
(***************************************************************************)
EXTENDS Integers, Sequences

CONSTANTS
  MAX_BUF_SIZE,   \* cells of the ring (8192 in tcp_buf.h)
  Byte,           \* the byte values the model tells apart
  Nul,            \* the byte '\0'
  Packets,        \* the packets that may be put
  ReadSizes       \* the lengths that may be asked for

ASSUME SizeAssumption == MAX_BUF_SIZE \in Nat /\ MAX_BUF_SIZE >= 2
ASSUME NulAssumption == Nul \in Byte
ASSUME InputAssumption == Packets \subseteq Seq(Byte) /\ ReadSizes \subseteq Nat

VARIABLES
  m_buf,     \* the ring
  m_start,   \* index of the oldest byte
  m_end,     \* index one past the newest byte
  out,       \* the bytes the last read copied to its caller
  ok,        \* what the last InputTcpPkg returned
  call       \* the last call: the function and its argument

vars == <<m_buf, m_start, m_end, out, ok, call>>

Index == 0 .. (MAX_BUF_SIZE - 1)

Calls == {<<>>}
         \cup {<<"InputTcpPkg", data>> : data \in Packets}
         \cup {<<"PreOutputTcpPkg", len>> : len \in ReadSizes}
         \cup {<<"OutputTcpPkg", len>> : len \in ReadSizes}

(***************************************************************************)
(* Slips the properties have to notice: each operator below differs from   *)
(* the one of the same stem by one plausible coding error.                 *)
(***************************************************************************)
\* RemainSize without the two cells kept back.
RemainSizeNoReserve(used) == MAX_BUF_SIZE - used

\* The wrap test with > in place of >=.
WrapsLate(pos, n) == pos + n > MAX_BUF_SIZE

\* The second memcpy reading from data rather than from data + first_len.
WrittenTwice(data) ==
  [i \in Index |-> IF i \in m_end .. (m_end + Len(data) - 1)
                     THEN data[i - m_end + 1]
                     ELSE IF i < m_end + Len(data) - MAX_BUF_SIZE
                            THEN data[i + 1]
                            ELSE m_buf[i]]
-----------------------------------------------------------------------------
GetDataLen ==
  IF m_end = m_start THEN 0
  ELSE IF m_end > m_start THEN m_end - m_start
  ELSE MAX_BUF_SIZE - m_start + m_end

\* RemainSize(), as a function of the bytes in use.
RemainSize(used) == MAX_BUF_SIZE - used - 2

\* The test that decides between one memcpy and two.
Wraps(pos, n) == pos + n >= MAX_BUF_SIZE

\* Where an index arrives that moves n cells on from pos.
Advance(pos, n) ==
  IF Wraps(pos, n) THEN n - (MAX_BUF_SIZE - pos) ELSE pos + n

\* The ring after the one or two memcpy of InputTcpPkg.
Written(data) ==
  [i \in Index |-> IF i \in m_end .. (m_end + Len(data) - 1)
                     THEN data[i - m_end + 1]
                     ELSE IF i < m_end + Len(data) - MAX_BUF_SIZE
                            THEN data[MAX_BUF_SIZE - m_end + i + 1]
                            ELSE m_buf[i]]

\* m_buf[m_end] = '\0', after m_end has moved to pos.
Terminated(buf, pos) == [buf EXCEPT ![pos] = Nul]

\* The n bytes the one or two memcpy of a read deliver.
CopyOut(n) ==
  [k \in 1 .. n |-> IF Wraps(m_start, n) /\ k > MAX_BUF_SIZE - m_start
                      THEN m_buf[k - (MAX_BUF_SIZE - m_start) - 1]
                      ELSE m_buf[m_start + k - 1]]

\* len = len > GetDataLen() ? GetDataLen() : len
Clamp(len) == IF len > GetDataLen THEN GetDataLen ELSE len
-----------------------------------------------------------------------------
Init ==
  /\ m_buf = [i \in Index |-> Nul]
  /\ m_start = 0
  /\ m_end = 0
  /\ out = <<>>
  /\ ok = TRUE
  /\ call = <<>>

InputRefused(data) ==
  /\ Len(data) > RemainSize(GetDataLen)
  /\ ok' = FALSE
  /\ call' = <<"InputTcpPkg", data>>
  /\ UNCHANGED <<m_buf, m_start, m_end, out>>

InputStored(data) ==
  /\ Len(data) <= RemainSize(GetDataLen)
  /\ m_end' = Advance(m_end, Len(data))
  /\ m_buf' = Terminated(Written(data), m_end')
  /\ ok' = TRUE
  /\ call' = <<"InputTcpPkg", data>>
  /\ UNCHANGED <<m_start, out>>

InputTcpPkg(data) == InputRefused(data) \/ InputStored(data)

PreOutputTcpPkg(len) ==
  /\ out' = CopyOut(Clamp(len))
  /\ call' = <<"PreOutputTcpPkg", len>>
  /\ UNCHANGED <<m_buf, m_start, m_end, ok>>

OutputTcpPkg(len) ==
  /\ out' = CopyOut(Clamp(len))
  /\ m_start' = Advance(m_start, Clamp(len))
  /\ call' = <<"OutputTcpPkg", len>>
  /\ UNCHANGED <<m_buf, m_end, ok>>

Next ==
  \/ \E data \in Packets : InputTcpPkg(data)
  \/ \E len \in ReadSizes : PreOutputTcpPkg(len) \/ OutputTcpPkg(len)

Spec == Init /\ [][Next]_vars
-----------------------------------------------------------------------------
\* Every index stays inside the ring and every cell holds a byte.
TypeOK ==
  /\ m_buf \in [Index -> Byte]
  /\ m_start \in Index
  /\ m_end \in Index
  /\ out \in Seq(Byte)
  /\ ok \in BOOLEAN
  /\ call \in Calls

\* After any sequence of InputTcpPkg and OutputTcpPkg at least two cells are
\* free, so a ring that holds bytes never has m_start = m_end, which
\* GetDataLen reads as empty.
NeverFull == GetDataLen <= MAX_BUF_SIZE - 2

\* The bytes that are stored, oldest first.
Contents ==
  [k \in 1 .. GetDataLen |-> IF m_start + k <= MAX_BUF_SIZE
                               THEN m_buf[m_start + k - 1]
                               ELSE m_buf[m_start + k - 1 - MAX_BUF_SIZE]]

Queue == INSTANCE ByteQueue
           WITH queue <- Contents, Capacity <- MAX_BUF_SIZE - 2

\* The ring is a bounded FIFO of bytes: InputTcpPkg appends a packet whole
\* or refuses it, PreOutputTcpPkg and OutputTcpPkg deliver the oldest bytes
\* in order, and no wrap, terminating NUL or refusal changes a stored byte.
ImplementsByteQueue == Queue!Spec
=============================================================================
