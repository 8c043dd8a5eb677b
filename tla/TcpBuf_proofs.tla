---------------------------- MODULE TcpBuf_proofs ----------------------------
(***************************************************************************)
(* Proofs about the ring of cgidump, for every ring size, byte set, packet *)
(* set and set of read lengths.                                            *)
(***************************************************************************)
EXTENDS TcpBuf, SequenceTheorems, TLAPS

\* TypeOK and NeverFull are inductive together: that an index stays inside
\* the ring needs the two free cells, and the free cells need the index.
RingInv == TypeOK /\ NeverFull

\* The number of stored bytes is a natural below the ring size.
LEMMA DataLenType ==
  ASSUME TypeOK
  PROVE  GetDataLen \in Nat /\ GetDataLen < MAX_BUF_SIZE
BY SizeAssumption DEF TypeOK, GetDataLen, Index

\* What a read is clamped to is never more than what is stored.
LEMMA ClampType ==
  ASSUME TypeOK, NEW len \in Nat
  PROVE  Clamp(len) \in Nat /\ Clamp(len) <= GetDataLen
BY DataLenType DEF Clamp

\* A read delivers a sequence of Clamp(len) bytes.
LEMMA CopyOutType ==
  ASSUME TypeOK, NEW n \in Nat, n <= GetDataLen
  PROVE  CopyOut(n) \in Seq(Byte) /\ Len(CopyOut(n)) = n
<1>1. ASSUME NEW k \in 1 .. n
      PROVE  (IF Wraps(m_start, n) /\ k > MAX_BUF_SIZE - m_start
                THEN m_buf[k - (MAX_BUF_SIZE - m_start) - 1]
                ELSE m_buf[m_start + k - 1]) \in Byte
  <2>1. n < MAX_BUF_SIZE /\ m_start \in Index
    BY DataLenType, SizeAssumption DEF TypeOK
  <2>2. CASE Wraps(m_start, n) /\ k > MAX_BUF_SIZE - m_start
    <3>1. k - (MAX_BUF_SIZE - m_start) - 1 \in Index
      BY <2>1, <2>2, SizeAssumption DEF Index
    <3> QED BY <2>2, <3>1 DEF TypeOK
  <2>3. CASE ~(Wraps(m_start, n) /\ k > MAX_BUF_SIZE - m_start)
    <3>1. m_start + k - 1 \in Index
      BY <2>1, <2>3, SizeAssumption DEF Index, Wraps
    <3> QED BY <2>3, <3>1 DEF TypeOK
  <2> QED BY <2>2, <2>3
<1>2. CopyOut(n) \in [1 .. n -> Byte]
  BY <1>1 DEF CopyOut
<1> QED BY <1>2

\* Moving an index by less than the ring size keeps it inside the ring.
LEMMA AdvanceType ==
  ASSUME NEW pos \in Index, NEW n \in Nat, n < MAX_BUF_SIZE
  PROVE  Advance(pos, n) \in Index
BY SizeAssumption DEF Advance, Wraps, Index
-----------------------------------------------------------------------------
\* The bytes in use after n more are stored, respectively n are consumed.
LEMMA StoredLen ==
  ASSUME TypeOK, NeverFull, NEW n \in Nat, n <= RemainSize(GetDataLen),
         m_start' = m_start, m_end' = Advance(m_end, n)
  PROVE  GetDataLen' = GetDataLen + n
BY SizeAssumption
   DEF TypeOK, NeverFull, GetDataLen, RemainSize, Advance, Wraps, Index

LEMMA ConsumedLen ==
  ASSUME TypeOK, NeverFull, NEW n \in Nat, n <= GetDataLen,
         m_end' = m_end, m_start' = Advance(m_start, n)
  PROVE  GetDataLen' = GetDataLen - n
BY SizeAssumption
   DEF TypeOK, NeverFull, GetDataLen, Advance, Wraps, Index

\* A write leaves every cell of the ring holding a byte.
LEMMA WrittenType ==
  ASSUME TypeOK, NEW data \in Seq(Byte), Len(data) <= RemainSize(GetDataLen)
  PROVE  Written(data) \in [Index -> Byte]
<1> SUFFICES ASSUME NEW i \in Index
             PROVE  Written(data)[i] \in Byte
  BY DEF Written
<1>1. Len(data) \in Nat /\ Len(data) < MAX_BUF_SIZE
  BY DataLenType, SizeAssumption DEF RemainSize
<1>2. CASE i \in m_end .. (m_end + Len(data) - 1)
  <2>1. i - m_end + 1 \in 1 .. Len(data)
    BY <1>1, <1>2, SizeAssumption DEF TypeOK, Index
  <2> QED BY <1>2, <2>1 DEF Written
<1>3. CASE i \notin m_end .. (m_end + Len(data) - 1)
           /\ i < m_end + Len(data) - MAX_BUF_SIZE
  <2>1. MAX_BUF_SIZE - m_end + i + 1 \in 1 .. Len(data)
    BY <1>1, <1>3, SizeAssumption DEF TypeOK, Index
  <2> QED BY <1>3, <2>1 DEF Written
<1>4. CASE i \notin m_end .. (m_end + Len(data) - 1)
           /\ ~(i < m_end + Len(data) - MAX_BUF_SIZE)
  BY <1>4 DEF Written, TypeOK
<1> QED BY <1>2, <1>3, <1>4

LEMMA InitInv == Init => RingInv
BY SizeAssumption, NulAssumption
   DEF Init, RingInv, TypeOK, NeverFull, GetDataLen, Index, Calls

LEMMA InputInv ==
  ASSUME RingInv, NEW data \in Packets, InputTcpPkg(data)
  PROVE  RingInv'
<1>1. data \in Seq(Byte) /\ Len(data) \in Nat
  BY InputAssumption
<1>2. CASE InputRefused(data)
  BY <1>2 DEF RingInv, TypeOK, NeverFull, InputRefused, GetDataLen,
         Calls
<1>3. CASE InputStored(data)
  <2>1. Len(data) <= RemainSize(GetDataLen) /\ Len(data) < MAX_BUF_SIZE
    BY <1>1, <1>3, DataLenType, SizeAssumption DEF InputStored, RingInv, RemainSize
  <2>2. m_end' \in Index
    BY <1>1, <1>3, <2>1, AdvanceType DEF InputStored, RingInv, TypeOK
  <2>3. m_buf' \in [Index -> Byte] /\ m_buf'[m_end'] = Nul
    BY <1>1, <1>3, <2>1, <2>2, WrittenType, NulAssumption
       DEF InputStored, Terminated, RingInv
  <2>4. GetDataLen' = GetDataLen + Len(data)
    BY <1>1, <1>3, <2>1, StoredLen DEF InputStored, RingInv
  <2>5. GetDataLen' <= MAX_BUF_SIZE - 2
    BY <1>1, <2>1, <2>4, DataLenType, SizeAssumption DEF RingInv, RemainSize
  <2> QED
    BY <1>3, <2>2, <2>3, <2>5
       DEF InputStored, RingInv, TypeOK, NeverFull, Calls
<1> QED BY <1>2, <1>3 DEF InputTcpPkg

LEMMA PreOutputInv ==
  ASSUME RingInv, NEW len \in ReadSizes, PreOutputTcpPkg(len)
  PROVE  RingInv'
<1>1. CopyOut(Clamp(len)) \in Seq(Byte)
  BY InputAssumption, ClampType, CopyOutType DEF RingInv
<1> QED
  BY <1>1
     DEF PreOutputTcpPkg, RingInv, TypeOK, NeverFull, GetDataLen,
         Calls

LEMMA OutputInv ==
  ASSUME RingInv, NEW len \in ReadSizes, OutputTcpPkg(len)
  PROVE  RingInv'
<1>1. Clamp(len) \in Nat /\ Clamp(len) <= GetDataLen /\ Clamp(len) < MAX_BUF_SIZE
  BY InputAssumption, ClampType, DataLenType, SizeAssumption DEF RingInv
<1>2. CopyOut(Clamp(len)) \in Seq(Byte)
  BY <1>1, CopyOutType DEF RingInv
<1>3. m_start' \in Index
  BY <1>1, AdvanceType DEF OutputTcpPkg, RingInv, TypeOK
<1>4. GetDataLen' = GetDataLen - Clamp(len)
  BY <1>1, ConsumedLen DEF OutputTcpPkg, RingInv
<1>5. GetDataLen' <= MAX_BUF_SIZE - 2
  BY <1>1, <1>4, DataLenType, SizeAssumption DEF RingInv, NeverFull
<1> QED
  BY <1>2, <1>3, <1>5
     DEF OutputTcpPkg, RingInv, TypeOK, NeverFull, Calls

\* Every call of TcpBuf preserves the invariant of the ring.
LEMMA NextInv == RingInv /\ [Next]_vars => RingInv'
<1> SUFFICES ASSUME RingInv, [Next]_vars
             PROVE  RingInv'
  OBVIOUS
<1>1. CASE UNCHANGED vars
  BY <1>1 DEF vars, RingInv, TypeOK, NeverFull, GetDataLen
<1>2. CASE Next
  BY <1>2, InputInv, PreOutputInv, OutputInv DEF Next
<1> QED BY <1>1, <1>2

LEMMA RingInvariant == Spec => []RingInv
BY InitInv, NextInv, PTL DEF Spec

\* The indices of the ring never leave it and every cell holds a byte, for
\* every MAX_BUF_SIZE of at least two.
THEOREM TypeCorrect == Spec => []TypeOK
BY RingInvariant, PTL DEF RingInv

\* No sequence of InputTcpPkg and OutputTcpPkg fills the ring, so m_start =
\* m_end always means empty.
THEOREM RingNeverFull == Spec => []NeverFull
BY RingInvariant, PTL DEF RingInv
-----------------------------------------------------------------------------
\* The index of the k-th stored byte.
Cell(k) == IF m_start + k <= MAX_BUF_SIZE
             THEN m_start + k - 1
             ELSE m_start + k - 1 - MAX_BUF_SIZE

\* The abstraction of a ring is a sequence of GetDataLen bytes, and none of
\* them lies in the cell m_end.
ContentsFacts ==
  /\ Contents \in Seq(Byte)
  /\ Len(Contents) = GetDataLen
  /\ \A k \in 1 .. GetDataLen : Contents[k] = m_buf[Cell(k)]
  /\ \A k \in 1 .. GetDataLen : Cell(k) \in Index /\ Cell(k) # m_end

LEMMA ContentsType == TypeOK => ContentsFacts
<1> SUFFICES ASSUME TypeOK
             PROVE  ContentsFacts
  OBVIOUS
<1>1. \A k \in 1 .. GetDataLen : Cell(k) \in Index /\ Cell(k) # m_end
  BY SizeAssumption DEF TypeOK, Index, Cell, GetDataLen
<1>2. \A k \in 1 .. GetDataLen : Contents[k] = m_buf[Cell(k)]
  BY DEF Contents, Cell
<1>3. Contents \in [1 .. GetDataLen -> Byte]
  <2> SUFFICES ASSUME NEW k \in 1 .. GetDataLen
               PROVE  Contents[k] \in Byte
    BY DEF Contents
  <2> QED BY <1>1, <1>2 DEF TypeOK
<1> QED BY <1>1, <1>2, <1>3, DataLenType DEF ContentsFacts

\* The same in the state after a step.
LEMMA ContentsTypeNext == TypeOK' => ContentsFacts'
BY ContentsType, PTL

\* A read of n delivers the n oldest bytes.
LEMMA ReadIsPrefix ==
  ASSUME RingInv, NEW n \in Nat, n <= GetDataLen
  PROVE  CopyOut(n) = SubSeq(Contents, 1, n)
<1>1. /\ CopyOut(n) \in Seq(Byte) /\ Len(CopyOut(n)) = n
      /\ \A k \in 1 .. n : CopyOut(n)[k] = m_buf[Cell(k)]
  <2>1. ASSUME NEW k \in 1 .. n
        PROVE  CopyOut(n)[k] = m_buf[Cell(k)]
    <3>1. Cell(k) = IF Wraps(m_start, n) /\ k > MAX_BUF_SIZE - m_start
                      THEN k - (MAX_BUF_SIZE - m_start) - 1
                      ELSE m_start + k - 1
      BY SizeAssumption DEF RingInv, TypeOK, Index, Cell, Wraps
    <3> QED BY <3>1 DEF CopyOut
  <2> QED BY <2>1, CopyOutType DEF RingInv
<1>2. /\ SubSeq(Contents, 1, n) \in Seq(Byte)
      /\ Len(SubSeq(Contents, 1, n)) = n
      /\ \A k \in 1 .. n : SubSeq(Contents, 1, n)[k] = Contents[k]
  <2>1. \A i \in 1 .. n : Contents[i] \in Byte
    BY ContentsType, DataLenType, ElementOfSeq DEF RingInv, ContentsFacts
  <2> QED BY <2>1, SubSeqProperties
<1>3. \A k \in 1 .. n : Contents[k] = m_buf[Cell(k)]
  BY ContentsType, DataLenType DEF RingInv, ContentsFacts
<1> QED BY <1>1, <1>2, <1>3, SeqEqual

\* Consuming n bytes drops the n oldest.
LEMMA ConsumeIsDrop ==
  ASSUME RingInv, RingInv', NEW n \in Nat, n <= GetDataLen,
         m_buf' = m_buf, m_end' = m_end, m_start' = Advance(m_start, n)
  PROVE  Contents' = SubSeq(Contents, n + 1, Len(Contents))
<1> DEFINE rest == SubSeq(Contents, n + 1, Len(Contents))
<1>1. GetDataLen' = GetDataLen - n /\ GetDataLen \in Nat
  BY ConsumedLen, DataLenType DEF RingInv
<1>2. /\ Contents' \in Seq(Byte) /\ Len(Contents') = GetDataLen - n
      /\ \A k \in 1 .. GetDataLen - n : Contents'[k] = m_buf[Cell(k)']
  BY <1>1, ContentsTypeNext DEF RingInv, ContentsFacts
<1>3. /\ rest \in Seq(Byte) /\ Len(rest) = GetDataLen - n
      /\ \A k \in 1 .. GetDataLen - n : rest[k] = Contents[n + k]
  <2>1. \A i \in (n + 1) .. Len(Contents) : Contents[i] \in Byte
    BY ContentsType, <1>1, ElementOfSeq DEF RingInv, ContentsFacts
  <2>2. Len(Contents) = GetDataLen
    BY ContentsType DEF RingInv, ContentsFacts
  <2> QED BY <1>1, <2>1, <2>2, SubSeqProperties
<1>4. \A k \in 1 .. GetDataLen - n : Cell(k)' = Cell(n + k)
  BY <1>1, SizeAssumption DEF RingInv, TypeOK, Index, Cell, Advance, Wraps, GetDataLen
<1>5. \A k \in 1 .. GetDataLen - n : Contents[n + k] = m_buf[Cell(n + k)]
  BY <1>1, ContentsType DEF RingInv, ContentsFacts
<1> QED BY <1>2, <1>3, <1>4, <1>5, SeqEqual

\* Storing a packet appends it: the bytes already stored keep their cells,
\* and the NUL goes to a cell that holds none of them.
LEMMA StoreIsAppend ==
  ASSUME RingInv, RingInv', NEW data \in Packets, InputStored(data)
  PROVE  Contents' = Contents \o data
<1> DEFINE n == Len(data)
<1>1. data \in Seq(Byte) /\ n \in Nat /\ n <= RemainSize(GetDataLen)
  BY InputAssumption DEF InputStored
<1>2. GetDataLen' = GetDataLen + n /\ GetDataLen \in Nat
  BY <1>1, StoredLen, DataLenType DEF RingInv, InputStored
<1>3. /\ Contents' \in Seq(Byte) /\ Len(Contents') = GetDataLen + n
      /\ \A k \in 1 .. GetDataLen + n : Contents'[k] = m_buf'[Cell(k)']
      /\ \A k \in 1 .. GetDataLen + n : Cell(k)' \in Index /\ Cell(k)' # m_end'
  BY <1>2, ContentsTypeNext DEF RingInv, ContentsFacts
<1>4. /\ Contents \in Seq(Byte) /\ Len(Contents) = GetDataLen
      /\ \A k \in 1 .. GetDataLen : Contents[k] = m_buf[Cell(k)]
  BY ContentsType DEF RingInv, ContentsFacts
<1>5. /\ Contents \o data \in Seq(Byte)
      /\ Len(Contents \o data) = GetDataLen + n
      /\ \A k \in 1 .. GetDataLen + n :
           (Contents \o data)[k] = IF k <= GetDataLen THEN Contents[k]
                                   ELSE data[k - GetDataLen]
  BY <1>1, <1>4, ConcatProperties
<1>6. ASSUME NEW k \in 1 .. GetDataLen + n
      PROVE  Contents'[k] = (Contents \o data)[k]
  <2>1. Cell(k)' = Cell(k)
    BY DEF Cell, InputStored
  <2>2. Cell(k) \in Index /\ m_buf'[Cell(k)] = Written(data)[Cell(k)]
    BY <1>3, <2>1, WrittenType, <1>1 DEF InputStored, Terminated, RingInv
  <2>3. CASE k <= GetDataLen
    <3>1. /\ Cell(k) \notin m_end .. (m_end + n - 1)
          /\ ~(Cell(k) < m_end + n - MAX_BUF_SIZE)
      BY <1>1, <1>2, <2>3, SizeAssumption
         DEF RingInv, TypeOK, Index, Cell, GetDataLen, RemainSize
    <3>2. Written(data)[Cell(k)] = m_buf[Cell(k)]
      BY <2>2, <3>1 DEF Written
    <3> QED BY <1>2, <1>3, <1>4, <1>5, <2>1, <2>2, <2>3, <3>2
  <2>4. CASE k > GetDataLen
    <3>1. Written(data)[Cell(k)] = data[k - GetDataLen]
      <4>1. CASE Cell(k) \in m_end .. (m_end + n - 1)
        <5>1. Cell(k) - m_end + 1 = k - GetDataLen
          BY <1>1, <1>2, <2>4, <4>1, SizeAssumption
             DEF RingInv, TypeOK, Index, Cell, GetDataLen, RemainSize
        <5> QED BY <2>2, <4>1, <5>1 DEF Written
      <4>2. CASE Cell(k) \notin m_end .. (m_end + n - 1)
        <5>1. /\ Cell(k) < m_end + n - MAX_BUF_SIZE
              /\ MAX_BUF_SIZE - m_end + Cell(k) + 1 = k - GetDataLen
          BY <1>1, <1>2, <2>4, <4>2, SizeAssumption
             DEF RingInv, TypeOK, Index, Cell, GetDataLen, RemainSize
        <5> QED BY <2>2, <4>2, <5>1 DEF Written
      <4> QED BY <4>1, <4>2
    <3>2. Contents'[k] = data[k - GetDataLen]
      BY <1>3, <2>1, <2>2, <3>1
    <3>3. (Contents \o data)[k] = data[k - GetDataLen]
      BY <1>1, <1>2, <1>5, <2>4
    <3> QED BY <3>2, <3>3
  <2>5. k <= GetDataLen \/ k > GetDataLen
    BY <1>1, <1>2
  <2> QED BY <2>3, <2>4, <2>5
<1> QED BY <1>3, <1>5, <1>6, SeqEqual
-----------------------------------------------------------------------------
\* Every step of the ring is a step of the byte queue or leaves it alone.
LEMMA StepSimulation ==
  ASSUME RingInv, RingInv', [Next]_vars
  PROVE  [Queue!Next]_(Queue!vars)
<1>1. Len(Contents) = GetDataLen /\ GetDataLen \in Nat
  BY ContentsType, DataLenType DEF RingInv, ContentsFacts
<1>2. CASE UNCHANGED vars
  BY <1>2 DEF vars, Queue!vars, Contents, GetDataLen
<1>3. ASSUME NEW data \in Packets, InputTcpPkg(data)
      PROVE  Queue!Put(data)
  <2>1. data \in Seq(Byte) /\ Len(data) \in Nat
    BY InputAssumption
  <2>2. CASE InputRefused(data)
    <3>1. Len(Contents) + Len(data) > MAX_BUF_SIZE - 2
      BY <1>1, <2>1, <2>2, SizeAssumption DEF InputRefused, RemainSize
    <3>2. Contents' = Contents
      BY <2>2 DEF InputRefused, Contents, GetDataLen
    <3>3. ok' = FALSE /\ out' = out /\ call' = <<"InputTcpPkg", data>>
      BY <2>2 DEF InputRefused
    <3> QED BY <3>1, <3>2, <3>3 DEF Queue!Put, Queue!Refuse
  <2>3. CASE InputStored(data)
    <3>1. Len(Contents) + Len(data) <= MAX_BUF_SIZE - 2
      BY <1>1, <2>1, <2>3, SizeAssumption DEF InputStored, RemainSize
    <3>2. Contents' = Contents \o data
      BY <2>3, StoreIsAppend
    <3> QED BY <2>3, <3>1, <3>2 DEF InputStored, Queue!Put, Queue!Store
  <2> QED BY <1>3, <2>2, <2>3 DEF InputTcpPkg
<1>4. ASSUME NEW len \in ReadSizes
      PROVE  /\ Clamp(len) = Queue!Available(len)
             /\ CopyOut(Clamp(len)) = SubSeq(Contents, 1, Queue!Available(len))
             /\ Clamp(len) \in Nat /\ Clamp(len) <= GetDataLen
  <2>1. Clamp(len) = Queue!Available(len)
    BY <1>1 DEF Clamp, Queue!Available
  <2>2. Clamp(len) \in Nat /\ Clamp(len) <= GetDataLen
    BY InputAssumption, ClampType DEF RingInv
  <2> QED BY <2>1, <2>2, ReadIsPrefix
<1>5. ASSUME NEW len \in ReadSizes, PreOutputTcpPkg(len)
      PROVE  Queue!Peek(len)
  <2>1. Contents' = Contents
    BY <1>5 DEF PreOutputTcpPkg, Contents, GetDataLen
  <2> QED BY <1>4, <1>5, <2>1 DEF PreOutputTcpPkg, Queue!Peek
<1>6. ASSUME NEW len \in ReadSizes, OutputTcpPkg(len)
      PROVE  Queue!Get(len)
  <2>1. Contents' = SubSeq(Contents, Clamp(len) + 1, Len(Contents))
    BY <1>4, <1>6, ConsumeIsDrop DEF OutputTcpPkg
  <2> QED BY <1>4, <1>6, <2>1 DEF OutputTcpPkg, Queue!Get
<1> QED BY <1>2, <1>3, <1>5, <1>6 DEF Next, Queue!Next

LEMMA InitSimulation == Init => Queue!Init
BY SizeAssumption DEF Init, Queue!Init, Contents, GetDataLen

\* The ring of cgidump implements a bounded FIFO of MAX_BUF_SIZE - 2 bytes:
\* wrapping, the terminating NUL and refused packets never lose, reorder or
\* change a byte that was accepted.
THEOREM RingImplementsByteQueue == Spec => ImplementsByteQueue
<1>1. RingInv /\ RingInv' /\ [Next]_vars => [Queue!Next]_(Queue!vars)
  BY StepSimulation
<1> QED
  BY <1>1, InitSimulation, RingInvariant, PTL
     DEF Spec, ImplementsByteQueue, Queue!Spec
==============================================================================
