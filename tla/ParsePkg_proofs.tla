--------------------------- MODULE ParsePkg_proofs ---------------------------
(***************************************************************************)
(* What ParsePkg cuts out of the captured streams, for any traffic.        *)
(***************************************************************************)
EXTENDS ParsePkg, SequenceTheorems, WellFoundedInduction, NaturalsInduction, TLAPS

(***************************************************************************)
(* The smallest and the largest element of a set of positions.             *)
(***************************************************************************)
LEMMA LeastExists ==
  ASSUME NEW T, T \subseteq Nat, T # {}
  PROVE  \E x \in T : \A y \in T : x <= y
<1>1. PICK x \in T : \A y \in T : ~(<<y, x>> \in OpToRel(<, Nat))
  BY NatLessThanWellFounded, WFMin
<1>2. \A y \in T : ~(y < x)
  BY <1>1 DEF OpToRel
<1> QED BY <1>2

LEMMA MinOfPositions ==
  ASSUME NEW N \in Nat, NEW T, T \subseteq 1 .. N, T # {}
  PROVE  Min(T) \in T /\ \A y \in T : Min(T) <= y
<1>1. T \subseteq Nat
  OBVIOUS
<1>2. \E x \in T : \A y \in T : x <= y
  BY <1>1, LeastExists
<1> QED BY <1>2 DEF Min

LEMMA MaxOfPositions ==
  ASSUME NEW N \in Nat, NEW T, T \subseteq 1 .. N, T # {}
  PROVE  Max(T) \in T /\ \A y \in T : Max(T) >= y
<1> DEFINE U == {N - i : i \in T}
<1>1. U \subseteq Nat /\ U # {}
  <2>1. \A i \in T : N - i \in Nat
    OBVIOUS
  <2> QED BY <2>1
<1>2. PICK u \in U : \A v \in U : u <= v
  BY <1>1, LeastExists
<1>3. PICK x \in T : u = N - x
  OBVIOUS
<1>4. ASSUME NEW y \in T PROVE x >= y
  <2>1. N - x <= N - y
    BY <1>2, <1>3
  <2>2. x \in 1 .. N /\ y \in 1 .. N
    OBVIOUS
  <2> QED BY <2>1, <2>2
<1> QED BY <1>4 DEF Max

-----------------------------------------------------------------------------
(***************************************************************************)
(* Types.  All buffers hold symbols; what is printed and sent are          *)
(* sequences of messages.                                                  *)
(***************************************************************************)
Symbol == [kind : {"start", "word", "text", "length", "blank", "body"}, n : Nat]
Bytes == Seq(Symbol)

ParseType ==
  /\ m_inited \in BOOLEAN /\ running \in BOOLEAN
  /\ \A c \in DOMAIN m_sessions : \A d \in Direction : m_sessions[c][d] \in Bytes
  /\ printed \in [Stream -> Seq(Bytes)] /\ sent \in [Stream -> Seq(Bytes)]
  /\ wire \in [Stream -> Bytes]
  /\ status \in [Stream -> {"whole", "gaps", "torn", "refused"}]

\* The bytes held for stream s.
Held(s) == Buffered(s[1], s[2])

LEMMA HeldType ==
  ASSUME ParseType, NEW s \in Stream
  PROVE  Held(s) \in Bytes /\ wire[s] \in Bytes /\ printed[s] \in Seq(Bytes) /\ sent[s] \in Seq(Bytes)
<1>1. s[2] \in Direction
  BY StreamAssumption
<1>2. <<>> \in Bytes
  BY EmptySeq DEF Bytes
<1> QED BY <1>1, <1>2 DEF ParseType, Held, Buffered

\* A prefix of a sequence and what follows it.
LEMMA CutBytes ==
  ASSUME NEW S, NEW q \in Seq(S), NEW m \in Nat
  PROVE  /\ SubSeq(q, m + 1, Len(q)) \in Seq(S)
         /\ Len(SubSeq(q, m + 1, Len(q))) = IF m <= Len(q) THEN Len(q) - m ELSE 0
         /\ \A i \in 1 .. (Len(q) - m) : SubSeq(q, m + 1, Len(q))[i] = q[m + i]
         /\ m <= Len(q) => /\ SubSeq(q, 1, m) \in Seq(S) /\ Len(SubSeq(q, 1, m)) = m
                           /\ \A i \in 1 .. m : SubSeq(q, 1, m)[i] = q[i]
<1>1. Len(q) \in Nat /\ \A i \in 1 .. Len(q) : q[i] \in S
  BY LenProperties, ElementOfSeq
<1>2. \A i \in m + 1 .. Len(q) : q[i] \in S
  BY <1>1
<1>3. /\ SubSeq(q, m + 1, Len(q)) \in Seq(S)
      /\ Len(SubSeq(q, m + 1, Len(q))) = IF m + 1 <= Len(q) THEN Len(q) - (m + 1) + 1 ELSE 0
      /\ \A i \in 1 .. (Len(q) - (m + 1) + 1) : SubSeq(q, m + 1, Len(q))[i] = q[(m + 1) + i - 1]
  BY <1>1, <1>2, SubSeqProperties
<1>4. ASSUME m <= Len(q)
      PROVE  /\ SubSeq(q, 1, m) \in Seq(S) /\ Len(SubSeq(q, 1, m)) = m
             /\ \A i \in 1 .. m : SubSeq(q, 1, m)[i] = q[i]
  <2>1. \A i \in 1 .. m : q[i] \in S
    BY <1>1, <1>4
  <2>2. /\ SubSeq(q, 1, m) \in Seq(S)
        /\ Len(SubSeq(q, 1, m)) = IF 1 <= m THEN m - 1 + 1 ELSE 0
        /\ \A i \in 1 .. (m - 1 + 1) : SubSeq(q, 1, m)[i] = q[1 + i - 1]
    BY <2>1, SubSeqProperties
  <2> QED BY <2>2
<1>5. /\ Len(SubSeq(q, m + 1, Len(q))) = IF m <= Len(q) THEN Len(q) - m ELSE 0
      /\ \A i \in 1 .. (Len(q) - m) : SubSeq(q, m + 1, Len(q))[i] = q[m + i]
  BY <1>1, <1>3
<1> QED BY <1>3, <1>4, <1>5

-----------------------------------------------------------------------------
(* What ParseHttpPkg sees of a buffer *)

LEMMA ReadAheadIsPrefix ==
  ASSUME NEW q \in Bytes
  PROVE  /\ ReadAhead(q) \in Bytes
         /\ Len(ReadAhead(q)) = IF Len(q) > READ_BUF THEN READ_BUF ELSE Len(q)
         /\ \A i \in 1 .. Len(ReadAhead(q)) : ReadAhead(q)[i] = q[i]
         /\ Len(ReadAhead(q)) \in 0 .. Len(q) /\ Len(q) \in Nat
<1> DEFINE m == IF Len(q) > READ_BUF THEN READ_BUF ELSE Len(q)
<1>1. m \in Nat /\ m <= Len(q) /\ Len(q) \in Nat
  BY LenProperties, ReadBufAssumption DEF Bytes
<1>2. ReadAhead(q) = SubSeq(q, 1, m)
  BY DEF ReadAhead
<1> HIDE DEF m
<1>3. /\ SubSeq(q, 1, m) \in Bytes /\ Len(SubSeq(q, 1, m)) = m
      /\ \A i \in 1 .. m : SubSeq(q, 1, m)[i] = q[i]
  BY <1>1, CutBytes DEF Bytes
<1> QED BY <1>1, <1>2, <1>3 DEF m

\* RemainPos is the first blank line, or one behind the data.
LEMMA RemainPosIsFirst ==
  ASSUME NEW data \in Bytes
  PROVE  /\ RemainPos(data) \in 1 .. Len(data) + 1
         /\ RemainPos(data) <= Len(data) => data[RemainPos(data)].kind = "blank"
         /\ \A i \in 1 .. Len(data) : i < RemainPos(data) => data[i].kind # "blank"
<1> DEFINE blank == {i \in 1 .. Len(data) : data[i].kind = "blank"}
<1>1. Len(data) \in Nat /\ blank \subseteq 1 .. Len(data)
  BY LenProperties DEF Bytes
<1>2. RemainPos(data) = IF blank = {} THEN Len(data) + 1 ELSE Min(blank)
  BY DEF RemainPos
<1>3. blank # {} => Min(blank) \in blank /\ \A y \in blank : Min(blank) <= y
  BY <1>1, MinOfPositions
<1>4. CASE blank = {}
  BY <1>1, <1>2, <1>4
<1>5. CASE blank # {}
  <2>1. RemainPos(data) \in blank /\ \A y \in blank : RemainPos(data) <= y
    BY <1>2, <1>3, <1>5
  <2> HIDE <1>2, <1>3
  <2>2. RemainPos(data) \in 1 .. Len(data) /\ data[RemainPos(data)].kind = "blank"
    BY <2>1
  <2>3. \A i \in 1 .. Len(data) : i < RemainPos(data) => i \notin blank
    BY <1>1, <2>1, <2>2
  <2> QED BY <1>1, <2>2, <2>3
<1> QED BY <1>4, <1>5

\* The first blank line is where it is.
LEMMA RemainPosUnique ==
  ASSUME NEW data \in Bytes, NEW r \in 1 .. Len(data) + 1,
         r <= Len(data) => data[r].kind = "blank",
         \A i \in 1 .. Len(data) : i < r => data[i].kind # "blank"
  PROVE  RemainPos(data) = r
<1>1. Len(data) \in Nat
  BY LenProperties DEF Bytes
<1>2. /\ RemainPos(data) \in 1 .. Len(data) + 1
      /\ RemainPos(data) <= Len(data) => data[RemainPos(data)].kind = "blank"
      /\ \A i \in 1 .. Len(data) : i < RemainPos(data) => data[i].kind # "blank"
  BY RemainPosIsFirst
<1>3. ~(RemainPos(data) < r)
  BY <1>1, <1>2
<1>4. ~(r < RemainPos(data))
  BY <1>1, <1>2
<1> QED BY <1>1, <1>2, <1>3, <1>4

\* A message that ParseHttpPkg takes has a length.
LEMMA MsgLengthType ==
  ASSUME NEW q \in Bytes, LengthLines(ReadAhead(q)) # {}
  PROVE  MsgLength(q) \in Nat
<1> DEFINE R == ReadAhead(q)
<1>1. R \in Bytes /\ Len(R) \in Nat
  BY ReadAheadIsPrefix, LenProperties DEF Bytes
<1> HIDE DEF R
<1>2. LengthLines(R) \subseteq 1 .. Len(R) /\ LengthLines(R) # {}
  BY DEF LengthLines, R
<1>3. Max(LengthLines(R)) \in 1 .. Len(R)
  BY <1>1, <1>2, MaxOfPositions
<1>4. R[Max(LengthLines(R))] \in Symbol
  BY <1>1, <1>3, ElementOfSeq DEF Bytes
<1>5. ContentLength(R) \in Nat
  BY <1>4 DEF ContentLength, Symbol
<1>6. RemainPos(R) \in Nat
  BY <1>1, RemainPosIsFirst
<1> QED BY <1>5, <1>6 DEF MsgLength, R

\* Complete headers without Content-Length stay what they are, however many
\* bytes come after them.
Stuck(q) ==
  /\ RemainPos(ReadAhead(q)) <= Len(ReadAhead(q))
  /\ LengthLines(ReadAhead(q)) = {}

LEMMA StuckForGood ==
  ASSUME NEW q \in Bytes, NEW data \in Bytes, Stuck(q)
  PROVE  Stuck(q \o data) /\ ~Parses(q \o data) /\ q \o data \in Bytes
<1> DEFINE all == q \o data
           R == ReadAhead(q)
           A == ReadAhead(all)
           r == RemainPos(R)
<1>1. /\ all \in Bytes /\ Len(all) = Len(q) + Len(data)
      /\ (\A i \in 1 .. Len(q) : all[i] = q[i]) /\ Len(q) \in Nat /\ Len(data) \in Nat
  <2>1. Len(q) \in Nat /\ Len(data) \in Nat
    BY LenProperties DEF Bytes
  <2>2. /\ all \in Bytes /\ Len(all) = Len(q) + Len(data)
        /\ \A i \in 1 .. Len(q) + Len(data) : all[i] = IF i <= Len(q) THEN q[i] ELSE data[i - Len(q)]
    BY ConcatProperties DEF Bytes
  <2> QED BY <2>1, <2>2
<1> HIDE DEF all
<1>2. /\ R \in Bytes /\ (\A i \in 1 .. Len(R) : R[i] = q[i]) /\ Len(R) \in 0 .. Len(q)
      /\ Len(R) = IF Len(q) > READ_BUF THEN READ_BUF ELSE Len(q)
  BY ReadAheadIsPrefix
<1>3. /\ A \in Bytes /\ (\A i \in 1 .. Len(A) : A[i] = all[i]) /\ Len(A) \in Nat
      /\ Len(A) = IF Len(all) > READ_BUF THEN READ_BUF ELSE Len(all)
  BY <1>1, ReadAheadIsPrefix
<1>4. Len(R) <= Len(A) /\ \A i \in 1 .. Len(R) : A[i] = R[i]
  <2>1. Len(R) <= Len(A)
    BY <1>1, <1>2, <1>3, ReadBufAssumption
  <2> QED BY <1>1, <1>2, <1>3, <2>1
<1>5. /\ r \in 1 .. Len(R) /\ R[r].kind = "blank" /\ LengthLines(R) = {}
      /\ \A i \in 1 .. Len(R) : i < r => R[i].kind # "blank"
  BY <1>2, RemainPosIsFirst DEF Stuck
<1> HIDE DEF R, A, r
<1>6. RemainPos(A) = r
  <2>1. r \in 1 .. Len(A) + 1 /\ A[r].kind = "blank"
    BY <1>2, <1>3, <1>4, <1>5
  <2>2. \A i \in 1 .. Len(A) : i < r => A[i].kind # "blank"
    BY <1>2, <1>3, <1>4, <1>5
  <2> QED BY <1>3, <2>1, <2>2, RemainPosUnique
<1>7. LengthLines(A) = {}
  <2>1. \A i \in 1 .. Len(R) : i < r => R[i].kind # "length"
    BY <1>5 DEF LengthLines, r
  <2>2. \A i \in 1 .. Len(A) : i < r => i \in 1 .. Len(R) /\ A[i] = R[i]
    BY <1>2, <1>3, <1>4, <1>5
  <2> QED BY <1>6, <2>1, <2>2 DEF LengthLines
<1>8. Stuck(all)
  BY <1>2, <1>3, <1>4, <1>5, <1>6, <1>7 DEF Stuck, A
<1>9. ~Parses(all)
  BY <1>7 DEF Parses, A
<1> QED BY <1>1, <1>8, <1>9 DEF all

-----------------------------------------------------------------------------
(* What a captured frame does to the streams *)

\* A stream is its client and its direction.
LEMMA StreamPair ==
  ASSUME NEW s \in Stream
  PROVE  /\ s = <<s[1], s[2]>> /\ s[1] \in Client /\ s[2] \in Direction
         /\ \A t \in Stream : t # s => ~(t[1] = s[1] /\ t[2] = s[2])
<1>1. \A t \in Stream : t \in Client \X Direction
  BY StreamAssumption
<1>2. \A t \in Stream : t = <<t[1], t[2]>> /\ t[1] \in Client /\ t[2] \in Direction
  BY <1>1
<1> QED BY <1>2

LEMMA StoreBuffered ==
  ASSUME NEW c, NEW d \in Direction, NEW q, m_sessions' = Store(c, d, q)
  PROVE  /\ Buffered(c, d)' = q
         /\ \A x : \A e \in Direction : ~(x = c /\ e = d) => Buffered(x, e)' = Buffered(x, e)
         /\ \A x \in DOMAIN m_sessions' : \A e \in Direction : m_sessions'[x][e] = Buffered(x, e)'
<1>1. DOMAIN m_sessions' = DOMAIN m_sessions \cup {c}
  BY DEF Store
<1>2. /\ m_sessions'[c] = [e \in Direction |-> IF e = d THEN q ELSE Buffered(c, e)]
      /\ \A x \in DOMAIN m_sessions : x # c => m_sessions'[x] = m_sessions[x]
  BY DEF Store
<1>3. \A x, e : Buffered(x, e)' = IF x \in DOMAIN m_sessions' THEN m_sessions'[x][e] ELSE <<>>
  BY DEF Buffered
<1>4. Buffered(c, d)' = q
  BY <1>1, <1>2, <1>3
<1>5. ASSUME NEW x, NEW e \in Direction, ~(x = c /\ e = d)
      PROVE  Buffered(x, e)' = Buffered(x, e)
  <2>1. CASE x = c
    BY <1>1, <1>2, <1>3, <1>5, <2>1
  <2>2. CASE x # c
    BY <1>1, <1>2, <1>3, <2>2 DEF Buffered
  <2> QED BY <2>1, <2>2
<1> QED BY <1>3, <1>4, <1>5

\* InputTcpPkg, seen from the stream that the data belongs to.
TakesAs(s, q, data, all, h) ==
  \/ /\ Dropped(q, h) \/ Refused(q, data, h)
     /\ Held(s)' = q /\ printed'[s] = printed[s] /\ running' = running
  \/ /\ ~Dropped(q, h) /\ ~Refused(q, data, h) /\ ~Parses(all)
     /\ Held(s)' = all /\ printed'[s] = printed[s] /\ running' = running
  \/ /\ ~Dropped(q, h) /\ ~Refused(q, data, h) /\ Parses(all)
     /\ Held(s)' = SubSeq(all, MsgLength(all) + 1, Len(all))
     /\ printed'[s] = Append(printed[s], SubSeq(all, 1, MsgLength(all)))
     /\ running' \in BOOLEAN /\ (running' = running \/ Overruns(MsgLength(all)))
Takes(s, data, h) == TakesAs(s, Held(s), data, Held(s) \o data, h)

\* The sessions keep their form, and the other streams their bytes.
Elsewhere(s) ==
  /\ \E p : printed' = [printed EXCEPT ![s] = p]
  /\ \A t \in Stream \ {s} : Held(t)' = Held(t) /\ printed'[t] = printed[t]

LEMMA SegmentInput ==
  ASSUME ParseType, NEW s \in Stream, NEW n \in 1 .. Len(wire[s]), NEW h, InputPkg(Segment(s, n), h)
  PROVE  /\ running /\ m_inited' = m_inited
         /\ \/ /\ ~m_inited
               /\ m_sessions' = m_sessions /\ running' = running /\ printed' = printed
            \/ /\ m_inited /\ Takes(s, SubSeq(wire[s], 1, n), h) /\ Elsewhere(s)
               /\ \E q : m_sessions' = Store(s[1], s[2], q)
<1> DEFINE f == Segment(s, n)
           data == SubSeq(wire[s], 1, n)
<1>1. /\ s = <<s[1], s[2]>> /\ s[1] \in Client /\ s[2] \in Direction
      /\ \A t \in Stream : t # s => ~(t[1] = s[1] /\ t[2] = s[2])
  BY StreamPair
<1>2. s[1] # ServerAddr
  BY <1>1, AddrAssumption
<1>3. /\ f.type \in {"ipv4", "vlan_ipv4"} /\ f.proto = "tcp" /\ f.data = data
      /\ f.src = (IF s[2] = "input" THEN s[1] ELSE ServerAddr)
      /\ f.dst = (IF s[2] = "input" THEN ServerAddr ELSE s[1])
  BY DEF Segment, Frame
<1>4. f.len = n /\ n > 0 /\ ~(n < 0) /\ n # 0
  <2>1. wire[s] \in Bytes
    BY HeldType
  <2>2. n \in Nat /\ n >= 1
    BY <2>1, LenProperties DEF Bytes
  <2> QED BY <2>2 DEF Segment, Frame
<1> HIDE DEF f, data
<1>5. ClientAddr(f) = s[1] /\ DirectionOf(f) = s[2] /\ (FromServer(f) \/ ToServer(f))
  BY <1>1, <1>2, <1>3 DEF ClientAddr, DirectionOf, FromServer, ToServer, Direction
<1>6. Accepted(f) <=> m_inited
  BY <1>3, <1>4, <1>5 DEF Accepted, Supported
<1>7. running /\ m_inited' = m_inited
  BY DEF InputPkg, f
<1>8. CASE ~m_inited
  BY <1>6, <1>7, <1>8 DEF InputPkg, f
<1>9. CASE m_inited
  <2>1. InputTcpPkg(s[1], s[2], data, h)
    BY <1>3, <1>4, <1>5, <1>6, <1>9 DEF InputPkg, f
  <2> DEFINE q == Held(s)
             all == q \o data
             m == MsgLength(all)
  <2> SUFFICES TakesAs(s, q, data, all, h) /\ Elsewhere(s) /\ \E x : m_sessions' = Store(s[1], s[2], x)
    BY <1>7, <1>9 DEF data, Takes
  <2>2. q = Buffered(s[1], s[2])
    BY DEF Held
  <2>3. DOMAIN printed = Stream
    BY DEF ParseType
  <2>4. ASSUME NEW x, m_sessions' = Store(s[1], s[2], x)
        PROVE  Held(s)' = x /\ \A t \in Stream \ {s} : Held(t)' = Held(t)
    <3>1. /\ Buffered(s[1], s[2])' = x
          /\ \A y : \A e \in Direction : ~(y = s[1] /\ e = s[2]) => Buffered(y, e)' = Buffered(y, e)
      BY <1>1, <2>4, StoreBuffered
    <3>2. \A t \in Stream : t[2] \in Direction
      BY StreamPair
    <3> QED BY <1>1, <3>1, <3>2 DEF Held
  <2>5. CASE /\ Dropped(q, h) \/ Refused(q, data, h)
             /\ m_sessions' = Store(s[1], s[2], q)
             /\ UNCHANGED <<running, printed>>
    <3>1. Held(s)' = q /\ \A t \in Stream \ {s} : Held(t)' = Held(t)
      BY <2>4, <2>5
    <3>2. printed' = printed /\ running' = running
      BY <2>5
    <3> HIDE DEF q, all
    <3>3. TakesAs(s, q, data, all, h)
      BY <2>5, <3>1, <3>2 DEF TakesAs
    <3>4. printed' = [printed EXCEPT ![s] = printed[s]]
      BY <3>2 DEF ParseType
    <3> QED BY <2>5, <3>1, <3>2, <3>3, <3>4 DEF Elsewhere
  <2>6. CASE /\ ~Dropped(q, h) /\ ~Refused(q, data, h)
             /\ ~Parses(all)
             /\ m_sessions' = Store(s[1], s[2], all)
             /\ UNCHANGED <<running, printed>>
    <3>1. Held(s)' = all /\ \A t \in Stream \ {s} : Held(t)' = Held(t)
      BY <2>4, <2>6
    <3>2. printed' = printed /\ running' = running
      BY <2>6
    <3> HIDE DEF q, all
    <3>3. TakesAs(s, q, data, all, h)
      BY <2>6, <3>1, <3>2 DEF TakesAs
    <3>4. printed' = [printed EXCEPT ![s] = printed[s]]
      BY <3>2 DEF ParseType
    <3> QED BY <2>6, <3>1, <3>2, <3>3, <3>4 DEF Elsewhere
  <2>7. CASE /\ ~Dropped(q, h) /\ ~Refused(q, data, h)
             /\ Parses(all)
             /\ m_sessions' = Store(s[1], s[2], SubSeq(all, m + 1, Len(all)))
             /\ printed' = [printed EXCEPT ![<<s[1], s[2]>>] = Append(@, SubSeq(all, 1, m))]
             /\ IF Overruns(m) THEN running' \in BOOLEAN ELSE UNCHANGED running
    <3>1. /\ printed'[s] = Append(printed[s], SubSeq(all, 1, m))
          /\ \E p : printed' = [printed EXCEPT ![s] = p]
          /\ \A t \in Stream \ {s} : printed'[t] = printed[t]
      BY <1>1, <2>3, <2>7
    <3>2. running' \in BOOLEAN /\ (running' = running \/ Overruns(m))
      BY <2>7 DEF ParseType
    <3>3. /\ Held(s)' = SubSeq(all, m + 1, Len(all))
          /\ \A t \in Stream \ {s} : Held(t)' = Held(t)
      BY <2>4, <2>7
    <3>4. Elsewhere(s)
      BY <3>1, <3>3 DEF Elsewhere
    <3>6. \E x : m_sessions' = Store(s[1], s[2], x)
      BY <2>7
    <3> HIDE DEF q, all
    <3>5. TakesAs(s, q, data, all, h)
      BY <2>7, <3>1, <3>2, <3>3 DEF TakesAs
    <3> QED BY <3>4, <3>5, <3>6
  <2>8. \/ /\ Dropped(q, h) \/ Refused(q, data, h)
           /\ m_sessions' = Store(s[1], s[2], q)
           /\ UNCHANGED <<running, printed>>
        \/ /\ ~Dropped(q, h) /\ ~Refused(q, data, h)
           /\ ~Parses(all)
           /\ m_sessions' = Store(s[1], s[2], all)
           /\ UNCHANGED <<running, printed>>
        \/ /\ ~Dropped(q, h) /\ ~Refused(q, data, h)
           /\ Parses(all)
           /\ m_sessions' = Store(s[1], s[2], SubSeq(all, m + 1, Len(all)))
           /\ printed' = [printed EXCEPT ![<<s[1], s[2]>>] = Append(@, SubSeq(all, 1, m))]
           /\ IF Overruns(m) THEN running' \in BOOLEAN ELSE UNCHANGED running
    BY <2>1, <2>2 DEF InputTcpPkg
  <2> QED BY <2>5, <2>6, <2>7, <2>8
<1> QED BY <1>8, <1>9

\* A frame of negative length does not reach a buffer.
LEMMA NegativeInput ==
  ASSUME ParseType, NEW s \in Stream, NEW h, InputPkg(NegativeSegment(s), h)
  PROVE  /\ m_inited' = m_inited /\ printed' = printed /\ running' \in BOOLEAN
         /\ \A t \in Stream : Held(t)' = Held(t)
         /\ \A c \in DOMAIN m_sessions' : \A d \in Direction : m_sessions'[c][d] \in Bytes
<1> DEFINE f == NegativeSegment(s)
           c == ClientAddr(f)
           d == DirectionOf(f)
<1>1. f.len = -1 /\ ~(-1 > 0)
  BY DEF NegativeSegment, Frame
<1>2. d \in Direction
  BY DEF DirectionOf, Direction
<1> HIDE DEF f, c, d
<1>3. \/ InputNegative(c, d, h) \/ UNCHANGED <<m_sessions, running, printed>>
  BY <1>1 DEF InputPkg, f, c, d
<1>4. m_inited' = m_inited
  BY DEF InputPkg
<1>5. CASE UNCHANGED <<m_sessions, running, printed>>
  BY <1>4, <1>5 DEF ParseType, Held, Buffered
<1>6. CASE InputNegative(c, d, h)
  <2>1. printed' = printed /\ running' \in BOOLEAN
    <3>1. running' = Dropped(Buffered(c, d), h) /\ printed' = printed
      BY <1>6 DEF InputNegative
    <3> QED BY <3>1 DEF Dropped
  <2>2. m_sessions' = Store(c, d, Buffered(c, d))
    BY <1>6 DEF InputNegative
  <2>3. /\ Buffered(c, d)' = Buffered(c, d)
        /\ \A x : \A e \in Direction : ~(x = c /\ e = d) => Buffered(x, e)' = Buffered(x, e)
        /\ \A x \in DOMAIN m_sessions' : \A e \in Direction : m_sessions'[x][e] = Buffered(x, e)'
    BY <1>2, <2>2, StoreBuffered
  <2>4. \A x : \A e \in Direction : Buffered(x, e)' = Buffered(x, e)
    BY <2>3
  <2>5. \A x : \A e \in Direction : Buffered(x, e) \in Bytes
    BY EmptySeq DEF Buffered, ParseType, Bytes
  <2>6. \A t \in Stream : Held(t)' = Held(t)
    BY <2>4, StreamPair DEF Held
  <2> QED BY <1>4, <2>1, <2>3, <2>4, <2>5, <2>6
<1> QED BY <1>3, <1>5, <1>6

\* The other frames change nothing.
LEMMA OtherInput ==
  ASSUME CaptureOther
  PROVE  UNCHANGED <<m_inited, m_sessions, running, printed, trafficVars>>
<1>1. PICK f \in OtherFrames, h \in BOOLEAN : InputPkg(f, h) /\ UNCHANGED trafficVars
  BY DEF CaptureOther, IsHttpHeader
<1>2. ~Accepted(f)
  <2>1. ForeignAddr # ServerAddr
    BY AddrAssumption
  <2>2. \/ f.type \in {"other", "vlan_other"} \/ f.proto = "other"
        \/ f.len = 0 \/ (f.src = ForeignAddr /\ f.dst = ForeignAddr)
    BY <1>1 DEF OtherFrames
  <2> QED BY <2>1, <2>2 DEF Accepted, Supported, FromServer, ToServer
<1> QED BY <1>1, <1>2 DEF InputPkg

-----------------------------------------------------------------------------
(* The messages that are sent *)

LEMMA SymbolTypes ==
  /\ BlankLine \in Symbol /\ BlankLine.kind = "blank" /\ BodyByte \in Symbol /\ BodyByte.kind = "body"
  /\ Word \in Symbol /\ Word.kind = "word" /\ Text \in Symbol /\ Text.kind = "text"
  /\ \A i \in Nat : Start(i) \in Symbol /\ Start(i).kind = "start"
  /\ \A k \in Nat : Length(k) \in Symbol /\ Length(k).kind = "length" /\ Length(k).n = k
BY DEF Symbol, BlankLine, BodyByte, Word, Text, Start, Length

LEMMA RepeatShape ==
  ASSUME NEW x \in Symbol, NEW n \in Nat
  PROVE  Repeat(x, n) \in Bytes /\ Len(Repeat(x, n)) = n /\ \A j \in 1 .. n : Repeat(x, n)[j] = x
<1> DEFINE b == Repeat(x, n)
<1>1. b \in [1 .. n -> Symbol] /\ \A j \in 1 .. n : b[j] = x
  BY DEF Repeat
<1>2. b \in Bytes
  BY <1>1, SeqDef DEF Bytes
<1>3. DOMAIN b = 1 .. n /\ DOMAIN b = 1 .. Len(b) /\ Len(b) \in Nat
  BY <1>1, <1>2, LenProperties DEF Bytes
<1> HIDE DEF b
<1>4. Len(b) = n
  BY <1>3
<1> QED BY <1>1, <1>2, <1>4 DEF b

\* One sequence behind another: a is s, of length m, and t, of length n.
Behind(a, s, t, m, n) ==
  /\ a \in Bytes /\ Len(a) = m + n /\ m \in Nat /\ n \in Nat
  /\ \A j \in 1 .. m : a[j] = s[j]
  /\ \A j \in 1 .. n : a[m + j] = t[j]

LEMMA Joined ==
  ASSUME NEW s \in Bytes, NEW t \in Bytes
  PROVE  Behind(s \o t, s, t, Len(s), Len(t))
<1> DEFINE a == s \o t
           m == Len(s)
           n == Len(t)
<1>1. m \in Nat /\ n \in Nat
  BY LenProperties DEF Bytes
<1>2. /\ a \in Bytes /\ Len(a) = m + n
      /\ \A j \in 1 .. m + n : a[j] = IF j <= m THEN s[j] ELSE t[j - m]
  BY ConcatProperties DEF Bytes
<1> HIDE DEF a, m, n
<1>3. ASSUME NEW j \in 1 .. m PROVE a[j] = s[j]
  <2>1. j \in 1 .. m + n /\ j <= m
    BY <1>1
  <2> QED BY <1>2, <2>1
<1>4. ASSUME NEW j \in 1 .. n PROVE a[m + j] = t[j]
  <2>1. m + j \in 1 .. m + n /\ ~(m + j <= m) /\ (m + j) - m = j
    BY <1>1
  <2> QED BY <1>2, <2>1
<1>5. Behind(a, s, t, m, n)
  BY <1>1, <1>2, <1>3, <1>4 DEF Behind
<1> QED BY <1>5 DEF a, m, n

(***************************************************************************)
(* m begins with the first line of message i, its Content-Length line of k *)
(* ends at p and its header at r, where the k bytes of the body begin.     *)
(***************************************************************************)
Shaped(m, i, p, r, k) ==
  /\ m \in Bytes /\ p \in Nat /\ r \in Nat /\ k \in Nat /\ 3 <= p /\ p < r /\ Len(m) = r + k
  /\ m[1] = Start(i) /\ m[p] = Length(k) /\ m[r] = BlankLine
  /\ \A j \in 2 .. Len(m) : m[j].kind # "start"
  /\ \A j \in 1 .. r - 1 : m[j].kind # "blank"
  /\ \A j \in 1 .. r : m[j].kind = "length" => j = p

LEMMA MessageShape ==
  ASSUME NEW i \in Nat, NEW b \in Nat, NEW a \in Nat, NEW k \in Nat
  PROVE  Shaped(Message(i, <<b, a, k>>), i, 3 + b, 4 + b + a, k)
<1> DEFINE m1 == <<Start(i), Word>>
           m2 == m1 \o Repeat(Text, b)
           m3 == m2 \o <<Length(k)>>
           m4 == m3 \o Repeat(Text, a)
           m5 == m4 \o <<BlankLine>>
           m6 == m5 \o Repeat(BodyByte, k)
           p == 3 + b
           r == 4 + b + a
<1>1. m1 \in Bytes /\ Len(m1) = 2 /\ m1[1] = Start(i) /\ m1[2] = Word
  BY SymbolTypes DEF Bytes
<1>2. /\ <<Length(k)>> \in Bytes /\ Len(<<Length(k)>>) = 1 /\ <<Length(k)>>[1] = Length(k)
      /\ <<BlankLine>> \in Bytes /\ Len(<<BlankLine>>) = 1 /\ <<BlankLine>>[1] = BlankLine
  BY SymbolTypes DEF Bytes
<1>3. /\ Repeat(Text, b) \in Bytes /\ Len(Repeat(Text, b)) = b /\ \A j \in 1 .. b : Repeat(Text, b)[j] = Text
      /\ Repeat(Text, a) \in Bytes /\ Len(Repeat(Text, a)) = a /\ \A j \in 1 .. a : Repeat(Text, a)[j] = Text
      /\ Repeat(BodyByte, k) \in Bytes /\ Len(Repeat(BodyByte, k)) = k
      /\ \A j \in 1 .. k : Repeat(BodyByte, k)[j] = BodyByte
  BY SymbolTypes, RepeatShape
<1>4. Message(i, <<b, a, k>>) = m6
  BY DEF Message
<1> HIDE DEF m1, m2, m3, m4, m5, m6
<1>5. /\ m2 \in Bytes /\ Len(m2) = 2 + b /\ m2[1] = Start(i)
      /\ \A j \in 2 .. 2 + b : m2[j] \in {Word, Text}
  <2>1. /\ m2 \in Bytes /\ Len(m2) = 2 + b
        /\ \A j \in 1 .. 2 : m2[j] = m1[j]
        /\ \A j \in 1 .. b : m2[2 + j] = Repeat(Text, b)[j]
    <3>1. Behind(m2, m1, Repeat(Text, b), Len(m1), Len(Repeat(Text, b)))
      BY <1>1, <1>3, Joined DEF m2
    <3>2. Behind(m2, m1, Repeat(Text, b), 2, b)
      BY <1>1, <1>3, <3>1
    <3> QED BY <3>2 DEF Behind
  <2>2. \A j \in 1 .. b : m2[2 + j] = Text
    BY <1>3, <2>1
  <2>3. ASSUME NEW j \in 2 .. 2 + b PROVE m2[j] \in {Word, Text}
    <3>1. j = 2 \/ (j - 2 \in 1 .. b /\ 2 + (j - 2) = j)
      OBVIOUS
    <3>2. 2 \in 1 .. 2
      OBVIOUS
    <3> QED BY <1>1, <2>1, <2>2, <3>1, <3>2
  <2>4. 1 \in 1 .. 2
    OBVIOUS
  <2> QED BY <1>1, <2>1, <2>3, <2>4
<1>6. /\ m3 \in Bytes /\ Len(m3) = 3 + b /\ m3[1] = Start(i) /\ m3[3 + b] = Length(k)
      /\ \A j \in 2 .. 2 + b : m3[j] \in {Word, Text}
  <2>1. /\ m3 \in Bytes /\ Len(m3) = (2 + b) + 1
        /\ \A j \in 1 .. 2 + b : m3[j] = m2[j]
        /\ \A j \in 1 .. 1 : m3[(2 + b) + j] = <<Length(k)>>[j]
    <3>1. Behind(m3, m2, <<Length(k)>>, Len(m2), Len(<<Length(k)>>))
      BY <1>2, <1>5, Joined DEF m3
    <3>2. Behind(m3, m2, <<Length(k)>>, 2 + b, 1)
      BY <1>2, <1>5, <3>1
    <3> QED BY <3>2 DEF Behind
  <2>2. 1 \in 1 .. 2 + b /\ 1 \in 1 .. 1 /\ (2 + b) + 1 = 3 + b /\ \A j \in 2 .. 2 + b : j \in 1 .. 2 + b
    OBVIOUS
  <2> QED BY <1>2, <1>5, <2>1, <2>2
<1>7. /\ m4 \in Bytes /\ Len(m4) = 3 + b + a /\ m4[1] = Start(i) /\ m4[3 + b] = Length(k)
      /\ \A j \in 2 .. 2 + b : m4[j] \in {Word, Text}
      /\ \A j \in 4 + b .. 3 + b + a : m4[j] = Text
  <2>1. /\ m4 \in Bytes /\ Len(m4) = (3 + b) + a
        /\ \A j \in 1 .. 3 + b : m4[j] = m3[j]
        /\ \A j \in 1 .. a : m4[(3 + b) + j] = Repeat(Text, a)[j]
    <3>1. Behind(m4, m3, Repeat(Text, a), Len(m3), Len(Repeat(Text, a)))
      BY <1>3, <1>6, Joined DEF m4
    <3>2. Behind(m4, m3, Repeat(Text, a), 3 + b, a)
      BY <1>3, <1>6, <3>1
    <3> QED BY <3>2 DEF Behind
  <2>2. /\ 1 \in 1 .. 3 + b /\ 3 + b \in 1 .. 3 + b /\ \A j \in 2 .. 2 + b : j \in 1 .. 3 + b
        /\ \A j \in 4 + b .. 3 + b + a : j - (3 + b) \in 1 .. a /\ (3 + b) + (j - (3 + b)) = j
    OBVIOUS
  <2>3. \A j \in 4 + b .. 3 + b + a : m4[j] = Text
    <3>1. \A j \in 1 .. a : m4[(3 + b) + j] = Text
      BY <1>3, <2>1
    <3> QED BY <2>2, <3>1
  <2> QED BY <1>6, <2>1, <2>2, <2>3
<1>8. /\ m5 \in Bytes /\ Len(m5) = r /\ m5[1] = Start(i) /\ m5[p] = Length(k) /\ m5[r] = BlankLine
      /\ \A j \in 2 .. 2 + b : m5[j] \in {Word, Text}
      /\ \A j \in 4 + b .. 3 + b + a : m5[j] = Text
  <2>1. /\ m5 \in Bytes /\ Len(m5) = (3 + b + a) + 1
        /\ \A j \in 1 .. 3 + b + a : m5[j] = m4[j]
        /\ \A j \in 1 .. 1 : m5[(3 + b + a) + j] = <<BlankLine>>[j]
    <3>1. Behind(m5, m4, <<BlankLine>>, Len(m4), Len(<<BlankLine>>))
      BY <1>2, <1>7, Joined DEF m5
    <3>2. Behind(m5, m4, <<BlankLine>>, 3 + b + a, 1)
      BY <1>2, <1>7, <3>1
    <3> QED BY <3>2 DEF Behind
  <2>2. /\ 1 \in 1 .. 3 + b + a /\ 3 + b \in 1 .. 3 + b + a /\ 1 \in 1 .. 1 /\ (3 + b + a) + 1 = r
        /\ \A j \in 2 .. 2 + b : j \in 1 .. 3 + b + a
        /\ \A j \in 4 + b .. 3 + b + a : j \in 1 .. 3 + b + a
    OBVIOUS
  <2> QED BY <1>2, <1>7, <2>1, <2>2
<1> DEFINE l == 3 + b + a
<1>9. l \in Nat /\ p \in Nat /\ r \in Nat /\ 3 <= p /\ p < r /\ r = l + 1 /\ p = 3 + b
  OBVIOUS
<1>10. /\ m6 \in Bytes /\ Len(m6) = r + k /\ m6[1] = Start(i) /\ m6[p] = Length(k) /\ m6[r] = BlankLine
       /\ \A j \in 2 .. p - 1 : m6[j] \in {Word, Text}
       /\ \A j \in p + 1 .. r - 1 : m6[j] = Text
       /\ \A j \in r + 1 .. r + k : m6[j] = BodyByte
  <2>0. /\ p - 1 = 2 + b /\ p + 1 = 4 + b /\ r - 1 = 3 + b + a
        /\ \A j \in 2 .. p - 1 : m5[j] \in {Word, Text}
        /\ \A j \in p + 1 .. r - 1 : m5[j] = Text
    <3>1. p - 1 = 2 + b /\ p + 1 = 4 + b /\ r - 1 = 3 + b + a
      OBVIOUS
    <3> HIDE DEF p, r
    <3> QED BY <1>8, <3>1
  <2> HIDE DEF p, r, l
  <2>1. /\ m6 \in Bytes /\ Len(m6) = r + k
        /\ \A j \in 1 .. r : m6[j] = m5[j]
        /\ \A j \in 1 .. k : m6[r + j] = Repeat(BodyByte, k)[j]
    <3>1. Behind(m6, m5, Repeat(BodyByte, k), Len(m5), Len(Repeat(BodyByte, k)))
      BY <1>3, <1>8, Joined DEF m6
    <3>2. Behind(m6, m5, Repeat(BodyByte, k), r, k)
      BY <1>3, <1>8, <3>1
    <3> QED BY <3>2 DEF Behind
  <2>2. /\ 1 \in 1 .. r /\ p \in 1 .. r /\ r \in 1 .. r
        /\ \A j \in 2 .. p - 1 : j \in 1 .. r
        /\ \A j \in p + 1 .. r - 1 : j \in 1 .. r
        /\ \A j \in r + 1 .. r + k : j - r \in 1 .. k /\ r + (j - r) = j
    BY <1>9
  <2>3. \A j \in r + 1 .. r + k : m6[j] = BodyByte
    <3>1. \A j \in 1 .. k : m6[r + j] = BodyByte
      BY <1>3, <2>1
    <3> QED BY <2>2, <3>1
  <2> QED BY <1>8, <2>0, <2>1, <2>2, <2>3
<1> HIDE DEF p, r, l
<1>11. \A j \in 1 .. r + k : \/ j = 1 \/ j = p \/ j = r \/ j \in 2 .. p - 1 \/ j \in p + 1 .. r - 1
                             \/ j \in r + 1 .. r + k
  BY <1>9
<1>12. \A j \in 2 .. Len(m6) : m6[j].kind # "start"
  <2>1. \A j \in 2 .. r + k : j \in 1 .. r + k /\ j # 1
    OBVIOUS
  <2> QED BY <1>10, <1>11, <2>1, SymbolTypes
<1>13. \A j \in 1 .. r - 1 : m6[j].kind # "blank"
  <2>1. \A j \in 1 .. r - 1 : j = 1 \/ j = p \/ j \in 2 .. p - 1 \/ j \in p + 1 .. r - 1
    BY <1>9
  <2> QED BY <1>10, <2>1, SymbolTypes
<1>14. \A j \in 1 .. r : m6[j].kind = "length" => j = p
  <2>1. \A j \in 1 .. r : j = 1 \/ j = p \/ j = r \/ j \in 2 .. p - 1 \/ j \in p + 1 .. r - 1
    BY <1>9
  <2> QED BY <1>10, <2>1, SymbolTypes
<1>15. Shaped(m6, i, p, r, k)
  BY <1>9, <1>10, <1>12, <1>13, <1>14 DEF Shaped
<1> QED BY <1>4, <1>15 DEF p, r

LEMMA BareShape ==
  ASSUME NEW i \in Nat
  PROVE  /\ BareMessage(i) \in Bytes /\ Len(BareMessage(i)) = 3
         /\ BareMessage(i)[1] = Start(i) /\ BareMessage(i)[2] = Word /\ BareMessage(i)[3] = BlankLine
BY SymbolTypes DEF Bytes, BareMessage

\* The messages that may be sent as the i-th.
MessageAt(i) == {Message(i, x) : x \in Shapes} \cup (IF Bare THEN {BareMessage(i)} ELSE {})

\* They have one of the two forms.
LEMMA MessageForms ==
  ASSUME NEW i \in Nat, NEW m \in MessageAt(i)
  PROVE  (Bare /\ m = BareMessage(i)) \/ \E p, r, k : Shaped(m, i, p, r, k)
<1>1. ASSUME NEW x \in Shapes, m = Message(i, x)
      PROVE  \E p, r, k : Shaped(m, i, p, r, k)
  <2>1. PICK b \in Nat, a \in Nat, k \in Nat : x = <<b, a, k>>
    BY TrafficAssumption
  <2> QED BY <1>1, <2>1, MessageShape
<1> QED BY <1>1 DEF MessageAt

LEMMA MessageAtType ==
  ASSUME NEW i \in Nat, NEW m \in MessageAt(i)
  PROVE  /\ m \in Bytes /\ Len(m) \in Nat /\ Len(m) >= 2 /\ m[1].kind = "start"
         /\ \A j \in 2 .. Len(m) : m[j].kind # "start"
<1>1. CASE m = BareMessage(i)
  <2>1. m \in Bytes /\ Len(m) = 3 /\ m[1] = Start(i) /\ m[2] = Word /\ m[3] = BlankLine
    BY <1>1, BareShape
  <2>2. \A j \in 2 .. 3 : j = 2 \/ j = 3
    OBVIOUS
  <2> QED BY <2>1, <2>2, SymbolTypes
<1>2. ASSUME NEW p, NEW r, NEW k, Shaped(m, i, p, r, k)
      PROVE  /\ m \in Bytes /\ Len(m) \in Nat /\ Len(m) >= 2 /\ m[1].kind = "start"
             /\ \A j \in 2 .. Len(m) : m[j].kind # "start"
  BY <1>2, SymbolTypes DEF Shaped
<1> QED BY <1>1, <1>2, MessageForms

-----------------------------------------------------------------------------
(* The types are kept *)

LEMMA InitType == Init => ParseType
<1> SUFFICES ASSUME Init PROVE ParseType
  OBVIOUS
<1>1. <<>> \in Bytes /\ <<>> \in Seq(Bytes)
  BY EmptySeq DEF Bytes
<1>2. DOMAIN m_sessions = {}
  BY DEF Init
<1> QED BY <1>1, <1>2 DEF Init, ParseType

\* What is left of the wire.
LEMMA RestOfWire ==
  ASSUME ParseType, NEW s \in Stream, NEW n \in 1 .. Len(wire[s])
  PROVE  /\ n \in Nat /\ n <= Len(wire[s]) /\ Len(wire[s]) \in Nat
         /\ SubSeq(wire[s], 1, n) \in Bytes /\ Len(SubSeq(wire[s], 1, n)) = n
         /\ \A i \in 1 .. n : SubSeq(wire[s], 1, n)[i] = wire[s][i]
         /\ SubSeq(wire[s], n + 1, Len(wire[s])) \in Bytes
         /\ Len(SubSeq(wire[s], n + 1, Len(wire[s]))) = Len(wire[s]) - n
         /\ \A i \in 1 .. (Len(wire[s]) - n) :
               SubSeq(wire[s], n + 1, Len(wire[s]))[i] = wire[s][n + i]
<1>1. wire[s] \in Bytes
  BY HeldType
<1>2. Len(wire[s]) \in Nat
  BY <1>1, LenProperties DEF Bytes
<1>3. n \in Nat /\ n <= Len(wire[s])
  BY <1>2
<1> QED BY <1>1, <1>2, <1>3, CutBytes DEF Bytes

LEMMA TakesType ==
  ASSUME ParseType, NEW s \in Stream, NEW data \in Bytes, NEW h, Takes(s, data, h), Elsewhere(s),
         NEW x, m_sessions' = Store(s[1], s[2], x)
  PROVE  /\ \A c \in DOMAIN m_sessions' : \A d \in Direction : m_sessions'[c][d] \in Bytes
         /\ printed'[s] \in Seq(Bytes)
         /\ running \in BOOLEAN => running' \in BOOLEAN
<1> DEFINE q == Held(s)
           all == q \o data
<1>1. q \in Bytes /\ printed[s] \in Seq(Bytes)
  BY HeldType
<1>2. all \in Bytes /\ Len(all) \in Nat
  <2>1. all \in Bytes
    BY <1>1, ConcatProperties DEF Bytes
  <2> QED BY <2>1, LenProperties DEF Bytes
<1>3. TakesAs(s, q, data, all, h)
  BY DEF Takes
<1> HIDE DEF q, all
<1>4. /\ Held(s)' \in Bytes /\ printed'[s] \in Seq(Bytes)
      /\ running \in BOOLEAN => running' \in BOOLEAN
  <2>1. CASE ~Parses(all) \/ Dropped(q, h) \/ Refused(q, data, h)
    BY <1>1, <1>2, <1>3, <2>1 DEF TakesAs
  <2>2. CASE Parses(all) /\ ~Dropped(q, h) /\ ~Refused(q, data, h)
    <3>1. MsgLength(all) \in Nat /\ MsgLength(all) <= Len(all)
      <4>1. MsgLength(all) \in Nat
        BY <1>2, <2>2, MsgLengthType DEF Parses
      <4> QED BY <1>2, <2>2, <4>1 DEF Parses, Complete
    <3>2. /\ SubSeq(all, MsgLength(all) + 1, Len(all)) \in Bytes
          /\ SubSeq(all, 1, MsgLength(all)) \in Bytes
      BY <1>2, <3>1, CutBytes DEF Bytes
    <3>3. Append(printed[s], SubSeq(all, 1, MsgLength(all))) \in Seq(Bytes)
      BY <1>1, <3>2, AppendProperties
    <3> QED BY <1>3, <2>2, <3>2, <3>3 DEF TakesAs
  <2> QED BY <2>1, <2>2
<1>5. ASSUME NEW c \in DOMAIN m_sessions', NEW d \in Direction PROVE m_sessions'[c][d] \in Bytes
  <2>1. s[2] \in Direction
    BY StreamPair
  <2>2. /\ Buffered(s[1], s[2])' = x
        /\ \A y : \A e \in Direction : ~(y = s[1] /\ e = s[2]) => Buffered(y, e)' = Buffered(y, e)
        /\ \A y \in DOMAIN m_sessions' : \A e \in Direction : m_sessions'[y][e] = Buffered(y, e)'
    BY <2>1, StoreBuffered
  <2>3. Buffered(c, d) \in Bytes
    BY EmptySeq DEF Buffered, ParseType, Bytes
  <2>4. Held(s)' = Buffered(s[1], s[2])'
    BY DEF Held
  <2>5. CASE c = s[1] /\ d = s[2]
    BY <1>4, <2>2, <2>4, <2>5
  <2>6. CASE ~(c = s[1] /\ d = s[2])
    BY <2>2, <2>3, <2>6
  <2> QED BY <2>5, <2>6
<1> QED BY <1>4, <1>5

\* One frame of a stream: the types of what the parser keeps.
LEMMA SegmentType ==
  ASSUME ParseType, NEW s \in Stream, NEW n \in 1 .. Len(wire[s]), NEW h, InputPkg(Segment(s, n), h)
  PROVE  /\ m_inited' \in BOOLEAN /\ running' \in BOOLEAN
         /\ \A c \in DOMAIN m_sessions' : \A d \in Direction : m_sessions'[c][d] \in Bytes
         /\ printed' \in [Stream -> Seq(Bytes)]
<1>1. /\ running /\ m_inited' = m_inited
      /\ \/ /\ ~m_inited
            /\ m_sessions' = m_sessions /\ running' = running /\ printed' = printed
         \/ /\ m_inited /\ Takes(s, SubSeq(wire[s], 1, n), h) /\ Elsewhere(s)
            /\ \E q : m_sessions' = Store(s[1], s[2], q)
  BY SegmentInput
<1>2. SubSeq(wire[s], 1, n) \in Bytes
  BY RestOfWire
<1>3. CASE m_sessions' = m_sessions /\ running' = running /\ printed' = printed
  BY <1>1, <1>3 DEF ParseType
<1>4. CASE /\ Takes(s, SubSeq(wire[s], 1, n), h) /\ Elsewhere(s)
           /\ \E q : m_sessions' = Store(s[1], s[2], q)
  <2>1. /\ \A c \in DOMAIN m_sessions' : \A d \in Direction : m_sessions'[c][d] \in Bytes
        /\ printed'[s] \in Seq(Bytes) /\ running' \in BOOLEAN
    BY <1>2, <1>4, TakesType DEF ParseType
  <2>2. printed \in [Stream -> Seq(Bytes)]
    BY DEF ParseType
  <2>3. printed' \in [Stream -> Seq(Bytes)]
    <3>1. PICK p : printed' = [printed EXCEPT ![s] = p]
      BY <1>4 DEF Elsewhere
    <3>2. p \in Seq(Bytes)
      BY <2>1, <2>2, <3>1
    <3> QED BY <2>2, <3>1, <3>2
  <2> QED BY <1>1, <2>1, <2>3 DEF ParseType
<1> QED BY <1>1, <1>3, <1>4

\* A message is sent.
LEMMA SendEffect ==
  ASSUME ParseType, NEW s \in Stream, Send(s)
  PROVE  /\ UNCHANGED <<m_inited, m_sessions, running, printed, status>>
         /\ Pipelining \/ wire[s] = <<>>
         /\ \E m \in MessageAt(Len(sent[s]) + 1) :
              /\ sent' = [sent EXCEPT ![s] = Append(sent[s], m)]
              /\ wire' = [wire EXCEPT ![s] = wire[s] \o m]
         /\ Len(sent[s]) \in Nat
<1>1. Len(sent[s]) \in Nat
  BY HeldType, LenProperties
<1>2. NextMessages(s) = MessageAt(Len(sent[s]) + 1)
  BY DEF NextMessages, MessageAt
<1> QED BY <1>1, <1>2 DEF Send, parserVars, ParseType

LEMMA NextType == ParseType /\ [Next]_vars => ParseType'
<1> SUFFICES ASSUME ParseType, [Next]_vars PROVE ParseType'
  OBVIOUS
<1>1. CASE InitParsePkg
  BY <1>1 DEF InitParsePkg, trafficVars, ParseType
<1>2. ASSUME NEW s \in Stream, Send(s) PROVE ParseType'
  <2>1. /\ UNCHANGED <<m_inited, m_sessions, running, printed, status>> /\ Len(sent[s]) \in Nat
        /\ \E m \in MessageAt(Len(sent[s]) + 1) :
              /\ sent' = [sent EXCEPT ![s] = Append(sent[s], m)]
              /\ wire' = [wire EXCEPT ![s] = wire[s] \o m]
    BY <1>2, SendEffect
  <2>2. PICK m \in MessageAt(Len(sent[s]) + 1) :
              /\ sent' = [sent EXCEPT ![s] = Append(sent[s], m)]
              /\ wire' = [wire EXCEPT ![s] = wire[s] \o m]
    BY <2>1
  <2>3. m \in Bytes
    BY <2>1, MessageAtType
  <2>4. wire[s] \o m \in Bytes /\ Append(sent[s], m) \in Seq(Bytes)
    <3>1. wire[s] \in Bytes /\ sent[s] \in Seq(Bytes)
      BY HeldType
    <3> QED BY <2>3, <3>1, ConcatProperties, AppendProperties DEF Bytes
  <2>5. wire' \in [Stream -> Bytes] /\ sent' \in [Stream -> Seq(Bytes)]
    BY <2>2, <2>4 DEF ParseType
  <2> QED BY <2>1, <2>5 DEF ParseType
<1>3. ASSUME NEW s \in Stream, Capture(s) PROVE ParseType'
  <2>1. PICK n \in 1 .. Len(wire[s]), h \in BOOLEAN :
          /\ InputPkg(Segment(s, n), h)
          /\ wire' = [wire EXCEPT ![s] = SubSeq(wire[s], n + 1, Len(wire[s]))]
          /\ \E z : status' = [status EXCEPT ![s] = z]
          /\ status'[s] \in {Missed(s), "torn", "refused", status[s]}
          /\ sent' = sent
    BY <1>3 DEF Capture, ParseType, IsHttpHeader
  <2>2. status'[s] \in {"whole", "gaps", "torn", "refused"}
    <3>1. status[s] \in {"whole", "gaps", "torn", "refused"}
      BY DEF ParseType
    <3>2. Missed(s) \in {"gaps", "torn"}
      BY DEF Missed
    <3> QED BY <2>1, <3>1, <3>2
  <2>3. wire' \in [Stream -> Bytes]
    BY <2>1, RestOfWire DEF ParseType
  <2>4. status' \in [Stream -> {"whole", "gaps", "torn", "refused"}]
    <3>1. PICK z : status' = [status EXCEPT ![s] = z]
      BY <2>1
    <3>2. status \in [Stream -> {"whole", "gaps", "torn", "refused"}]
      BY DEF ParseType
    <3>3. status'[s] = z
      BY <3>1, <3>2
    <3> QED BY <2>2, <3>1, <3>2, <3>3
  <2> QED BY <2>1, <2>3, <2>4, SegmentType DEF ParseType
<1>4. ASSUME NEW s \in Stream, Lose(s) PROVE ParseType'
  <2>1. PICK n \in 1 .. Len(wire[s]) :
          wire' = [wire EXCEPT ![s] = SubSeq(wire[s], n + 1, Len(wire[s]))]
    BY <1>4 DEF Lose, ParseType
  <2>2. Missed(s) \in {"gaps", "torn"}
    BY DEF Missed
  <2>3. wire' \in [Stream -> Bytes]
    BY <2>1, RestOfWire DEF ParseType
  <2>4. status' \in [Stream -> {"whole", "gaps", "torn", "refused"}]
    BY <1>4, <2>2 DEF Lose, ParseType
  <2> QED BY <1>4, <2>3, <2>4 DEF Lose, parserVars, ParseType
<1>5. ASSUME NEW s \in Stream, CaptureTwice(s) PROVE ParseType'
  <2>1. PICK n \in 1 .. Len(wire[s]), h \in BOOLEAN : InputPkg(Segment(s, n), h)
    BY <1>5 DEF CaptureTwice, IsHttpHeader
  <2>2. /\ status' \in [Stream -> {"whole", "gaps", "torn", "refused"}]
        /\ wire' = wire /\ sent' = sent
    BY <1>5 DEF CaptureTwice, ParseType
  <2> QED BY <2>1, <2>2, SegmentType DEF ParseType
<1>6. ASSUME NEW s \in Stream, CaptureNegative(s) PROVE ParseType'
  <2>1. PICK h \in BOOLEAN : InputPkg(NegativeSegment(s), h)
    BY <1>6 DEF CaptureNegative, IsHttpHeader
  <2>2. /\ status' \in [Stream -> {"whole", "gaps", "torn", "refused"}]
        /\ wire' = wire /\ sent' = sent
    BY <1>6 DEF CaptureNegative, ParseType
  <2> QED BY <2>1, <2>2, NegativeInput DEF ParseType
<1>7. CASE CaptureOther
  BY <1>7, OtherInput DEF trafficVars, ParseType
<1>8. CASE UNCHANGED vars
  BY <1>8 DEF vars, parserVars, trafficVars, ParseType
<1> QED BY <1>1, <1>2, <1>3, <1>4, <1>5, <1>6, <1>7, <1>8 DEF Next

-----------------------------------------------------------------------------
(* A message without Content-Length *)

LEMMA BlockedIsStuck == \A s : Blocked(s[1], s[2]) <=> Held(s) # <<>> /\ Stuck(Held(s))
BY DEF Blocked, Held, Stuck

LEMMA BlockedStep ==
  ASSUME ParseType, [Next]_vars, NEW s \in Stream, Blocked(s[1], s[2])
  PROVE  printed'[s] = printed[s] /\ Blocked(s[1], s[2])'
<1>1. Held(s) # <<>> /\ Stuck(Held(s)) /\ Held(s) \in Bytes
  BY BlockedIsStuck, HeldType
<1>2. (Blocked(s[1], s[2]) <=> Held(s) # <<>> /\ Stuck(Held(s)))'
  BY BlockedIsStuck DEF Blocked, Held, Stuck
<1>3. ASSUME Held(s)' = Held(s), printed'[s] = printed[s]
      PROVE  printed'[s] = printed[s] /\ Blocked(s[1], s[2])'
  BY <1>1, <1>2, <1>3 DEF Stuck
<1>4. ASSUME NEW t \in Stream, NEW n \in 1 .. Len(wire[t]), NEW h, InputPkg(Segment(t, n), h)
      PROVE  printed'[s] = printed[s] /\ Blocked(s[1], s[2])'
  <2> DEFINE data == SubSeq(wire[t], 1, n)
  <2>1. \/ m_sessions' = m_sessions /\ printed' = printed
        \/ Takes(t, data, h) /\ Elsewhere(t)
    BY <1>4, SegmentInput
  <2>2. CASE m_sessions' = m_sessions /\ printed' = printed
    BY <1>3, <2>2 DEF Held, Buffered
  <2>3. CASE Elsewhere(t) /\ t # s
    BY <1>3, <2>3 DEF Elsewhere
  <2>4. CASE Takes(t, data, h) /\ t = s
    <3>1. data \in Bytes
      BY RestOfWire
    <3> DEFINE q == Held(s)
               all == q \o data
    <3>2. TakesAs(s, q, data, all, h)
      BY <2>4 DEF Takes
    <3>3. Stuck(all) /\ ~Parses(all) /\ all # <<>>
      <4>1. Stuck(all) /\ ~Parses(all) /\ all \in Bytes
        BY <1>1, <3>1, StuckForGood
      <4>2. all # <<>>
        BY <1>1, <3>1, ConcatEqualIffEmpty DEF Bytes
      <4> QED BY <4>1, <4>2
    <3> HIDE DEF q, all
    <3>4. printed'[s] = printed[s] /\ (Held(s)' = q \/ Held(s)' = all)
      BY <3>2, <3>3 DEF TakesAs
    <3>5. CASE Held(s)' = q
      BY <1>3, <3>4, <3>5 DEF q
    <3>6. CASE Held(s)' = all
      BY <1>2, <3>3, <3>4, <3>6 DEF Stuck
    <3> QED BY <3>4, <3>5, <3>6
  <2> QED BY <2>1, <2>2, <2>3, <2>4
<1>5. CASE InitParsePkg \/ CaptureOther \/ UNCHANGED vars
  <2>1. m_sessions' = m_sessions /\ printed' = printed
    BY <1>5, OtherInput DEF InitParsePkg, vars, parserVars
  <2> QED BY <1>3, <2>1 DEF Held, Buffered
<1>6. ASSUME NEW t \in Stream, Send(t) \/ Lose(t)
      PROVE  printed'[s] = printed[s] /\ Blocked(s[1], s[2])'
  <2>1. m_sessions' = m_sessions /\ printed' = printed
    BY <1>6 DEF Send, Lose, parserVars
  <2> QED BY <1>3, <2>1 DEF Held, Buffered
<1>7. ASSUME NEW t \in Stream, Capture(t) \/ CaptureTwice(t)
      PROVE  \E n \in 1 .. Len(wire[t]) : \E h : InputPkg(Segment(t, n), h)
  BY <1>7 DEF Capture, CaptureTwice
<1>8. ASSUME NEW t \in Stream, CaptureNegative(t)
      PROVE  printed'[s] = printed[s] /\ Blocked(s[1], s[2])'
  <2>1. PICK h : InputPkg(NegativeSegment(t), h)
    BY <1>8 DEF CaptureNegative
  <2> QED BY <1>3, <2>1, NegativeInput
<1> QED BY <1>4, <1>5, <1>6, <1>7, <1>8 DEF Next

-----------------------------------------------------------------------------
(* A buffer that begins with a message, or with the beginning of one *)

BeginsWith(q, m) == q # <<>> /\ \A j \in 1 .. Len(q) : j <= Len(m) => q[j] = m[j]

\* The length of a message is found once the whole header is buffered, if it is
\* in the part that is read.
LEMMA HeadShape ==
  ASSUME NEW i \in Nat, NEW m, NEW p, NEW r, NEW k, Shaped(m, i, p, r, k), r <= READ_BUF,
         NEW q \in Bytes, BeginsWith(q, m)
  PROVE  /\ Parses(q) => MsgLength(q) = Len(m) /\ Len(m) <= Len(q)
         /\ Len(q) >= Len(m) => Parses(q)
<1> DEFINE R == ReadAhead(q)
           n == Len(R)
<1>1. /\ R \in Bytes /\ (\A j \in 1 .. n : R[j] = q[j]) /\ n \in 0 .. Len(q) /\ Len(q) \in Nat
      /\ n = IF Len(q) > READ_BUF THEN READ_BUF ELSE Len(q)
  BY ReadAheadIsPrefix
<1>2. /\ p \in Nat /\ r \in Nat /\ k \in Nat /\ 3 <= p /\ p < r /\ Len(m) = r + k
      /\ m[p] = Length(k) /\ m[r] = BlankLine
      /\ \A j \in 1 .. r - 1 : m[j].kind # "blank"
      /\ \A j \in 1 .. r : m[j].kind = "length" => j = p
  BY DEF Shaped
<1>3. \A j \in 1 .. n : j <= r => R[j] = m[j]
  <2>1. \A j \in 1 .. n : j <= r => j \in 1 .. Len(q) /\ j <= Len(m)
    BY <1>1, <1>2
  <2> QED BY <1>1, <2>1 DEF BeginsWith
<1>4. n \in Nat
  BY <1>1
<1>5. \A S : Parses(q) <=> LengthLines(R) # {} /\ Complete(q, MsgLength(q))
  BY DEF Parses
<1>6. MsgLength(q) = R[Max(LengthLines(R))].n + RemainPos(R)
  BY DEF MsgLength, ContentLength
<1> HIDE DEF R, n
<1>7. Max({p}) = p
  BY <1>2 DEF Max
<1>8. ASSUME NEW t \in Nat, t = RemainPos(R), t <= r, LengthLines(R) # {}
      PROVE  MsgLength(q) = k + t
  <2>1. \A j \in LengthLines(R) : j \in 1 .. n /\ j < t /\ R[j].kind = "length"
    BY <1>8 DEF LengthLines, n
  <2>2. \A j \in LengthLines(R) : j = p
    <3>1. ASSUME NEW j \in LengthLines(R) PROVE j = p
      <4>1. j \in 1 .. n /\ j <= r /\ j \in 1 .. r /\ R[j].kind = "length"
        BY <1>2, <1>4, <1>8, <2>1
      <4>2. m[j].kind = "length"
        BY <1>3, <4>1
      <4> QED BY <1>2, <4>1, <4>2
    <3> QED BY <3>1
  <2>3. LengthLines(R) = {p}
    BY <1>8, <2>2
  <2>4. p \in 1 .. n /\ R[p] = m[p]
    BY <1>2, <1>3, <2>1, <2>3
  <2>5. R[p].n = k
    BY <1>2, <2>4, SymbolTypes
  <2> QED BY <1>6, <1>7, <1>8, <2>3, <2>5
<1>9. CASE n < r
  <2>1. n = Len(q) /\ Len(q) < Len(m)
    BY <1>1, <1>2, <1>9, ReadBufAssumption
  <2>2. RemainPos(R) = n + 1
    <3>1. n + 1 \in 1 .. Len(R) + 1 /\ ~(n + 1 <= Len(R))
      BY <1>4 DEF n
    <3>2. \A j \in 1 .. Len(R) : R[j].kind # "blank"
      <4>1. \A j \in 1 .. n : j \in 1 .. r - 1 /\ j <= r
        BY <1>2, <1>4, <1>9
      <4>2. \A j \in 1 .. n : R[j].kind # "blank"
        BY <1>2, <1>3, <4>1
      <4> QED BY <4>2 DEF n
    <3> QED BY <1>1, <3>1, <3>2, RemainPosUnique
  <2>3. ASSUME Parses(q) PROVE FALSE
    <3>1. MsgLength(q) = k + (n + 1)
      <4>1. n + 1 \in Nat /\ n + 1 <= r
        BY <1>2, <1>4, <1>9
      <4> QED BY <1>5, <1>8, <2>2, <2>3, <4>1
    <3> QED BY <1>2, <1>4, <1>5, <2>1, <2>3, <3>1 DEF Complete
  <2> QED BY <1>1, <1>2, <2>1, <2>3
<1>10. CASE r <= n
  <2>1. RemainPos(R) = r
    <3>1. r \in 1 .. Len(R) + 1 /\ r \in 1 .. n
      BY <1>2, <1>4, <1>10 DEF n
    <3>2. R[r].kind = "blank"
      BY <1>2, <1>3, <3>1, SymbolTypes
    <3>3. \A j \in 1 .. Len(R) : j < r => R[j].kind # "blank"
      <4>1. \A j \in 1 .. n : j < r => j \in 1 .. r - 1 /\ j <= r
        BY <1>2, <1>4
      <4>2. \A j \in 1 .. n : j < r => R[j].kind # "blank"
        BY <1>2, <1>3, <4>1
      <4> QED BY <4>2 DEF n
    <3> QED BY <1>1, <3>1, <3>2, <3>3, RemainPosUnique
  <2>2. p \in LengthLines(R)
    <3>1. p \in 1 .. n /\ p < r /\ p <= r
      BY <1>2, <1>4, <1>10
    <3>2. R[p].kind = "length"
      BY <1>2, <1>3, <3>1, SymbolTypes
    <3> QED BY <2>1, <3>1, <3>2 DEF LengthLines, n
  <2>3. MsgLength(q) = k + r
    BY <1>2, <1>8, <2>1, <2>2
  <2>4. MsgLength(q) = Len(m)
    BY <1>2, <2>3
  <2>5. Parses(q) <=> Len(q) >= Len(m)
    BY <1>5, <2>2, <2>4 DEF Complete
  <2> QED BY <1>1, <1>2, <2>4, <2>5
<1> QED BY <1>2, <1>4, <1>9, <1>10

\* A message without Content-Length has none, whatever follows it.
LEMMA HeadBare ==
  ASSUME NEW i \in Nat, NEW q \in Bytes, BeginsWith(q, BareMessage(i))
  PROVE  LengthLines(ReadAhead(q)) = {}
<1> DEFINE m == BareMessage(i)
           R == ReadAhead(q)
<1>1. Len(m) = 3 /\ m[1] = Start(i) /\ m[2] = Word /\ m[3] = BlankLine
  BY BareShape
<1>2. /\ R \in Bytes /\ (\A j \in 1 .. Len(R) : R[j] = q[j]) /\ Len(R) \in 0 .. Len(q) /\ Len(q) \in Nat
  BY ReadAheadIsPrefix
<1>3. \A j \in 1 .. Len(R) : j <= 3 => R[j] = m[j]
  BY <1>1, <1>2 DEF BeginsWith
<1> HIDE DEF m, R
<1>4. RemainPos(R) <= 3 \/ RemainPos(R) > Len(R)
  <2>1. /\ RemainPos(R) \in 1 .. Len(R) + 1
        /\ \A j \in 1 .. Len(R) : j < RemainPos(R) => R[j].kind # "blank"
    BY <1>2, RemainPosIsFirst
  <2>2. Len(R) >= 3 => R[3].kind = "blank"
    BY <1>1, <1>2, <1>3, SymbolTypes
  <2> QED BY <1>2, <2>1, <2>2
<1>5. RemainPos(R) \in 1 .. Len(R) + 1 /\ RemainPos(R) <= 3
  <2>1. /\ RemainPos(R) \in 1 .. Len(R) + 1
        /\ \A j \in 1 .. Len(R) : j < RemainPos(R) => R[j].kind # "blank"
    BY <1>2, RemainPosIsFirst
  <2>2. Len(R) >= 3 => R[3].kind = "blank"
    BY <1>1, <1>2, <1>3, SymbolTypes
  <2>3. Len(R) >= 3 => ~(3 < RemainPos(R))
    BY <1>2, <2>1, <2>2
  <2> QED BY <1>2, <2>1, <2>3
<1>6. ASSUME NEW j \in 1 .. Len(R), j < RemainPos(R) PROVE R[j].kind # "length"
  <2>1. j = 1 \/ j = 2
    BY <1>2, <1>5, <1>6
  <2> QED BY <1>1, <1>3, <2>1, SymbolTypes
<1> QED BY <1>6 DEF LengthLines, R

\* ParseHttpPkg takes a whole message or nothing.
LEMMA HeadMessage ==
  ASSUME NEW i \in Nat, NEW m \in MessageAt(i), RemainPos(m) <= READ_BUF,
         NEW q \in Bytes, BeginsWith(q, m)
  PROVE  /\ Parses(q) => MsgLength(q) = Len(m) /\ Len(m) <= Len(q)
         /\ ~Bare /\ Len(q) >= Len(m) => Parses(q)
<1>1. CASE Bare /\ m = BareMessage(i)
  BY <1>1, HeadBare DEF Parses
<1>2. ASSUME NEW p, NEW r, NEW k, Shaped(m, i, p, r, k)
      PROVE  /\ Parses(q) => MsgLength(q) = Len(m) /\ Len(m) <= Len(q)
             /\ ~Bare /\ Len(q) >= Len(m) => Parses(q)
  <2>1. RemainPos(m) = r
    <3>1. m \in Bytes /\ r \in 1 .. Len(m) + 1 /\ m[r].kind = "blank"
      BY <1>2, SymbolTypes DEF Shaped
    <3>2. \A j \in 1 .. Len(m) : j < r => m[j].kind # "blank"
      BY <1>2 DEF Shaped
    <3> QED BY <3>1, <3>2, RemainPosUnique
  <2> QED BY <1>2, <2>1, HeadShape
<1> QED BY <1>1, <1>2, MessageForms

-----------------------------------------------------------------------------
(***************************************************************************)
(* Where a stream stands.  T are all the bytes that were sent on it and    *)
(* off[i] is how many of them belong to the first i messages.  The buffer  *)
(* holds the bytes from b to w and the wire those from w on.  What is      *)
(* printed are some of the first k messages, and the buffer begins where   *)
(* they end; or it is empty and bytes behind them are missing.             *)
(***************************************************************************)
Within(p, off, ms) == \E i \in 1 .. Len(ms) : \E j \in 1 .. Len(ms[i]) : p = off[i - 1] + j

Offsets(off, T, ms) ==
  /\ off \in [0 .. Len(ms) -> Nat] /\ off[0] = 0 /\ off[Len(ms)] = Len(T)
  /\ \A i, j \in 0 .. Len(ms) : i <= j => off[i] <= off[j]
  /\ \A i \in 1 .. Len(ms) : /\ off[i] = off[i - 1] + Len(ms[i])
                             /\ \A j \in 1 .. Len(ms[i]) : T[off[i - 1] + j] = ms[i][j]
  /\ \A p \in 1 .. Len(T) : Within(p, off, ms)

Window(q, T, a, z) == Len(q) = z - a /\ \A j \in 1 .. (z - a) : q[j] = T[a + j]

Standing(T, off, b, w, q, wi, ms) ==
  /\ T \in Bytes /\ Offsets(off, T, ms) /\ \A i \in 1 .. Len(ms) : ms[i] \in MessageAt(i)
  /\ w \in 0 .. Len(T) /\ b \in 0 .. w
  /\ Window(wi, T, w, Len(T)) /\ Window(q, T, b, w)

\* The messages of pr are some of the first k of ms, in their order.
Picked(pr, ms, k) ==
  \E f \in [1 .. Len(pr) -> 1 .. k] :
    /\ \A i, j \in 1 .. Len(pr) : i < j => f[i] < f[j]
    /\ \A j \in 1 .. Len(pr) : pr[j] = ms[f[j]]

Placed(st, off, b, w, k, pr, ms) ==
  /\ k \in 0 .. Len(ms) /\ Picked(pr, ms, k)
  /\ st = "whole" => k = Len(pr) /\ \A j \in 1 .. Len(pr) : pr[j] = ms[j]
  /\ b = off[k] \/ (st = "gaps" /\ b = w /\ off[k] <= b)

Follows(st, pr, q, wi, ms) ==
  \E T, off, b, w, k :
    Standing(T, off, b, w, q, wi, ms) /\ Placed(st, off, b, w, k, pr, ms)

\* No header is longer than the part of the buffer that is read.
AllHeadersFit(ms) == \A i \in 1 .. Len(ms) : RemainPos(ms[i]) <= READ_BUF

LEMMA PickedMore ==
  ASSUME NEW pr, NEW ms, NEW k \in Nat, NEW l \in Nat, k <= l, Picked(pr, ms, k)
  PROVE  Picked(pr, ms, l)
<1>1. PICK f \in [1 .. Len(pr) -> 1 .. k] :
        /\ \A i, j \in 1 .. Len(pr) : i < j => f[i] < f[j]
        /\ \A j \in 1 .. Len(pr) : pr[j] = ms[f[j]]
  BY DEF Picked
<1>2. 1 .. k \subseteq 1 .. l
  OBVIOUS
<1>3. f \in [1 .. Len(pr) -> 1 .. l]
  BY <1>2
<1> QED BY <1>1, <1>3 DEF Picked

LEMMA PickedAppend ==
  ASSUME NEW pr \in Seq(Bytes), NEW ms, NEW k \in Nat, Picked(pr, ms, k), NEW x, x = k + 1,
         NEW m \in Bytes, m = ms[x]
  PROVE  Picked(Append(pr, m), ms, x)
<1> DEFINE n == Len(pr)
           pr2 == Append(pr, m)
<1>1. PICK f \in [1 .. n -> 1 .. k] :
        /\ \A i, j \in 1 .. n : i < j => f[i] < f[j]
        /\ \A j \in 1 .. n : pr[j] = ms[f[j]]
  BY DEF Picked
<1>2. n \in Nat
  BY LenProperties
<1>3. Len(pr2) = n + 1 /\ pr2[n + 1] = m /\ \A j \in 1 .. n : pr2[j] = pr[j]
  BY AppendProperties
<1> HIDE DEF n, pr2
<1> DEFINE f2 == [j \in 1 .. n + 1 |-> IF j <= n THEN f[j] ELSE x]
<1>4. \A j \in 1 .. n + 1 : j \in 1 .. n \/ j = n + 1
  BY <1>2
<1>5. /\ \A j \in 1 .. n : j \in 1 .. n + 1 /\ f2[j] = f[j] /\ f[j] \in Nat /\ f[j] < x /\ f[j] \in 1 .. x
      /\ f2[n + 1] = x /\ x \in 1 .. x /\ n + 1 \in 1 .. n + 1
  <2>1. \A j \in 1 .. n : f[j] \in 1 .. k
    BY <1>1
  <2>2. \A j \in 1 .. n : f[j] \in Nat /\ f[j] < x /\ f[j] \in 1 .. x
    BY <2>1
  <2>3. \A j \in 1 .. n : j \in 1 .. n + 1 /\ j <= n
    BY <1>2
  <2>4. n + 1 \in 1 .. n + 1 /\ ~(n + 1 <= n) /\ x \in 1 .. x
    BY <1>2
  <2> QED BY <2>2, <2>3, <2>4
<1>6. f2 \in [1 .. n + 1 -> 1 .. x]
  BY <1>4, <1>5
<1> HIDE DEF f2
<1>7. ASSUME NEW i \in 1 .. n + 1, NEW j \in 1 .. n + 1, i < j PROVE f2[i] < f2[j]
  <2>1. i \in 1 .. n
    BY <1>2, <1>7
  <2>2. CASE j \in 1 .. n
    BY <1>1, <1>5, <1>7, <2>1, <2>2
  <2>3. CASE j = n + 1
    BY <1>5, <2>1, <2>3
  <2> QED BY <1>4, <2>2, <2>3
<1>8. ASSUME NEW j \in 1 .. n + 1 PROVE pr2[j] = ms[f2[j]]
  <2>1. CASE j \in 1 .. n
    BY <1>1, <1>3, <1>5, <2>1
  <2>2. CASE j = n + 1
    BY <1>3, <1>5, <2>2
  <2> QED BY <1>4, <2>1, <2>2
<1>9. Picked(pr2, ms, x)
  BY <1>3, <1>6, <1>7, <1>8 DEF Picked
<1> QED BY <1>9 DEF pr2

\* A further message is sent.
LEMMA OffsetsAppend ==
  ASSUME NEW T \in Bytes, NEW ms \in Seq(Bytes), NEW m \in Bytes, NEW off, Offsets(off, T, ms),
         NEW off2, off2 = [i \in 0 .. Len(ms) + 1 |-> IF i <= Len(ms) THEN off[i] ELSE Len(T) + Len(m)]
  PROVE  Offsets(off2, T \o m, Append(ms, m))
<1> DEFINE T2 == T \o m
           ms2 == Append(ms, m)
           n == Len(ms)
<1>1. Len(T) \in Nat /\ Len(m) \in Nat /\ n \in Nat
  BY LenProperties DEF Bytes
<1>2. /\ Len(ms2) = n + 1 /\ ms2[n + 1] = m /\ \A i \in 1 .. n : ms2[i] = ms[i]
  BY AppendProperties
<1>3. /\ Len(T2) = Len(T) + Len(m) /\ (\A i \in 1 .. Len(T) : T2[i] = T[i])
      /\ \A j \in 1 .. Len(m) : T2[Len(T) + j] = m[j]
  <2>1. /\ Len(T2) = Len(T) + Len(m)
        /\ \A i \in 1 .. Len(T) + Len(m) : T2[i] = IF i <= Len(T) THEN T[i] ELSE m[i - Len(T)]
    BY ConcatProperties DEF Bytes
  <2> DEFINE t == Len(T)
             l == Len(m)
  <2> HIDE DEF T2, t, l
  <2>2. t \in Nat /\ l \in Nat /\ \A i \in 1 .. t + l : T2[i] = IF i <= t THEN T[i] ELSE m[i - t]
    BY <1>1, <2>1 DEF t, l
  <2>3. ASSUME NEW i \in 1 .. t PROVE T2[i] = T[i]
    <3>1. i \in 1 .. t + l /\ i <= t
      BY <2>2
    <3> QED BY <2>2, <3>1
  <2>4. ASSUME NEW j \in 1 .. l PROVE T2[t + j] = m[j]
    <3>1. t + j \in 1 .. t + l /\ ~(t + j <= t) /\ (t + j) - t = j
      BY <2>2
    <3> QED BY <2>2, <3>1
  <2> QED BY <2>1, <2>3, <2>4 DEF t, l
<1> HIDE DEF T2, ms2, n
<1>4. /\ off \in [0 .. n -> Nat] /\ off[0] = 0 /\ off[n] = Len(T)
      /\ \A i, j \in 0 .. n : i <= j => off[i] <= off[j]
      /\ \A i \in 1 .. n : /\ off[i] = off[i - 1] + Len(ms[i])
                           /\ \A j \in 1 .. Len(ms[i]) : T[off[i - 1] + j] = ms[i][j]
      /\ \A p \in 1 .. Len(T) : Within(p, off, ms)
  BY DEF Offsets, n
<1>5. /\ off2 \in [0 .. n + 1 -> Nat] /\ off2[n + 1] = Len(T) + Len(m)
      /\ \A i \in 0 .. n : off2[i] = off[i]
  BY <1>1, <1>4 DEF n
<1>6. \A i \in 0 .. n : off[i] \in Nat /\ off[i] <= Len(T)
  BY <1>1, <1>4
<1>7. \A i, j \in 0 .. n + 1 : i <= j => off2[i] <= off2[j]
  <2> SUFFICES ASSUME NEW i \in 0 .. n + 1, NEW j \in 0 .. n + 1, i <= j PROVE off2[i] <= off2[j]
    OBVIOUS
  <2>1. CASE j = n + 1
    <3>1. off2[j] = Len(T) + Len(m)
      BY <1>5, <2>1
    <3>2. i = n + 1 \/ i \in 0 .. n
      BY <1>1
    <3> QED BY <1>1, <1>5, <1>6, <3>1, <3>2
  <2>2. CASE j # n + 1
    <3>1. i \in 0 .. n /\ j \in 0 .. n
      BY <1>1, <2>2
    <3> QED BY <1>4, <1>5, <3>1
  <2> QED BY <2>1, <2>2
<1>8. ASSUME NEW i \in 1 .. n + 1
      PROVE  /\ off2[i] = off2[i - 1] + Len(ms2[i])
             /\ \A j \in 1 .. Len(ms2[i]) : T2[off2[i - 1] + j] = ms2[i][j]
  <2>1. CASE i = n + 1
    <3>1. i - 1 = n /\ n \in 0 .. n
      BY <1>1, <2>1
    <3>2. off2[i - 1] = Len(T) /\ off2[i] = Len(T) + Len(m) /\ ms2[i] = m
      BY <1>2, <1>4, <1>5, <2>1, <3>1
    <3> QED BY <1>3, <3>2
  <2>2. CASE i # n + 1
    <3>1. i \in 1 .. n /\ i \in 0 .. n /\ i - 1 \in 0 .. n
      BY <1>1, <2>2
    <3>2. off2[i] = off[i] /\ off2[i - 1] = off[i - 1] /\ ms2[i] = ms[i]
      BY <1>2, <1>5, <3>1
    <3>3. \A j \in 1 .. Len(ms[i]) : off[i - 1] + j \in 1 .. Len(T)
      <4>1. off[i - 1] \in Nat /\ off[i] <= Len(T) /\ off[i] = off[i - 1] + Len(ms[i])
        BY <1>4, <1>6, <3>1
      <4>2. Len(ms[i]) \in Nat
        BY <3>1, ElementOfSeq, LenProperties DEF n, Bytes
      <4>3. PICK o, p, z, c : o = off[i - 1] /\ p = off[i] /\ z = Len(T) /\ c = Len(ms[i])
        OBVIOUS
      <4>4. o \in Nat /\ z \in Nat /\ c \in Nat /\ p = o + c /\ p <= z
        BY <1>1, <4>1, <4>2, <4>3
      <4>5. \A j \in 1 .. c : o + j \in 1 .. z
        BY ONLY <4>4
      <4> QED BY <4>3, <4>5
    <3>4. /\ off[i] = off[i - 1] + Len(ms[i])
          /\ \A j \in 1 .. Len(ms[i]) : T[off[i - 1] + j] = ms[i][j]
      BY <1>4, <3>1
    <3>5. \A j \in 1 .. Len(ms[i]) : T2[off[i - 1] + j] = ms[i][j]
      BY <1>3, <3>3, <3>4
    <3> QED BY <3>2, <3>4, <3>5
  <2> QED BY <2>1, <2>2
<1>9. ASSUME NEW p \in 1 .. Len(T2)
      PROVE  Within(p, off2, ms2)
  <2>1. CASE p <= Len(T)
    <3>1. p \in 1 .. Len(T)
      BY <1>1, <1>3, <2>1
    <3>2. PICK i \in 1 .. n : \E j \in 1 .. Len(ms[i]) : p = off[i - 1] + j
      BY <1>4, <3>1 DEF Within, n
    <3>3. i \in 1 .. n + 1 /\ i - 1 \in 0 .. n /\ ms2[i] = ms[i]
      BY <1>1, <1>2
    <3> QED BY <1>2, <1>5, <3>2, <3>3 DEF Within
  <2>2. CASE p > Len(T)
    <3>1. p - Len(T) \in 1 .. Len(m) /\ p = Len(T) + (p - Len(T))
      BY <1>1, <1>3, <2>2
    <3>2. n + 1 \in 1 .. n + 1 /\ (n + 1) - 1 = n /\ n \in 0 .. n
      BY <1>1
    <3>3. off2[(n + 1) - 1] = Len(T) /\ ms2[n + 1] = m
      BY <1>2, <1>4, <1>5, <3>2
    <3> QED BY <1>2, <3>1, <3>2, <3>3 DEF Within
  <2>3. p \in Nat
    BY <1>1, <1>3
  <2> QED BY <1>1, <2>1, <2>2, <2>3
<1>10. off2[0] = 0
  BY <1>1, <1>4, <1>5
<1>11. Offsets(off2, T2, ms2)
  <2>1. off2 \in [0 .. Len(ms2) -> Nat] /\ off2[0] = 0 /\ off2[Len(ms2)] = Len(T2)
    BY <1>2, <1>3, <1>5, <1>10
  <2>2. \A i \in 1 .. Len(ms2) : /\ off2[i] = off2[i - 1] + Len(ms2[i])
                                 /\ \A j \in 1 .. Len(ms2[i]) : T2[off2[i - 1] + j] = ms2[i][j]
    BY <1>2, <1>8
  <2>3. \A p \in 1 .. Len(T2) : Within(p, off2, ms2)
    BY <1>9
  <2>4. \A i, j \in 0 .. Len(ms2) : i <= j => off2[i] <= off2[j]
    BY <1>2, <1>7
  <2> QED BY <2>1, <2>2, <2>3, <2>4 DEF Offsets
<1> QED BY <1>11 DEF T2, ms2

LEMMA FollowsSend ==
  ASSUME NEW st, NEW pr \in Seq(Bytes), NEW q \in Bytes, NEW wi \in Bytes, NEW ms \in Seq(Bytes),
         Follows(st, pr, q, wi, ms), NEW m \in MessageAt(Len(ms) + 1)
  PROVE  Follows(st, pr, q, wi \o m, Append(ms, m))
<1> DEFINE n == Len(ms)
           ms2 == Append(ms, m)
           wi2 == wi \o m
<1>1. n \in Nat /\ Len(wi) \in Nat /\ Len(pr) \in Nat
  BY LenProperties DEF Bytes
<1>2. m \in Bytes /\ Len(m) \in Nat
  BY <1>1, MessageAtType
<1>3. PICK T, off, b, w, k :
        Standing(T, off, b, w, q, wi, ms) /\ Placed(st, off, b, w, k, pr, ms)
  BY DEF Follows
<1>4. T \in Bytes /\ Offsets(off, T, ms) /\ Len(T) \in Nat /\ w \in 0 .. Len(T) /\ b \in 0 .. w
  BY <1>3, LenProperties DEF Standing, Bytes
<1> DEFINE T2 == T \o m
           off2 == [i \in 0 .. n + 1 |-> IF i <= n THEN off[i] ELSE Len(T) + Len(m)]
<1>5. Offsets(off2, T2, ms2)
  BY <1>2, <1>4, OffsetsAppend
<1>6. /\ T2 \in Bytes /\ Len(T2) = Len(T) + Len(m)
      /\ \A i \in 1 .. Len(T) + Len(m) : T2[i] = IF i <= Len(T) THEN T[i] ELSE m[i - Len(T)]
  BY <1>2, <1>4, ConcatProperties DEF Bytes
<1>7. /\ wi2 \in Bytes /\ Len(wi2) = Len(wi) + Len(m)
      /\ \A i \in 1 .. Len(wi) + Len(m) : wi2[i] = IF i <= Len(wi) THEN wi[i] ELSE m[i - Len(wi)]
  BY <1>2, ConcatProperties DEF Bytes
<1>8. /\ Len(ms2) = n + 1 /\ ms2[n + 1] = m /\ \A i \in 1 .. n : ms2[i] = ms[i]
  BY <1>2, AppendProperties
<1>9. \A i \in 0 .. n : off2[i] = off[i]
  BY <1>1
<1> HIDE DEF n, ms2, wi2, T2, off2
<1>10. \A i \in 1 .. Len(ms2) : ms2[i] \in MessageAt(i)
  <2>1. \A i \in 1 .. n + 1 : i = n + 1 \/ i \in 1 .. n
    BY <1>1
  <2>2. \A i \in 1 .. n : ms[i] \in MessageAt(i)
    BY <1>3 DEF Standing, n
  <2> QED BY <1>8, <2>1, <2>2 DEF n
<1>11. Window(q, T2, b, w)
  <2>1. Window(q, T, b, w)
    BY <1>3 DEF Standing
  <2>2. \A j \in 1 .. (w - b) : b + j \in 1 .. Len(T) /\ T2[b + j] = T[b + j]
    BY <1>2, <1>4, <1>6
  <2> QED BY <2>1, <2>2 DEF Window
<1>12. Window(wi2, T2, w, Len(T2))
  <2>1. Len(wi) = Len(T) - w /\ \A j \in 1 .. (Len(T) - w) : wi[j] = T[w + j]
    BY <1>3 DEF Standing, Window
  <2>2. Len(wi2) = Len(T2) - w
    BY <1>1, <1>2, <1>4, <1>6, <1>7, <2>1
  <2>3. ASSUME NEW j \in 1 .. (Len(T2) - w) PROVE wi2[j] = T2[w + j]
    <3>1. j \in 1 .. Len(wi) + Len(m) /\ w + j \in 1 .. Len(T) + Len(m)
      BY <1>1, <1>2, <1>4, <1>6, <2>1
    <3>2. j <= Len(wi) <=> w + j <= Len(T)
      BY <1>1, <1>4, <2>1, <3>1
    <3>3. j - Len(wi) = (w + j) - Len(T)
      BY <1>1, <1>4, <2>1, <3>1
    <3>4. j <= Len(wi) => j \in 1 .. (Len(T) - w)
      BY <1>1, <1>4, <2>1, <3>1
    <3> QED BY <1>6, <1>7, <2>1, <3>1, <3>2, <3>3, <3>4
  <2> QED BY <2>2, <2>3 DEF Window
<1>13. w \in 0 .. Len(T2)
  BY <1>2, <1>4, <1>6
<1>14. Standing(T2, off2, b, w, q, wi2, ms2)
  BY <1>4, <1>5, <1>6, <1>10, <1>11, <1>12, <1>13 DEF Standing
<1>15. Placed(st, off2, b, w, k, pr, ms2)
  <2>1. /\ k \in 0 .. n /\ Picked(pr, ms, k)
        /\ st = "whole" => k = Len(pr) /\ \A j \in 1 .. Len(pr) : pr[j] = ms[j]
        /\ b = off[k] \/ (st = "gaps" /\ b = w /\ off[k] <= b)
    BY <1>3 DEF Placed, n
  <2>2. off2[k] = off[k] /\ k \in 0 .. Len(ms2) /\ \A j \in 1 .. k : j \in 1 .. n
    BY <1>1, <1>8, <1>9, <2>1
  <2>3. Picked(pr, ms2, k)
    <3>1. PICK f \in [1 .. Len(pr) -> 1 .. k] :
            /\ \A i, j \in 1 .. Len(pr) : i < j => f[i] < f[j]
            /\ \A j \in 1 .. Len(pr) : pr[j] = ms[f[j]]
      BY <2>1 DEF Picked
    <3>2. \A j \in 1 .. Len(pr) : ms2[f[j]] = ms[f[j]]
      BY <1>8, <2>2, <3>1
    <3> QED BY <3>1, <3>2 DEF Picked
  <2>4. st = "whole" => k = Len(pr) /\ \A j \in 1 .. Len(pr) : pr[j] = ms2[j]
    BY <1>8, <2>1, <2>2
  <2> QED BY <2>1, <2>2, <2>3, <2>4 DEF Placed
<1>16. Follows(st, pr, q, wi2, ms2)
  BY <1>3, <1>14, <1>15 DEF Follows
<1> QED BY <1>16 DEF wi2, ms2

\* The wire is split into a segment and the rest.
Split(wi, n, data, rest) ==
  /\ n \in Nat /\ n >= 1 /\ n <= Len(wi) /\ Len(data) = n /\ Len(rest) = Len(wi) - n
  /\ (\A i \in 1 .. n : data[i] = wi[i]) /\ \A i \in 1 .. (Len(wi) - n) : rest[i] = wi[n + i]

LEMMA WireSplit ==
  ASSUME ParseType, NEW s \in Stream, NEW n \in 1 .. Len(wire[s])
  PROVE  /\ Split(wire[s], n, SubSeq(wire[s], 1, n), SubSeq(wire[s], n + 1, Len(wire[s])))
         /\ SubSeq(wire[s], 1, n) \in Bytes /\ SubSeq(wire[s], n + 1, Len(wire[s])) \in Bytes
<1>1. n >= 1
  BY RestOfWire
<1> QED BY <1>1, RestOfWire DEF Split

\* The segment goes to the buffer, or nowhere.
LEMMA StandingMoves ==
  ASSUME NEW T, NEW off, NEW b, NEW w, NEW q \in Bytes, NEW wi \in Bytes, NEW ms,
         Standing(T, off, b, w, q, wi, ms),
         NEW n, NEW data \in Bytes, NEW rest \in Bytes, Split(wi, n, data, rest)
  PROVE  /\ w + n \in 0 .. Len(T) /\ w \in Nat /\ n \in Nat /\ n >= 1 /\ Len(T) \in Nat
         /\ \A i \in 1 .. n : data[i] = T[w + i]
         /\ Standing(T, off, b, w + n, q \o data, rest, ms)
         /\ Standing(T, off, w + n, w + n, <<>>, rest, ms)
<1>1. /\ T \in Bytes /\ Offsets(off, T, ms) /\ (\A i \in 1 .. Len(ms) : ms[i] \in MessageAt(i))
      /\ w \in 0 .. Len(T) /\ b \in 0 .. w /\ Len(T) \in Nat
  BY LenProperties DEF Standing, Bytes
<1>2. /\ Len(wi) = Len(T) - w /\ \A j \in 1 .. (Len(T) - w) : wi[j] = T[w + j]
      /\ Len(q) = w - b /\ \A j \in 1 .. (w - b) : q[j] = T[b + j]
  BY DEF Standing, Window
<1>3. /\ n \in Nat /\ n >= 1 /\ n <= Len(wi) /\ Len(data) = n /\ Len(rest) = Len(wi) - n
      /\ (\A i \in 1 .. n : data[i] = wi[i]) /\ \A i \in 1 .. (Len(wi) - n) : rest[i] = wi[n + i]
  BY DEF Split
<1>4. w + n \in 0 .. Len(T) /\ w \in Nat /\ b \in 0 .. w + n
  BY <1>1, <1>2, <1>3
<1>5. \A i \in 1 .. n : data[i] = T[w + i]
  BY <1>1, <1>2, <1>3
<1>6. Window(rest, T, w + n, Len(T))
  <2>1. Len(rest) = Len(T) - (w + n)
    BY <1>1, <1>2, <1>3
  <2>2. ASSUME NEW j \in 1 .. (Len(T) - (w + n)) PROVE rest[j] = T[(w + n) + j]
    <3>1. j \in 1 .. (Len(wi) - n) /\ n + j \in 1 .. (Len(T) - w) /\ w + (n + j) = (w + n) + j
      BY <1>1, <1>2, <1>3
    <3> QED BY <1>2, <1>3, <3>1
  <2> QED BY <2>1, <2>2 DEF Window
<1>7. Window(q \o data, T, b, w + n)
  <2> DEFINE all == q \o data
  <2>1. /\ Len(all) = Len(q) + Len(data)
        /\ \A i \in 1 .. Len(q) + Len(data) : all[i] = IF i <= Len(q) THEN q[i] ELSE data[i - Len(q)]
    BY ConcatProperties DEF Bytes
  <2> HIDE DEF all
  <2>2. Len(all) = (w + n) - b
    BY <1>1, <1>2, <1>3, <2>1
  <2>3. ASSUME NEW j \in 1 .. ((w + n) - b) PROVE all[j] = T[b + j]
    <3>1. j \in 1 .. Len(q) + Len(data)
      BY <1>1, <1>2, <1>3
    <3>2. CASE j <= Len(q)
      <4>1. j \in 1 .. (w - b)
        BY <1>1, <1>2, <3>1, <3>2
      <4> QED BY <1>2, <2>1, <3>1, <3>2, <4>1
    <3>3. CASE ~(j <= Len(q))
      <4>1. j - Len(q) \in 1 .. n /\ w + (j - Len(q)) = b + j
        BY <1>1, <1>2, <1>3, <3>1, <3>3
      <4> QED BY <1>5, <2>1, <3>1, <3>3, <4>1
    <3> QED BY <3>2, <3>3
  <2> QED BY <2>2, <2>3 DEF Window, all
<1>8. Window(<<>>, T, w + n, w + n)
  <2>1. Len(<<>>) = 0 /\ (w + n) - (w + n) = 0
    BY <1>3, <1>4, EmptySeq
  <2> QED BY <2>1 DEF Window
<1>9. Standing(T, off, b, w + n, q \o data, rest, ms)
  BY <1>1, <1>4, <1>6, <1>7 DEF Standing
<1>10. Standing(T, off, w + n, w + n, <<>>, rest, ms)
  <2>1. w + n \in 0 .. w + n
    BY <1>3, <1>4
  <2> QED BY <1>1, <1>4, <1>6, <1>8, <2>1 DEF Standing
<1> QED BY <1>1, <1>3, <1>4, <1>5, <1>9, <1>10

\* No message is empty, so each begins where no other begins.
LEMMA OffsetsGrow ==
  ASSUME NEW T, NEW off, NEW b, NEW w, NEW q, NEW wi, NEW ms \in Seq(Bytes),
         Standing(T, off, b, w, q, wi, ms),
         NEW i \in 0 .. Len(ms), NEW j \in 0 .. Len(ms), i < j
  PROVE  off[i] \in Nat /\ off[j] \in Nat /\ off[i] + Len(ms[i + 1]) <= off[j] /\ off[i] < off[j]
<1>1. Len(ms) \in Nat /\ Offsets(off, T, ms)
  BY LenProperties DEF Standing
<1>2. i + 1 \in 1 .. Len(ms) /\ i + 1 \in 0 .. Len(ms) /\ (i + 1) - 1 = i /\ i + 1 <= j /\ i + 1 \in Nat
  BY <1>1
<1>3. off[i + 1] = off[i] + Len(ms[i + 1])
  BY <1>1, <1>2 DEF Offsets
<1>4. off[i] \in Nat /\ off[j] \in Nat /\ off[i + 1] <= off[j]
  BY <1>1, <1>2 DEF Offsets
<1>5. Len(ms[i + 1]) \in Nat /\ Len(ms[i + 1]) >= 2
  BY <1>2, MessageAtType DEF Standing
<1> QED BY <1>3, <1>4, <1>5

\* A byte that looks like the beginning of a message is one.
LEMMA StartIsAligned ==
  ASSUME NEW T, NEW off, NEW b, NEW w, NEW q, NEW wi, NEW ms \in Seq(Bytes),
         Standing(T, off, b, w, q, wi, ms), w + 1 <= Len(T), T[w + 1].kind = "start"
  PROVE  \E i \in 1 .. Len(ms) : off[i - 1] = w
<1>1. T \in Bytes /\ Offsets(off, T, ms) /\ Len(T) \in Nat /\ w \in 0 .. Len(T) /\ Len(ms) \in Nat
  BY LenProperties DEF Standing, Bytes
<1>2. w + 1 \in 1 .. Len(T)
  BY <1>1
<1>3. PICK i \in 1 .. Len(ms) : \E j \in 1 .. Len(ms[i]) : w + 1 = off[i - 1] + j
  BY <1>1, <1>2 DEF Offsets, Within
<1>4. PICK j \in 1 .. Len(ms[i]) : w + 1 = off[i - 1] + j
  BY <1>3
<1>5. i \in Nat /\ i - 1 \in 0 .. Len(ms)
  BY <1>1
<1>6. off[i - 1] \in Nat
  BY <1>1, <1>5 DEF Offsets
<1>7. ms[i][j].kind = "start"
  BY <1>1, <1>4 DEF Offsets
<1>8. ms[i] \in MessageAt(i)
  BY DEF Standing
<1>9. Len(ms[i]) \in Nat /\ \A x \in 2 .. Len(ms[i]) : ms[i][x].kind # "start"
  BY <1>5, <1>8, MessageAtType
<1>10. j = 1
  BY <1>7, <1>9
<1> QED BY <1>1, <1>4, <1>6, <1>10

\* The bytes from an aligned position on begin with the next message.
LEMMA AlignedHead ==
  ASSUME NEW T, NEW off, NEW b, NEW w, NEW q, NEW wi, NEW ms \in Seq(Bytes),
         Standing(T, off, b, w, q, wi, ms), NEW k \in 0 .. Len(ms), b = off[k],
         NEW x, x = k + 1, q # <<>>, q \in Bytes
  PROVE  /\ x \in 1 .. Len(ms) /\ ms[x] \in MessageAt(x) /\ BeginsWith(q, ms[x])
         /\ off[x] = b + Len(ms[x])
<1>1. /\ T \in Bytes /\ Offsets(off, T, ms) /\ Len(T) \in Nat /\ w \in 0 .. Len(T) /\ b \in 0 .. w
      /\ Len(ms) \in Nat
  BY LenProperties DEF Standing, Bytes
<1>2. k \in Nat /\ k <= Len(ms) /\ b = off[k]
  BY <1>1
<1>3. Len(q) = w - b /\ (\A j \in 1 .. (w - b) : q[j] = T[b + j]) /\ Len(q) \in Nat \ {0}
  BY EmptySeq DEF Standing, Window, Bytes
<1>4. k # Len(ms)
  <2>1. off[Len(ms)] = Len(T)
    BY <1>1 DEF Offsets
  <2>2. ASSUME k = Len(ms) PROVE FALSE
    <3>1. b = Len(T)
      BY <1>2, <2>1, <2>2
    <3> QED BY <1>1, <1>3, <3>1
  <2> QED BY <2>2
<1>5. x \in 1 .. Len(ms) /\ x - 1 = k /\ x \in Nat
  BY <1>1, <1>2, <1>4
<1>6. ms[x] \in MessageAt(x)
  BY <1>5 DEF Standing
<1>7. off[x] = b + Len(ms[x]) /\ \A j \in 1 .. Len(ms[x]) : T[b + j] = ms[x][j]
  BY <1>1, <1>2, <1>5 DEF Offsets
<1>8. Len(ms[x]) \in Nat
  BY <1>5, <1>6, MessageAtType
<1>9. ASSUME NEW j \in 1 .. Len(q), j <= Len(ms[x]) PROVE q[j] = ms[x][j]
  <2>1. j \in 1 .. (w - b) /\ j \in 1 .. Len(ms[x])
    BY <1>3, <1>8, <1>9
  <2> QED BY <1>3, <1>7, <2>1
<1> QED BY <1>5, <1>6, <1>7, <1>9 DEF BeginsWith

\* A segment that is not dropped continues the buffer or begins it with the
\* beginning of a message.
Aligned(st, pr, q, wi, ms) ==
  \E T, off, b, w, k :
    Standing(T, off, b, w, q, wi, ms) /\ Placed(st, off, b, w, k, pr, ms) /\ b = off[k]

LEMMA FollowsAligned ==
  ASSUME NEW st, NEW pr \in Seq(Bytes), NEW q \in Bytes, NEW wi \in Bytes, NEW ms \in Seq(Bytes),
         Follows(st, pr, q, wi, ms),
         NEW n, NEW data \in Bytes, NEW rest \in Bytes, Split(wi, n, data, rest),
         NEW h \in IsHttpHeader(data, n), ~Dropped(q, h), ~Misread(q, data, h)
  PROVE  Aligned(st, pr, q, wi, ms)
<1>1. PICK T, off, b, w, k :
        Standing(T, off, b, w, q, wi, ms) /\ Placed(st, off, b, w, k, pr, ms)
  BY DEF Follows
<1>2. CASE b = off[k]
  BY <1>1, <1>2 DEF Aligned
<1>3. CASE b # off[k]
  <2>0. /\ k \in 0 .. Len(ms) /\ Picked(pr, ms, k) /\ st = "gaps" /\ b = w /\ off[k] <= b
    BY <1>1, <1>3 DEF Placed
  <2>1. /\ w + n \in 0 .. Len(T) /\ w \in Nat /\ n \in Nat /\ n >= 1 /\ Len(T) \in Nat
        /\ \A i \in 1 .. n : data[i] = T[w + i]
    <3>1. Standing(T, off, b, w, q, wi, ms)
      BY <1>1
    <3>2. /\ w + n \in 0 .. Len(T) /\ w \in Nat /\ n \in Nat /\ n >= 1 /\ Len(T) \in Nat
          /\ \A i \in 1 .. n : data[i] = T[w + i]
          /\ Standing(T, off, b, w + n, q \o data, rest, ms)
          /\ Standing(T, off, w + n, w + n, <<>>, rest, ms)
      BY <3>1, StandingMoves
    <3> QED BY <3>2
  <2>2. q = <<>>
    <3>1. Len(q) = 0
      BY <1>1, <2>0, <2>1 DEF Standing, Window
    <3> QED BY <3>1, EmptySeq DEF Bytes
  <2>3. T[w + 1].kind = "start" /\ w + 1 <= Len(T)
    <3>1. h = TRUE /\ data[1].kind \notin {"text", "body"}
      BY <2>2 DEF Dropped, Misread, IsHttpHeader
    <3>2. data[1].kind \notin {"word", "length", "blank"}
      BY <2>1, <3>1 DEF IsHttpHeader
    <3>3. 1 \in 1 .. n /\ Len(data) = n
      BY <2>1 DEF Split
    <3>4. data[1] \in Symbol
      BY <3>3, ElementOfSeq DEF Bytes
    <3>5. data[1].kind = "start"
      BY <3>1, <3>2, <3>4 DEF Symbol
    <3> QED BY <2>1, <3>3, <3>5
  <2>4. PICK i \in 1 .. Len(ms) : off[i - 1] = w
    BY <1>1, <2>3, StartIsAligned
  <2>5. Len(ms) \in Nat /\ i - 1 \in 0 .. Len(ms) /\ k \in Nat /\ i - 1 \in Nat
    BY <2>0, LenProperties
  <2>6. k <= i - 1
    <3>1. ASSUME i - 1 < k PROVE FALSE
      <4>1. PICK l \in 0 .. Len(ms) : l = i - 1
        BY <2>5
      <4>2. off[l] \in Nat /\ off[k] \in Nat /\ off[l] < off[k]
        BY <1>1, <2>0, <3>1, <4>1, OffsetsGrow
      <4> QED BY <2>0, <2>4, <4>1, <4>2
    <3> QED BY <2>5, <3>1
  <2>7. Placed(st, off, b, w, i - 1, pr, ms) /\ b = off[i - 1]
    <3>1. Picked(pr, ms, i - 1)
      BY <2>0, <2>5, <2>6, PickedMore
    <3> QED BY <2>0, <2>4, <2>5, <3>1 DEF Placed
  <2> QED BY <1>1, <2>7 DEF Aligned
<1> QED BY <1>2, <1>3

\* A dropped segment that is not clipped is no beginning of a message, and
\* nothing was buffered.
LEMMA FollowsDropped ==
  ASSUME NEW st, NEW pr \in Seq(Bytes), NEW q \in Bytes, NEW wi \in Bytes, NEW ms \in Seq(Bytes),
         Follows(st, pr, q, wi, ms),
         NEW n, NEW data \in Bytes, NEW rest \in Bytes, Split(wi, n, data, rest),
         NEW h \in IsHttpHeader(data, n), Dropped(q, h), ~Clipped(q, data, h)
  PROVE  Follows(st, pr, q, rest, ms)
<1>1. PICK T, off, b, w, k :
        Standing(T, off, b, w, q, wi, ms) /\ Placed(st, off, b, w, k, pr, ms)
  BY DEF Follows
<1>2. q = <<>> /\ ~h
  BY DEF Dropped
<1>3. /\ w + n \in 0 .. Len(T) /\ w \in Nat /\ n \in Nat /\ n >= 1 /\ Len(T) \in Nat
      /\ Standing(T, off, b, w + n, q \o data, rest, ms)
      /\ Standing(T, off, w + n, w + n, <<>>, rest, ms)
  BY <1>1, StandingMoves
<1>4. ASSUME b = off[k] PROVE FALSE
  <2> DEFINE all == q \o data
  <2>1. all = data /\ Len(data) = n
    BY <1>2, ConcatEmptySeq DEF Bytes, Split
  <2> HIDE DEF all
  <2>2. data # <<>>
    BY <1>3, <2>1, EmptySeq
  <2>3. PICK v : v = w + n
    OBVIOUS
  <2>4. Standing(T, off, b, v, data, rest, ms)
    BY <1>3, <2>1, <2>3 DEF all
  <2>5. PICK x : x = k + 1
    OBVIOUS
  <2>6. k \in 0 .. Len(ms)
    BY <1>1 DEF Placed
  <2>7. x \in 1 .. Len(ms) /\ ms[x] \in MessageAt(x) /\ BeginsWith(data, ms[x])
    BY <1>4, <2>2, <2>4, <2>5, <2>6, AlignedHead
  <2>8. Len(ms[x]) >= 2 /\ ms[x][1].kind = "start" /\ Len(ms[x]) \in Nat
    BY <2>7, MessageAtType
  <2>9. data[1] = ms[x][1]
    <3>1. 1 \in 1 .. Len(data) /\ 1 <= Len(ms[x])
      BY <1>3, <2>1, <2>8
    <3> QED BY <2>7, <3>1 DEF BeginsWith
  <2>10. n # 1
    BY <1>2, <2>1, <2>8, <2>9 DEF Clipped
  <2>11. n > 1
    BY <1>3, <2>10
  <2> QED BY <1>2, <2>8, <2>9, <2>11 DEF IsHttpHeader
<1>5. k \in 0 .. Len(ms) /\ Picked(pr, ms, k) /\ st = "gaps" /\ b = w /\ off[k] <= b
  BY <1>1, <1>4 DEF Placed
<1>6. Placed(st, off, w + n, w + n, k, pr, ms)
  <2>1. off[k] \in Nat
    BY <1>1, <1>5 DEF Standing, Offsets
  <2>2. off[k] <= w + n
    BY <1>3, <1>5, <2>1
  <2> QED BY <1>5, <2>2 DEF Placed
<1> QED BY <1>2, <1>3, <1>6 DEF Follows

\* A segment that is missing where nothing was buffered.
LEMMA FollowsMissed ==
  ASSUME NEW st \in {"whole", "gaps"}, NEW pr, NEW wi \in Bytes, NEW ms \in Seq(Bytes),
         Follows(st, pr, <<>>, wi, ms),
         NEW n, NEW data \in Bytes, NEW rest \in Bytes, Split(wi, n, data, rest)
  PROVE  Follows("gaps", pr, <<>>, rest, ms)
<1>1. PICK T, off, b, w, k :
        Standing(T, off, b, w, <<>>, wi, ms) /\ Placed(st, off, b, w, k, pr, ms)
  BY DEF Follows
<1>2. <<>> \in Bytes /\ Len(<<>>) = 0
  BY EmptySeq DEF Bytes
<1>3. /\ w + n \in 0 .. Len(T) /\ w \in Nat /\ n \in Nat /\ n >= 1 /\ Len(T) \in Nat
      /\ Standing(T, off, b, w + n, <<>> \o data, rest, ms)
      /\ Standing(T, off, w + n, w + n, <<>>, rest, ms)
  BY <1>1, <1>2, StandingMoves
<1>4. k \in 0 .. Len(ms) /\ Picked(pr, ms, k) /\ (b = off[k] \/ off[k] <= b)
  BY <1>1 DEF Placed
<1>5. b \in 0 .. w /\ off[k] \in Nat
  BY <1>1, <1>4 DEF Standing, Offsets
<1>6. off[k] <= w + n
  BY <1>3, <1>4, <1>5
<1>7. Placed("gaps", off, w + n, w + n, k, pr, ms)
  BY <1>4, <1>6 DEF Placed
<1> QED BY <1>3, <1>7 DEF Follows

\* A segment that is taken: the bytes stay, or the message at the front of
\* them is cut off.
LEMMA FollowsTaken ==
  ASSUME NEW st, NEW pr \in Seq(Bytes), NEW q \in Bytes, NEW wi \in Bytes, NEW ms \in Seq(Bytes),
         Follows(st, pr, q, wi, ms),
         NEW n, NEW data \in Bytes, NEW rest \in Bytes, Split(wi, n, data, rest),
         NEW h \in IsHttpHeader(data, n), ~Dropped(q, h), ~Misread(q, data, h), AllHeadersFit(ms),
         NEW all, all = q \o data
  PROVE  /\ ~Parses(all) => Follows(st, pr, all, rest, ms)
         /\ Parses(all) =>
              /\ \E x \in 1 .. Len(ms) : MsgLength(all) = Len(ms[x])
              /\ Follows(st, Append(pr, SubSeq(all, 1, MsgLength(all))),
                         SubSeq(all, MsgLength(all) + 1, Len(all)), rest, ms)
<1>1. PICK T, off, b, w, k :
        Standing(T, off, b, w, q, wi, ms) /\ Placed(st, off, b, w, k, pr, ms) /\ b = off[k]
  <2>1. Aligned(st, pr, q, wi, ms)
    BY FollowsAligned
  <2> QED BY <2>1 DEF Aligned
<1>2. /\ w + n \in 0 .. Len(T) /\ w \in Nat /\ n \in Nat /\ n >= 1 /\ Len(T) \in Nat
      /\ Standing(T, off, b, w + n, q \o data, rest, ms)
      /\ Standing(T, off, w + n, w + n, <<>>, rest, ms)
  BY <1>1, StandingMoves
<1>3. all \in Bytes /\ Len(all) = Len(q) + Len(data) /\ Len(data) = n /\ Len(q) \in Nat
  BY ConcatProperties, LenProperties DEF Bytes, Split
<1>4. all # <<>>
  BY <1>2, <1>3, EmptySeq
<1>5. Standing(T, off, b, w + n, all, rest, ms)
  BY <1>2
<1>6. ~Parses(all) => Follows(st, pr, all, rest, ms)
  <2>1. Placed(st, off, b, w + n, k, pr, ms)
    BY <1>1 DEF Placed
  <2> QED BY <1>5, <2>1 DEF Follows
<1>7. ASSUME Parses(all)
      PROVE  /\ \E x \in 1 .. Len(ms) : MsgLength(all) = Len(ms[x])
             /\ Follows(st, Append(pr, SubSeq(all, 1, MsgLength(all))),
                        SubSeq(all, MsgLength(all) + 1, Len(all)), rest, ms)
  <2> DEFINE x == k + 1
             m == ms[x]
             L == Len(m)
             tail == SubSeq(all, L + 1, Len(all))
             head == SubSeq(all, 1, L)
             pr2 == Append(pr, head)
  <2>1. x \in 1 .. Len(ms) /\ m \in MessageAt(x) /\ BeginsWith(all, m) /\ off[x] = b + L
    <3>1. k \in 0 .. Len(ms) /\ b = off[k] /\ all \in Bytes
      BY <1>1, <1>3 DEF Placed
    <3>2. PICK v : v = w + n
      OBVIOUS
    <3>3. Standing(T, off, b, v, all, rest, ms)
      BY <1>5, <3>2
    <3>4. PICK y : y = k + 1
      OBVIOUS
    <3>5. y \in 1 .. Len(ms) /\ ms[y] \in MessageAt(y) /\ BeginsWith(all, ms[y])
          /\ off[y] = b + Len(ms[y])
      BY ONLY <1>4, <3>1, <3>3, <3>4, AlignedHead, ms \in Seq(Bytes)
    <3> QED BY <3>4, <3>5
  <2>2. x \in Nat /\ Len(ms) \in Nat /\ Len(pr) \in Nat /\ k \in Nat
    BY <1>1, <2>1, LenProperties DEF Placed
  <2>3. MsgLength(all) = L /\ L <= Len(all)
    <3>1. RemainPos(m) <= READ_BUF
      BY <2>1 DEF AllHeadersFit
    <3> QED BY <1>3, <1>7, <2>1, <2>2, <3>1, HeadMessage
  <2>4. m \in Bytes /\ L \in Nat
    BY <2>1, <2>2, MessageAtType
  <2>5. /\ tail \in Bytes /\ Len(tail) = Len(all) - L
        /\ (\A i \in 1 .. (Len(all) - L) : tail[i] = all[L + i])
        /\ head \in Bytes /\ Len(head) = L
        /\ \A i \in 1 .. L : head[i] = all[i]
    BY <1>3, <2>3, <2>4, CutBytes DEF Bytes
  <2> HIDE DEF x, m, L, tail, head
  <2>6. head = m
    <3>1. \A i \in 1 .. L : all[i] = m[i]
      <4>1. \A i \in 1 .. L : i \in 1 .. Len(all) /\ i <= Len(m)
        BY <1>3, <2>3, <2>4 DEF L
      <4> QED BY <2>1, <4>1 DEF BeginsWith
    <3>2. head \in Seq(Symbol) /\ m \in Seq(Symbol) /\ Len(head) = Len(m)
      BY <2>4, <2>5 DEF Bytes, L
    <3>3. \A i \in 1 .. Len(head) : head[i] = m[i]
      BY <2>5, <3>1
    <3> QED BY <3>2, <3>3, SeqEqual
  <2>7. /\ pr2 \in Seq(Bytes) /\ Len(pr2) = Len(pr) + 1 /\ pr2[Len(pr) + 1] = m
        /\ \A j \in 1 .. Len(pr) : pr2[j] = pr[j]
    BY <2>4, <2>6, AppendProperties
  <2> HIDE DEF pr2
  <2>8. /\ k \in 0 .. Len(ms) /\ Picked(pr, ms, k)
        /\ st = "whole" => k = Len(pr) /\ \A j \in 1 .. Len(pr) : pr[j] = ms[j]
    BY <1>1 DEF Placed
  <2>9. Placed(st, off, off[x], w + n, x, pr2, ms)
    <3>1. x \in 0 .. Len(ms) /\ x = k + 1
      BY <2>1, <2>2 DEF x
    <3>2. Picked(pr2, ms, x)
      BY <2>2, <2>4, <2>6, <2>8, <3>1, PickedAppend DEF m, pr2
    <3>3. ASSUME st = "whole" PROVE x = Len(pr2) /\ \A j \in 1 .. Len(pr2) : pr2[j] = ms[j]
      <4>1. x = Len(pr) + 1 /\ x = Len(pr2)
        BY <2>7, <2>8, <3>1, <3>3
      <4>2. \A j \in 1 .. Len(pr2) : j \in 1 .. Len(pr) \/ j = x
        BY <2>2, <2>7, <4>1
      <4> QED BY <2>7, <2>8, <3>3, <4>1, <4>2 DEF m
    <3> QED BY <3>1, <3>2, <3>3 DEF Placed
  <2>10. b \in Nat /\ b <= w + n /\ Len(all) = (w + n) - b
    BY <1>2, <1>5 DEF Standing, Window
  <2>11. off[x] \in 0 .. w + n /\ (w + n) - off[x] = Len(all) - L
    <3>1. PICK v : v = w + n
      OBVIOUS
    <3>2. PICK o : o = off[x]
      OBVIOUS
    <3>3. PICK z : z = Len(all)
      OBVIOUS
    <3>4. v \in Nat /\ b \in Nat /\ L \in Nat /\ z \in Nat
      BY <1>2, <1>3, <2>4, <2>10, <3>1, <3>3
    <3>5. o = b + L /\ L <= z /\ z = v - b
      BY <2>1, <2>3, <2>10, <3>1, <3>2, <3>3
    <3>6. o \in 0 .. v /\ v - o = z - L
      BY ONLY <3>4, <3>5
    <3> QED BY <3>1, <3>2, <3>3, <3>6
  <2>12. Window(tail, T, off[x], w + n)
    <3>1. ASSUME NEW j \in 1 .. ((w + n) - off[x]) PROVE tail[j] = T[off[x] + j]
      <4>1. j \in 1 .. (Len(all) - L) /\ L + j \in 1 .. ((w + n) - b) /\ b + (L + j) = off[x] + j
        <5>1. j \in 1 .. (Len(all) - L) /\ j \in Nat
          BY <1>2, <2>11
        <5>2. Len(all) \in Nat /\ L \in Nat /\ b \in Nat /\ off[x] = b + L /\ Len(all) = (w + n) - b
          <6>1. Len(all) \in Nat
            BY <1>2, <1>3
          <6> QED BY <2>1, <2>4, <2>10, <6>1
        <5> QED BY <5>1, <5>2
      <4>2. all[L + j] = T[b + (L + j)]
        BY <1>5, <4>1 DEF Standing, Window
      <4> QED BY <2>5, <4>1, <4>2
    <3> QED BY <2>5, <2>11, <3>1 DEF Window
  <2>13. Standing(T, off, off[x], w + n, tail, rest, ms)
    BY <1>5, <2>11, <2>12 DEF Standing
  <2>14. Follows(st, pr2, tail, rest, ms)
    BY <2>9, <2>13 DEF Follows
  <2>15. MsgLength(all) = L /\ \E y \in 1 .. Len(ms) : MsgLength(all) = Len(ms[y])
    BY <2>1, <2>3 DEF L, m
  <2> QED BY <2>14, <2>15 DEF pr2, tail, head
<1> QED BY <1>6, <1>7

-----------------------------------------------------------------------------
(***************************************************************************)
(* What a step does to one stream.                                         *)
(***************************************************************************)
StaysAsIs(s) ==
  /\ Held(s)' = Held(s) /\ printed'[s] = printed[s] /\ wire'[s] = wire[s]
  /\ sent'[s] = sent[s] /\ status'[s] = status[s]

IsSent(s) ==
  /\ Held(s)' = Held(s) /\ printed'[s] = printed[s] /\ status'[s] = status[s]
  /\ Pipelining \/ wire[s] = <<>>
  /\ \E m \in MessageAt(Len(sent[s]) + 1) :
       sent'[s] = Append(sent[s], m) /\ wire'[s] = wire[s] \o m

IsMissed(s, n, data, rest) ==
  /\ Split(wire[s], n, data, rest) /\ wire'[s] = rest /\ sent'[s] = sent[s]
  /\ Held(s)' = Held(s) /\ printed'[s] = printed[s] /\ status'[s] = Missed(s)

IsTaken(s, n, data, rest, h) ==
  /\ Split(wire[s], n, data, rest) /\ wire'[s] = rest /\ sent'[s] = sent[s]
  /\ h \in IsHttpHeader(data, n) /\ Takes(s, data, h)
  /\ ~Clipped(Held(s), data, h) /\ ~Misread(Held(s), data, h)
  /\ status'[s] = IF status[s] # "torn" /\ Refused(Held(s), data, h) THEN "refused" ELSE status[s]

Moves(s) ==
  \/ StaysAsIs(s)
  \/ IsSent(s)
  \/ \E n \in Nat : \E data, rest \in Bytes :
       IsMissed(s, n, data, rest) \/ \E h \in BOOLEAN : IsTaken(s, n, data, rest, h)
  \/ status'[s] = "torn"

\* The process can only die when a segment is taken.
Survives ==
  \/ running' = running
  \/ \E s \in Stream :
       \/ status'[s] = "torn"
       \/ \E n \in Nat : \E data, rest \in Bytes : \E h \in BOOLEAN : IsTaken(s, n, data, rest, h)

LEMMA StepOfStream ==
  ASSUME ParseType, [Next]_vars
  PROVE  (\A s \in Stream : Moves(s)) /\ Survives
<1>1. ASSUME UNCHANGED <<m_sessions, running, printed, trafficVars>>
      PROVE  (\A s \in Stream : Moves(s)) /\ Survives
  BY <1>1 DEF Moves, StaysAsIs, Survives, Held, Buffered, trafficVars
<1>2. CASE InitParsePkg \/ CaptureOther \/ UNCHANGED vars
  <2>1. UNCHANGED <<m_sessions, running, printed, trafficVars>>
    BY <1>2, OtherInput DEF InitParsePkg, vars, parserVars
  <2> QED BY <1>1, <2>1
<1>3. ASSUME NEW t \in Stream, Send(t)
      PROVE  (\A s \in Stream : Moves(s)) /\ Survives
  <2>1. /\ UNCHANGED <<m_inited, m_sessions, running, printed, status>>
        /\ Pipelining \/ wire[t] = <<>>
        /\ \E m \in MessageAt(Len(sent[t]) + 1) :
              /\ sent' = [sent EXCEPT ![t] = Append(sent[t], m)]
              /\ wire' = [wire EXCEPT ![t] = wire[t] \o m]
    BY <1>3, SendEffect
  <2>2. PICK m \in MessageAt(Len(sent[t]) + 1) :
              /\ sent' = [sent EXCEPT ![t] = Append(sent[t], m)]
              /\ wire' = [wire EXCEPT ![t] = wire[t] \o m]
    BY <2>1
  <2>3. sent'[t] = Append(sent[t], m) /\ wire'[t] = wire[t] \o m
    BY <2>2 DEF ParseType
  <2>4. \A s \in Stream \ {t} : sent'[s] = sent[s] /\ wire'[s] = wire[s]
    BY <2>2 DEF ParseType
  <2>5. \A s \in Stream : Held(s)' = Held(s)
    BY <2>1 DEF Held, Buffered
  <2>6. IsSent(t)
    BY <2>1, <2>3, <2>5 DEF IsSent
  <2>7. \A s \in Stream \ {t} : StaysAsIs(s)
    BY <2>1, <2>4, <2>5 DEF StaysAsIs
  <2> QED BY <2>1, <2>6, <2>7 DEF Moves, Survives
<1>4. ASSUME NEW t \in Stream, Lose(t)
      PROVE  (\A s \in Stream : Moves(s)) /\ Survives
  <2>1. PICK n \in 1 .. Len(wire[t]) :
          wire' = [wire EXCEPT ![t] = SubSeq(wire[t], n + 1, Len(wire[t]))]
    BY <1>4 DEF Lose, ParseType
  <2> DEFINE data == SubSeq(wire[t], 1, n)
             rest == SubSeq(wire[t], n + 1, Len(wire[t]))
  <2>2. Split(wire[t], n, data, rest) /\ data \in Bytes /\ rest \in Bytes /\ n \in Nat
    BY WireSplit, RestOfWire
  <2>3. wire'[t] = rest /\ status'[t] = Missed(t) /\ sent' = sent
    BY <1>4, <2>1 DEF Lose, ParseType
  <2>4. \A s \in Stream \ {t} : status'[s] = status[s] /\ wire'[s] = wire[s]
    BY <1>4, <2>1 DEF Lose, ParseType
  <2>5. UNCHANGED <<m_inited, m_sessions, running, printed>> /\ \A s \in Stream : Held(s)' = Held(s)
    BY <1>4 DEF Lose, parserVars, Held, Buffered
  <2> HIDE DEF data, rest
  <2>6. IsMissed(t, n, data, rest)
    BY <2>2, <2>3, <2>5 DEF IsMissed
  <2>7. \A s \in Stream \ {t} : StaysAsIs(s)
    BY <2>3, <2>4, <2>5 DEF StaysAsIs
  <2>8. Moves(t)
    BY <2>2, <2>6 DEF Moves
  <2> QED BY <2>5, <2>7, <2>8 DEF Moves, Survives
<1>5. ASSUME NEW t \in Stream, Capture(t)
      PROVE  (\A s \in Stream : Moves(s)) /\ Survives
  <2>1. PICK n \in 1 .. Len(wire[t]) : \E h \in IsHttpHeader(Segment(t, n).data, Segment(t, n).len) :
          /\ InputPkg(Segment(t, n), h)
          /\ wire' = [wire EXCEPT ![t] = SubSeq(wire[t], n + 1, Len(wire[t]))]
          /\ status' = [status EXCEPT ![t] =
               IF ~m_inited \/ Clipped(Held(t), Segment(t, n).data, h) THEN Missed(t)
               ELSE IF Misread(Held(t), Segment(t, n).data, h) THEN "torn"
               ELSE IF status[t] # "torn" /\ Refused(Held(t), Segment(t, n).data, h)
               THEN "refused" ELSE status[t]]
          /\ sent' = sent
    BY <1>5 DEF Capture, ParseType, Held
  <2> DEFINE data == SubSeq(wire[t], 1, n)
             rest == SubSeq(wire[t], n + 1, Len(wire[t]))
  <2>2. Split(wire[t], n, data, rest) /\ data \in Bytes /\ rest \in Bytes /\ n \in Nat
    BY WireSplit, RestOfWire
  <2>3. Segment(t, n).data = data /\ Segment(t, n).len = n
    BY DEF Segment, Frame
  <2>4. PICK h \in IsHttpHeader(data, n) :
        /\ InputPkg(Segment(t, n), h)
        /\ wire' = [wire EXCEPT ![t] = rest]
        /\ status' = [status EXCEPT ![t] =
             IF ~m_inited \/ Clipped(Held(t), data, h) THEN Missed(t)
             ELSE IF Misread(Held(t), data, h) THEN "torn"
             ELSE IF status[t] # "torn" /\ Refused(Held(t), data, h)
             THEN "refused" ELSE status[t]]
        /\ sent' = sent
    BY <2>1, <2>3
  <2>5. \/ ~m_inited /\ m_sessions' = m_sessions /\ running' = running /\ printed' = printed
        \/ m_inited /\ Takes(t, data, h) /\ Elsewhere(t)
    BY <2>4, SegmentInput
  <2>6. h \in BOOLEAN
    BY <2>4 DEF IsHttpHeader
  <2> HIDE DEF data, rest
  <2>7. /\ wire'[t] = rest /\ sent' = sent
        /\ status'[t] = IF ~m_inited \/ Clipped(Held(t), data, h) THEN Missed(t)
                        ELSE IF Misread(Held(t), data, h) THEN "torn"
                        ELSE IF status[t] # "torn" /\ Refused(Held(t), data, h)
                        THEN "refused" ELSE status[t]
        /\ \A s \in Stream \ {t} : status'[s] = status[s] /\ wire'[s] = wire[s]
    BY <2>4 DEF ParseType
  <2>8. CASE ~m_inited /\ m_sessions' = m_sessions /\ running' = running /\ printed' = printed
    <3>1. \A s \in Stream : Held(s)' = Held(s)
      BY <2>8 DEF Held, Buffered
    <3>2. IsMissed(t, n, data, rest)
      BY <2>2, <2>7, <2>8, <3>1 DEF IsMissed
    <3>3. \A s \in Stream \ {t} : StaysAsIs(s)
      BY <2>7, <2>8, <3>1 DEF StaysAsIs
    <3>4. Moves(t)
      BY <2>2, <3>2 DEF Moves
    <3> QED BY <2>8, <3>3, <3>4 DEF Moves, Survives
  <2>9. CASE m_inited /\ Takes(t, data, h) /\ Elsewhere(t)
    <3>1. \A s \in Stream \ {t} : StaysAsIs(s)
      BY <2>7, <2>9 DEF StaysAsIs, Elsewhere
    <3>2. Moves(t) /\ Survives
      <4>1. CASE Clipped(Held(t), data, h)
        <5>1. Dropped(Held(t), h) /\ TakesAs(t, Held(t), data, Held(t) \o data, h)
          BY <2>9, <4>1 DEF Clipped, Dropped, Takes
        <5>2. Held(t)' = Held(t) /\ printed'[t] = printed[t] /\ running' = running
          BY <5>1 DEF TakesAs
        <5>3. IsMissed(t, n, data, rest)
          BY <2>2, <2>7, <4>1, <5>2 DEF IsMissed
        <5> QED BY <2>2, <5>2, <5>3 DEF Moves, Survives
      <4>2. CASE ~Clipped(Held(t), data, h) /\ Misread(Held(t), data, h)
        <5>1. status'[t] = "torn"
          BY <2>7, <2>9, <4>2
        <5> QED BY <5>1 DEF Moves, Survives
      <4>3. CASE ~Clipped(Held(t), data, h) /\ ~Misread(Held(t), data, h)
        <5>1. IsTaken(t, n, data, rest, h)
          BY <2>2, <2>4, <2>7, <2>9, <4>3 DEF IsTaken
        <5> QED BY <2>2, <2>6, <5>1 DEF Moves, Survives
      <4> QED BY <4>1, <4>2, <4>3
    <3> QED BY <3>1, <3>2 DEF Moves
  <2> QED BY <2>5, <2>8, <2>9
<1>6. ASSUME NEW t \in Stream, CaptureTwice(t)
      PROVE  (\A s \in Stream : Moves(s)) /\ Survives
  <2>1. PICK n \in 1 .. Len(wire[t]), h \in BOOLEAN : InputPkg(Segment(t, n), h)
    BY <1>6 DEF CaptureTwice, IsHttpHeader
  <2>2. /\ status'[t] = "torn" /\ wire' = wire /\ sent' = sent /\ m_inited
        /\ \A s \in Stream \ {t} : status'[s] = status[s]
    BY <1>6 DEF CaptureTwice, ParseType
  <2>3. Elsewhere(t)
    BY <2>1, <2>2, SegmentInput
  <2>4. \A s \in Stream \ {t} : StaysAsIs(s)
    BY <2>2, <2>3 DEF StaysAsIs, Elsewhere
  <2> QED BY <2>2, <2>4 DEF Moves, Survives
<1>7. ASSUME NEW t \in Stream, CaptureNegative(t)
      PROVE  (\A s \in Stream : Moves(s)) /\ Survives
  <2>1. PICK h : InputPkg(NegativeSegment(t), h)
    BY <1>7 DEF CaptureNegative
  <2>2. /\ status'[t] = "torn" /\ wire' = wire /\ sent' = sent
        /\ \A s \in Stream \ {t} : status'[s] = status[s]
    BY <1>7 DEF CaptureNegative, ParseType
  <2>3. printed' = printed /\ \A s \in Stream : Held(s)' = Held(s)
    BY <2>1, NegativeInput
  <2>4. \A s \in Stream \ {t} : StaysAsIs(s)
    BY <2>2, <2>3 DEF StaysAsIs
  <2> QED BY <2>2, <2>4 DEF Moves, Survives
<1> QED BY <1>2, <1>3, <1>4, <1>5, <1>6, <1>7 DEF Next

\* What is missing or comes twice is never made up for.
LEMMA StatusStep ==
  ASSUME ParseType, NEW s \in Stream, Moves(s), status'[s] \in {"whole", "gaps"}
  PROVE  status[s] \in {"whole", "gaps"}
<1>1. ASSUME NEW n, NEW data, NEW rest, IsMissed(s, n, data, rest)
      PROVE  status[s] \in {"whole", "gaps"}
  BY <1>1 DEF IsMissed, Missed
<1>2. ASSUME NEW n, NEW data, NEW rest, NEW h, IsTaken(s, n, data, rest, h)
      PROVE  status[s] \in {"whole", "gaps"}
  BY <1>2 DEF IsTaken
<1> QED BY <1>1, <1>2 DEF Moves, StaysAsIs, IsSent

-----------------------------------------------------------------------------
(***************************************************************************)
(* Messages are framed right.                                              *)
(***************************************************************************)
Framed(s) ==
  status[s] \in {"whole", "gaps"} /\ HeadersFit(s) =>
    Follows(status[s], printed[s], Held(s), wire[s], sent[s])

FramedInv == \A s \in Stream : Framed(s)

LEMMA FramedInit == Init => FramedInv
<1> SUFFICES ASSUME Init, NEW s \in Stream PROVE Framed(s)
  BY DEF FramedInv
<1>1. /\ status[s] = "whole" /\ printed[s] = <<>> /\ wire[s] = <<>> /\ sent[s] = <<>>
      /\ Held(s) = <<>>
  BY DEF Init, Held, Buffered
<1> DEFINE off == [i \in 0 .. 0 |-> 0]
<1>2. Len(<<>>) = 0 /\ 0 .. 0 = {0} /\ 1 .. 0 = {} /\ <<>> \in Bytes
  BY EmptySeq DEF Bytes
<1>3. Offsets(off, <<>>, <<>>)
  BY <1>2 DEF Offsets
<1>4. Standing(<<>>, off, 0, 0, <<>>, <<>>, <<>>)
  BY <1>2, <1>3 DEF Standing, Window
<1>5. Placed("whole", off, 0, 0, 0, <<>>, <<>>)
  <2>1. Picked(<<>>, <<>>, 0)
    <3>1. <<>> \in [1 .. 0 -> 1 .. 0]
      BY <1>2
    <3> QED BY <1>2, <3>1 DEF Picked
  <2> QED BY <1>2, <2>1 DEF Placed
<1>6. Follows("whole", <<>>, <<>>, <<>>, <<>>)
  BY <1>4, <1>5 DEF Follows
<1> QED BY <1>1, <1>6 DEF Framed

\* What is sent stays sent.
LEMMA SentBefore ==
  ASSUME ParseType, NEW s \in Stream, Moves(s), status'[s] # "torn"
  PROVE  \A i \in 1 .. Len(sent[s]) : i \in 1 .. Len(sent'[s]) /\ sent'[s][i] = sent[s][i]
<1>1. sent'[s] = sent[s] \/ \E m \in MessageAt(Len(sent[s]) + 1) : sent'[s] = Append(sent[s], m)
  BY DEF Moves, StaysAsIs, IsSent, IsMissed, IsTaken
<1>2. CASE sent'[s] = sent[s]
  BY <1>2
<1>3. ASSUME NEW m \in MessageAt(Len(sent[s]) + 1), sent'[s] = Append(sent[s], m)
      PROVE  \A i \in 1 .. Len(sent[s]) : i \in 1 .. Len(sent'[s]) /\ sent'[s][i] = sent[s][i]
  <2>1. sent[s] \in Seq(Bytes) /\ Len(sent[s]) \in Nat
    BY HeldType, LenProperties
  <2>2. m \in Bytes
    BY <2>1, MessageAtType
  <2>3. /\ Len(sent'[s]) = Len(sent[s]) + 1
        /\ \A i \in 1 .. Len(sent[s]) : sent'[s][i] = sent[s][i]
    BY <1>3, <2>1, <2>2, AppendProperties
  <2>4. \A i \in 1 .. Len(sent[s]) : i \in 1 .. Len(sent'[s])
    BY <2>1, <2>3
  <2> QED BY <2>3, <2>4
<1> QED BY <1>1, <1>2, <1>3

LEMMA HeadersFitBefore ==
  ASSUME ParseType, NEW s \in Stream, Moves(s), HeadersFit(s)', status'[s] # "torn"
  PROVE  HeadersFit(s)
BY SentBefore DEF HeadersFit

LEMMA FramedStep ==
  ASSUME ParseType, NEW s \in Stream, Moves(s), Framed(s)
  PROVE  Framed(s)'
<1> SUFFICES ASSUME status'[s] \in {"whole", "gaps"}, HeadersFit(s)'
             PROVE  Follows(status'[s], printed'[s], Held(s)', wire'[s], sent'[s])
  BY DEF Framed
<1> DEFINE st == status[s]
           pr == printed[s]
           q == Held(s)
           wi == wire[s]
           ms == sent[s]
<1>1. pr \in Seq(Bytes) /\ q \in Bytes /\ wi \in Bytes /\ ms \in Seq(Bytes)
  BY HeldType
<1>2. st \in {"whole", "gaps"} /\ Follows(st, pr, q, wi, ms) /\ AllHeadersFit(ms)
  <2>1. HeadersFit(s)
    BY HeadersFitBefore
  <2> QED BY <2>1, StatusStep DEF Framed, HeadersFit, AllHeadersFit
<1>3. CASE StaysAsIs(s)
  BY <1>2, <1>3 DEF StaysAsIs
<1>4. CASE IsSent(s)
  <2>1. PICK m \in MessageAt(Len(ms) + 1) : sent'[s] = Append(ms, m) /\ wire'[s] = wi \o m
    BY <1>4 DEF IsSent
  <2>2. Follows(st, pr, q, wi \o m, Append(ms, m))
    BY <1>1, <1>2, FollowsSend
  <2> QED BY <1>4, <2>1, <2>2 DEF IsSent
<1>5. ASSUME NEW n \in Nat, NEW data \in Bytes, NEW rest \in Bytes, IsMissed(s, n, data, rest)
      PROVE  Follows(status'[s], printed'[s], Held(s)', wire'[s], sent'[s])
  <2>1. status'[s] = "gaps" /\ q = <<>>
    BY <1>5 DEF IsMissed, Missed, Held
  <2>2. Split(wi, n, data, rest)
    BY <1>5 DEF IsMissed
  <2>3. Follows("gaps", pr, <<>>, rest, ms)
    BY <1>1, <1>2, <2>1, <2>2, FollowsMissed
  <2> QED BY <1>5, <2>1, <2>3 DEF IsMissed
<1>6. ASSUME NEW n \in Nat, NEW data \in Bytes, NEW rest \in Bytes, NEW h \in BOOLEAN,
             IsTaken(s, n, data, rest, h)
      PROVE  Follows(status'[s], printed'[s], Held(s)', wire'[s], sent'[s])
  <2> DEFINE all == q \o data
  <2>1. /\ Split(wi, n, data, rest) /\ wire'[s] = rest /\ sent'[s] = ms
        /\ status'[s] = st /\ ~Refused(q, data, h) /\ h \in IsHttpHeader(data, n)
        /\ ~Clipped(q, data, h) /\ ~Misread(q, data, h)
    BY <1>2, <1>6 DEF IsTaken
  <2>2. TakesAs(s, q, data, all, h)
    BY <1>6 DEF IsTaken, Takes
  <2>3. CASE Dropped(q, h)
    <3>1. Follows(st, pr, q, rest, ms)
      BY <1>1, <1>2, <2>1, <2>3, FollowsDropped
    <3>2. Held(s)' = q /\ printed'[s] = pr
      BY <2>2, <2>3 DEF TakesAs
    <3> QED BY <2>1, <3>1, <3>2
  <2>4. CASE ~Dropped(q, h)
    <3>1. /\ ~Parses(all) => Follows(st, pr, all, rest, ms)
          /\ Parses(all) => Follows(st, Append(pr, SubSeq(all, 1, MsgLength(all))),
                                    SubSeq(all, MsgLength(all) + 1, Len(all)), rest, ms)
      BY <1>1, <1>2, <2>1, <2>4, FollowsTaken
    <3> HIDE DEF all, q
    <3>2. CASE Parses(all)
      BY <2>1, <2>2, <2>4, <3>1, <3>2 DEF TakesAs
    <3>3. CASE ~Parses(all)
      BY <2>1, <2>2, <2>4, <3>1, <3>3 DEF TakesAs
    <3> QED BY <3>2, <3>3
  <2> QED BY <2>3, <2>4
<1> QED BY <1>3, <1>4, <1>5, <1>6 DEF Moves

\* What the position of a stream says about what is printed of it.
LEMMA FollowsPrinted ==
  ASSUME NEW st, NEW pr \in Seq(Bytes), NEW q \in Bytes, NEW wi \in Bytes, NEW ms \in Seq(Bytes),
         Follows(st, pr, q, wi, ms)
  PROVE  /\ st = "whole" => IsPrefix(pr, ms)
         /\ Selected(pr, ms)
<1>1. Len(pr) \in Nat /\ Len(ms) \in Nat
  BY LenProperties
<1>2. PICK T, off, b, w, k : Placed(st, off, b, w, k, pr, ms)
  BY DEF Follows
<1>3. /\ k \in 0 .. Len(ms) /\ Picked(pr, ms, k) /\ k \in Nat /\ k <= Len(ms)
      /\ st = "whole" => k = Len(pr) /\ \A j \in 1 .. Len(pr) : pr[j] = ms[j]
  BY <1>1, <1>2 DEF Placed
<1>4. Selected(pr, ms)
  <2>1. Picked(pr, ms, Len(ms))
    BY <1>1, <1>3, PickedMore
  <2> QED BY <2>1 DEF Picked, Selected
<1>5. ASSUME st = "whole" PROVE IsPrefix(pr, ms)
  <2> DEFINE part == SubSeq(ms, 1, Len(pr))
  <2>1. Len(pr) <= Len(ms)
    BY <1>3, <1>5
  <2>2. part \in Seq(Bytes) /\ Len(part) = Len(pr) /\ \A i \in 1 .. Len(pr) : part[i] = ms[i]
    BY <1>1, <2>1, CutBytes
  <2> HIDE DEF part
  <2>3. \A i \in 1 .. Len(pr) : pr[i] = part[i]
    BY <1>3, <1>5, <2>2
  <2>4. pr = part
    BY <2>2, <2>3, SeqEqual
  <2>5. SubSeq(pr, 1, Len(pr)) = pr
    BY <1>1, SubSeqFull
  <2> QED BY <2>1, <2>4, <2>5 DEF IsPrefix, part
<1> QED BY <1>4, <1>5

(***************************************************************************)
(* The captured traffic keeps its form: whatever segments come, the        *)
(* sessions, the wire and the histories hold sequences of the symbols.     *)
(***************************************************************************)
THEOREM ParseTypeCorrect == Spec => []ParseType
<1>1. Init => ParseType
  BY InitType
<1>2. ParseType /\ [Next]_vars => ParseType'
  BY NextType
<1> QED BY <1>1, <1>2, PTL DEF Spec

(***************************************************************************)
(* A message without Content-Length is never taken out of the buffer, so   *)
(* no step prints anything more of its stream: ParseHttpPkg returns early  *)
(* for as long as the buffer begins with it.                               *)
(***************************************************************************)
THEOREM ParseBlockedForGood == Spec => BlockedForGood
<1>1. ParseType /\ [Next]_vars =>
        [\A s \in Stream : Blocked(s[1], s[2]) =>
           printed'[s] = printed[s] /\ Blocked(s[1], s[2])']_vars
  BY BlockedStep
<1> QED BY <1>1, ParseTypeCorrect, PTL DEF Spec, BlockedForGood

\* The position of every stream, as an invariant.
THEOREM ParseFramed == Spec => []FramedInv
<1>1. Init => FramedInv
  BY FramedInit
<1>2. ParseType /\ FramedInv /\ [Next]_vars => FramedInv'
  <2> SUFFICES ASSUME ParseType, FramedInv, [Next]_vars PROVE FramedInv'
    OBVIOUS
  <2>1. \A s \in Stream : Moves(s) /\ Framed(s)
    BY StepOfStream DEF FramedInv
  <2>2. ASSUME NEW s \in Stream PROVE Framed(s)'
    BY <2>1, FramedStep
  <2> QED BY <2>2 DEF FramedInv
<1> QED BY <1>1, <1>2, ParseTypeCorrect, PTL DEF Spec

(***************************************************************************)
(* However the bytes of a stream are cut into segments, and whatever       *)
(* happens to other streams, what ParseHttpPkg cuts out of it are the      *)
(* messages that were sent, whole and in order, as long as their headers   *)
(* fit read_buf.  After bytes were lost where nothing was buffered, a      *)
(* first segment clipped within its first word included, they are still    *)
(* messages that were sent, in order and each once.                        *)
(***************************************************************************)
THEOREM ParseFramedRight == Spec => []FramedRight
<1>1. ParseType /\ FramedInv => FramedRight
  <2> SUFFICES ASSUME ParseType, FramedInv, NEW s \in Stream, HeadersFit(s)
               PROVE  /\ status[s] = "whole" => IsPrefix(printed[s], sent[s])
                      /\ status[s] = "gaps" => Selected(printed[s], sent[s])
    BY DEF FramedRight
  <2>1. status[s] \in {"whole", "gaps"} =>
          Follows(status[s], printed[s], Held(s), wire[s], sent[s])
    BY DEF FramedInv, Framed
  <2>2. Held(s) \in Bytes /\ wire[s] \in Bytes /\ printed[s] \in Seq(Bytes) /\ sent[s] \in Seq(Bytes)
    BY HeldType
  <2>3. ASSUME status[s] \in {"whole", "gaps"}
        PROVE  (status[s] = "whole" => IsPrefix(printed[s], sent[s])) /\ Selected(printed[s], sent[s])
    <3>1. Follows(status[s], printed[s], Held(s), wire[s], sent[s])
      BY <2>1, <2>3
    <3> QED BY <2>2, <3>1, FollowsPrinted
  <2> QED BY <2>3
<1> QED BY <1>1, ParseTypeCorrect, ParseFramed, PTL

\* A message is at least as long as its header.
LEMMA HeaderInMessage ==
  ASSUME NEW i \in Nat, NEW m \in MessageAt(i)
  PROVE  RemainPos(m) \in Nat /\ Len(m) \in Nat /\ RemainPos(m) <= Len(m)
<1>1. m \in Bytes /\ Len(m) \in Nat
  BY MessageAtType
<1>2. \E r \in 1 .. Len(m) : m[r].kind = "blank"
  <2>1. CASE m = BareMessage(i)
    <3>1. Len(m) = 3 /\ m[3] = BlankLine /\ 3 \in 1 .. 3
      BY <2>1, BareShape
    <3> QED BY <3>1, SymbolTypes
  <2>2. ASSUME NEW p, NEW r, NEW k, Shaped(m, i, p, r, k)
        PROVE  \E x \in 1 .. Len(m) : m[x].kind = "blank"
    <3>1. r \in 1 .. Len(m) /\ m[r] = BlankLine
      BY <2>2 DEF Shaped
    <3> QED BY <3>1, SymbolTypes
  <2> QED BY <2>1, <2>2, MessageForms
<1>3. /\ RemainPos(m) \in 1 .. Len(m) + 1
      /\ \A x \in 1 .. Len(m) : x < RemainPos(m) => m[x].kind # "blank"
  BY <1>1, RemainPosIsFirst
<1> QED BY <1>1, <1>2, <1>3

\* Only messages of the traffic are sent.
SentForms == \A s \in Stream : \A i \in 1 .. Len(sent[s]) : sent[s][i] \in MessageAt(i)

THEOREM ParseSentForms == Spec => []SentForms
<1>1. Init => SentForms
  <2>1. Len(<<>>) = 0
    BY EmptySeq
  <2> QED BY <2>1 DEF Init, SentForms
<1>2. ASSUME ParseType, SentForms, [Next]_vars PROVE SentForms'
  <2>1. CASE sent' = sent
    BY <1>2, <2>1 DEF SentForms
  <2>2. ASSUME NEW t \in Stream, Send(t) PROVE SentForms'
    <3>1. PICK m \in MessageAt(Len(sent[t]) + 1) : sent' = [sent EXCEPT ![t] = Append(sent[t], m)]
      BY <1>2, <2>2, SendEffect
    <3>2. sent[t] \in Seq(Bytes) /\ Len(sent[t]) \in Nat
      BY <1>2, HeldType, LenProperties
    <3>3. m \in Bytes
      BY <3>2, MessageAtType
    <3>4. \A s \in Stream \ {t} : sent'[s] = sent[s]
      BY <3>1
    <3>5. sent'[t] = Append(sent[t], m)
      BY <1>2, <3>1 DEF ParseType
    <3>6. \A i \in 1 .. Len(sent'[t]) : sent'[t][i] \in MessageAt(i)
      <4> DEFINE ms == sent[t]
                 n == Len(ms)
      <4>1. Len(sent'[t]) = n + 1 /\ sent'[t][n + 1] = m /\ \A i \in 1 .. n : sent'[t][i] = ms[i]
        BY <3>2, <3>3, <3>5, AppendProperties
      <4>2. \A i \in 1 .. n : ms[i] \in MessageAt(i)
        BY <1>2 DEF SentForms
      <4>3. m \in MessageAt(n + 1)
        BY <3>1
      <4>4. \A i \in 1 .. n + 1 : i \in 1 .. n \/ i = n + 1
        BY <3>2
      <4> HIDE DEF n, ms
      <4> QED BY <4>1, <4>2, <4>3, <4>4
    <3> QED BY <1>2, <3>4, <3>6 DEF SentForms
  <2>3. sent' = sent \/ \E t \in Stream : Send(t)
    BY <1>2, OtherInput DEF Next, InitParsePkg, Capture, Lose, CaptureTwice, CaptureNegative, vars, trafficVars
  <2> QED BY <2>1, <2>2, <2>3
<1> QED BY <1>1, <1>2, ParseTypeCorrect, PTL DEF Spec

(***************************************************************************)
(* The messages that OutputTcpPkg writes behind read_buf are the ones that *)
(* are longer than it: while every message that was sent is at most as     *)
(* long, and no byte is missing inside a stream, what ParseHttpPkg takes   *)
(* is one message, and the process goes on.                                *)
(***************************************************************************)
THEOREM ParseReadBufSuffices == Spec => []ReadBufSuffices
<1>1. Init => ReadBufSuffices
  BY DEF Init, ReadBufSuffices
<1>2. ASSUME ParseType, SentForms, FramedInv, ReadBufSuffices, [Next]_vars
      PROVE  ReadBufSuffices'
  <2> SUFFICES ASSUME \A s \in Stream : status'[s] \in {"whole", "gaps"} /\ MessagesFit(s)'
               PROVE  running'
    BY DEF ReadBufSuffices
  <2>1. (\A s \in Stream : Moves(s)) /\ Survives
    BY <1>2, StepOfStream
  <2>2. ASSUME NEW s \in Stream
        PROVE  status[s] \in {"whole", "gaps"} /\ MessagesFit(s) /\ HeadersFit(s)
    <3>1. status[s] \in {"whole", "gaps"}
      BY <1>2, <2>1, StatusStep
    <3>2. \A i \in 1 .. Len(sent[s]) : i \in 1 .. Len(sent'[s]) /\ sent'[s][i] = sent[s][i]
      BY <1>2, <2>1, SentBefore
    <3>3. MessagesFit(s)
      BY <3>2 DEF MessagesFit
    <3>4. ASSUME NEW i \in 1 .. Len(sent[s]) PROVE RemainPos(sent[s][i]) <= READ_BUF
      <4>1. i \in Nat
        BY <1>2, HeldType, LenProperties
      <4>2. sent[s][i] \in MessageAt(i) /\ Len(sent[s][i]) <= READ_BUF
        BY <1>2, <3>3 DEF SentForms, MessagesFit
      <4>3. /\ RemainPos(sent[s][i]) \in Nat /\ Len(sent[s][i]) \in Nat
            /\ RemainPos(sent[s][i]) <= Len(sent[s][i])
        BY <4>1, <4>2, HeaderInMessage
      <4> QED BY <4>2, <4>3, ReadBufAssumption
    <3> QED BY <3>1, <3>3, <3>4 DEF HeadersFit
  <2>3. running
    BY <1>2, <2>2 DEF ReadBufSuffices
  <2>4. ASSUME NEW s \in Stream, NEW n \in Nat, NEW data \in Bytes, NEW rest \in Bytes,
               NEW h \in BOOLEAN, IsTaken(s, n, data, rest, h)
        PROVE  running' = running
    <3> DEFINE q == Held(s)
               all == q \o data
               ms == sent[s]
    <3>1. printed[s] \in Seq(Bytes) /\ q \in Bytes /\ wire[s] \in Bytes /\ ms \in Seq(Bytes)
      BY <1>2, HeldType
    <3>2. Follows(status[s], printed[s], q, wire[s], ms) /\ AllHeadersFit(ms)
      BY <1>2, <2>2 DEF FramedInv, Framed, AllHeadersFit, HeadersFit
    <3>3. /\ Split(wire[s], n, data, rest) /\ TakesAs(s, q, data, all, h)
          /\ h \in IsHttpHeader(data, n) /\ ~Misread(q, data, h)
      BY <2>4 DEF IsTaken, Takes
    <3>4. ASSUME Parses(all), ~Dropped(q, h) PROVE ~Overruns(MsgLength(all))
      <4>1. PICK x \in 1 .. Len(ms) : MsgLength(all) = Len(ms[x])
        <5>1. /\ ~Parses(all) => Follows(status[s], printed[s], all, rest, ms)
              /\ Parses(all) =>
                   /\ \E x \in 1 .. Len(ms) : MsgLength(all) = Len(ms[x])
                   /\ Follows(status[s], Append(printed[s], SubSeq(all, 1, MsgLength(all))),
                              SubSeq(all, MsgLength(all) + 1, Len(all)), rest, ms)
          BY <3>1, <3>2, <3>3, <3>4, FollowsTaken
        <5> QED BY <3>4, <5>1
      <4>2. Len(ms[x]) <= READ_BUF
        BY <2>2 DEF MessagesFit
      <4>3. Len(ms[x]) \in Nat
        BY <3>1, ElementOfSeq, LenProperties DEF Bytes
      <4> QED BY <4>1, <4>2, <4>3, ReadBufAssumption DEF Overruns
    <3> HIDE DEF all, q, ms
    <3> QED BY <3>3, <3>4 DEF TakesAs
  <2>5. running' = running
    <3>1. \A s \in Stream : status'[s] # "torn"
      OBVIOUS
    <3> QED BY <2>1, <2>4, <3>1 DEF Survives
  <2> QED BY <2>3, <2>5
<1> QED BY <1>1, <1>2, ParseTypeCorrect, ParseSentForms, ParseFramed, PTL DEF Spec

-----------------------------------------------------------------------------
(***************************************************************************)
(* Without pipelining: what is buffered and on the wire belongs to the     *)
(* last message, and nothing is buffered once all of it was captured.      *)
(***************************************************************************)
Orderly(q, wi, ms) ==
  /\ wi = <<>> => q = <<>>
  /\ Len(ms) > 0 => Len(q) + Len(wi) <= Len(ms[Len(ms)])

\* The room the last message needs is all the room that is needed.
LEMMA OrderlyFits ==
  ASSUME NEW st, NEW pr, NEW q \in Bytes, NEW wi \in Bytes, NEW ms \in Seq(Bytes),
         Follows(st, pr, q, wi, ms), Orderly(q, wi, ms),
         \A i \in 1 .. Len(ms) : Len(ms[i]) <= Capacity,
         NEW n, NEW data \in Bytes, NEW rest \in Bytes, Split(wi, n, data, rest), NEW h
  PROVE  ~Refused(q, data, h)
<1>1. PICK T, off, b, w : Standing(T, off, b, w, q, wi, ms)
  BY DEF Follows
<1>2. Len(ms) \in Nat /\ Len(q) \in Nat /\ Len(wi) \in Nat /\ n \in Nat /\ n >= 1 /\ n <= Len(wi) /\ Len(data) = n
  BY LenProperties DEF Bytes, Split
<1>3. Len(ms) # 0
  <2>1. ASSUME Len(ms) = 0 PROVE FALSE
    <3>1. Len(T) = 0
      BY <1>1, <2>1 DEF Standing, Offsets
    <3>2. Len(wi) = Len(T) - w /\ w \in 0 .. Len(T)
      BY <1>1 DEF Standing, Window
    <3> QED BY <1>2, <3>1, <3>2
  <2> QED BY <2>1
<1> DEFINE m == ms[Len(ms)]
<1>4. m \in MessageAt(Len(ms))
  BY <1>1, <1>2, <1>3 DEF Standing
<1>5. Len(ms) \in 1 .. Len(ms)
  BY <1>2, <1>3
<1>6. Len(m) \in Nat /\ Len(m) <= Capacity
  BY <1>2, <1>4, <1>5, MessageAtType
<1>7. Len(q) + Len(wi) <= Len(m)
  BY <1>2, <1>3 DEF Orderly
<1> HIDE DEF m
<1>8. Len(q) + Len(data) <= Capacity
  BY <1>2, <1>6, <1>7, CapacityAssumption
<1> QED BY <1>2, <1>8, CapacityAssumption DEF Refused

\* A segment that is taken.
LEMMA OrderlyTaken ==
  ASSUME ~Bare,
         NEW st, NEW pr \in Seq(Bytes), NEW q \in Bytes, NEW wi \in Bytes, NEW ms \in Seq(Bytes),
         Follows(st, pr, q, wi, ms), Orderly(q, wi, ms),
         NEW n, NEW data \in Bytes, NEW rest \in Bytes, Split(wi, n, data, rest),
         NEW h \in IsHttpHeader(data, n), ~Dropped(q, h), ~Misread(q, data, h), AllHeadersFit(ms),
         NEW all, all = q \o data
  PROVE  /\ ~Parses(all) => Orderly(all, rest, ms)
         /\ Parses(all) => Orderly(SubSeq(all, MsgLength(all) + 1, Len(all)), rest, ms)
<1>1. PICK T, off, b, w, k :
        Standing(T, off, b, w, q, wi, ms) /\ Placed(st, off, b, w, k, pr, ms) /\ b = off[k]
  <2>1. Aligned(st, pr, q, wi, ms)
    BY FollowsAligned
  <2> QED BY <2>1 DEF Aligned
<1>2. /\ w + n \in 0 .. Len(T) /\ w \in Nat /\ n \in Nat /\ n >= 1 /\ Len(T) \in Nat
      /\ Standing(T, off, b, w + n, q \o data, rest, ms)
      /\ Standing(T, off, w + n, w + n, <<>>, rest, ms)
  BY <1>1, StandingMoves
<1>3. PICK v : v = w + n
  OBVIOUS
<1>4. Standing(T, off, b, v, all, rest, ms) /\ v \in Nat /\ v <= Len(T)
  BY <1>2, <1>3
<1>5. all \in Bytes /\ Len(all) = Len(q) + Len(data) /\ Len(data) = n /\ Len(q) \in Nat /\ Len(all) \in Nat
  BY ConcatProperties, LenProperties DEF Bytes, Split
<1>6. all # <<>>
  BY <1>2, <1>5, EmptySeq
<1>7. /\ Len(rest) = Len(T) - v /\ Len(all) = v - b /\ b \in Nat /\ b <= v
      /\ Len(wi) = n + Len(rest) /\ Len(rest) \in Nat /\ Len(ms) \in Nat /\ Len(pr) \in Nat
  <2>1. Len(rest) = Len(T) - v /\ Len(all) = v - b /\ b \in 0 .. v
    BY <1>4 DEF Standing, Window
  <2>2. Len(rest) = Len(wi) - n /\ Len(wi) \in Nat /\ Len(rest) \in Nat /\ Len(ms) \in Nat /\ Len(pr) \in Nat
    BY LenProperties DEF Split, Bytes
  <2>3. v \in Nat /\ n \in Nat
    BY <1>2, <1>4
  <2>4. b \in Nat /\ b <= v
    BY <2>1, <2>3
  <2>5. Len(wi) = n + Len(rest)
    BY <2>2, <2>3
  <2> QED BY <2>1, <2>2, <2>4, <2>5
<1>8. PICK x : x = k + 1
  OBVIOUS
<1>9. x \in 1 .. Len(ms) /\ ms[x] \in MessageAt(x) /\ BeginsWith(all, ms[x]) /\ off[x] = b + Len(ms[x])
  <2>1. k \in 0 .. Len(ms) /\ b = off[k] /\ all \in Bytes
    BY <1>1, <1>5 DEF Placed
  <2> QED BY ONLY <1>4, <1>6, <1>8, <2>1, AlignedHead, ms \in Seq(Bytes)
<1>10. k \in Nat /\ b = off[k] /\ x \in Nat /\ x - 1 = k /\ x - 1 \in 0 .. Len(ms)
  <2>1. k \in 0 .. Len(ms) /\ b = off[k]
    BY <1>1 DEF Placed
  <2> QED BY <1>7, <1>8, <1>9, <2>1
<1>11. /\ off[Len(ms)] = Len(T) /\ Offsets(off, T, ms) /\ Len(ms[x]) \in Nat /\ off[x] \in Nat
       /\ off[x] <= Len(T)
  <2>1. off[Len(ms)] = Len(T) /\ Offsets(off, T, ms)
    BY <1>4 DEF Standing, Offsets
  <2>2. Len(ms[x]) \in Nat
    BY <1>9, <1>10, MessageAtType
  <2>3. x \in 0 .. Len(ms) /\ Len(ms) \in 0 .. Len(ms) /\ x <= Len(ms)
    BY <1>7, <1>9
  <2>4. off[x] <= off[Len(ms)]
    BY <2>1, <2>3 DEF Offsets
  <2> QED BY <1>7, <1>9, <2>1, <2>2, <2>4
<1>12. Len(ms) > 0 /\ Len(q) + Len(wi) <= Len(ms[Len(ms)])
  BY <1>7, <1>9 DEF Orderly
<1>13. ASSUME ~Parses(all) PROVE Orderly(all, rest, ms)
  <2>1. Len(all) + Len(rest) <= Len(ms[Len(ms)])
    <3>1. Len(all) + Len(rest) = Len(q) + Len(wi)
      BY <1>2, <1>5, <1>7
    <3> QED BY <1>12, <3>1
  <2>2. ASSUME rest = <<>> PROVE FALSE
    <3>1. Len(all) = Len(T) - b
      BY <1>4, <1>7, <2>2, EmptySeq
    <3>2. Len(all) >= Len(ms[x])
      BY <1>7, <1>9, <1>11, <3>1
    <3>3. RemainPos(ms[x]) <= READ_BUF
      BY <1>9 DEF AllHeadersFit
    <3>4. Parses(all)
      BY <1>5, <1>9, <1>10, <3>2, <3>3, HeadMessage
    <3> QED BY <1>13, <3>4
  <2> QED BY <2>1, <2>2 DEF Orderly
<1>14. ASSUME Parses(all) PROVE Orderly(SubSeq(all, MsgLength(all) + 1, Len(all)), rest, ms)
  <2> DEFINE L == Len(ms[x])
             tail == SubSeq(all, L + 1, Len(all))
  <2>1. MsgLength(all) = L /\ L <= Len(all) /\ L \in Nat
    <3>1. RemainPos(ms[x]) <= READ_BUF
      BY <1>9 DEF AllHeadersFit
    <3> QED BY <1>5, <1>9, <1>10, <1>11, <1>14, <3>1, HeadMessage
  <2>2. tail \in Bytes /\ Len(tail) = Len(all) - L
    BY <1>5, <2>1, CutBytes DEF Bytes
  <2> HIDE DEF L, tail
  <2>3. Len(tail) + Len(rest) <= Len(ms[Len(ms)])
    <3>1. Len(tail) + Len(rest) = (Len(q) + Len(wi)) - L
      <4>1. Len(all) = Len(q) + n /\ Len(wi) = n + Len(rest) /\ n \in Nat
        BY <1>2, <1>5, <1>7
      <4>2. Len(q) \in Nat /\ Len(rest) \in Nat /\ L \in Nat
        BY <1>5, <1>7, <2>1
      <4> QED BY <2>2, <4>1, <4>2
    <3>2. Len(ms[Len(ms)]) \in Nat
      <4>1. Len(ms) \in 1 .. Len(ms)
        BY <1>7, <1>12
      <4>2. ms[Len(ms)] \in MessageAt(Len(ms))
        BY <1>4, <4>1 DEF Standing
      <4> QED BY <1>7, <4>2, MessageAtType
    <3>3. Len(q) \in Nat /\ Len(wi) \in Nat /\ L \in Nat
      BY <1>5, <2>1, LenProperties DEF Bytes
    <3> QED BY <1>12, <3>1, <3>2, <3>3
  <2>4. ASSUME rest = <<>> PROVE tail = <<>>
    <3> DEFINE l == Len(ms) - 1
    <3>1. Len(rest) = 0 /\ v = Len(T)
      BY <1>4, <1>7, <2>4, EmptySeq
    <3>2. l \in 0 .. Len(ms) /\ l + 1 = Len(ms) /\ l < Len(ms) /\ Len(ms) \in 0 .. Len(ms)
      BY <1>7, <1>12
    <3>3. off[l] \in Nat /\ Len(T) = off[l] + Len(ms[Len(ms)])
      <4>1. Len(ms) \in 1 .. Len(ms) /\ Len(ms) - 1 = l
        BY <1>7, <1>12
      <4>2. off[Len(ms)] = off[l] + Len(ms[Len(ms)])
        BY <1>11, <4>1 DEF Offsets
      <4>3. off[l] \in Nat
        BY <1>11, <3>2 DEF Offsets
      <4> QED BY <1>11, <4>2, <4>3
    <3>4. off[l] <= b
      <4>1. Len(T) - b <= Len(ms[Len(ms)])
        BY <1>2, <1>5, <1>7, <1>12, <3>1
      <4>2. Len(ms[Len(ms)]) = Len(T) - off[l]
        <5>1. Len(ms[Len(ms)]) \in Nat
          <6>1. Len(ms) \in 1 .. Len(ms)
            BY <1>7, <1>12
          <6>2. ms[Len(ms)] \in MessageAt(Len(ms))
            BY <1>4, <6>1 DEF Standing
          <6> QED BY <1>7, <6>2, MessageAtType
        <5> QED BY <1>2, <3>3, <5>1
      <4> QED BY <1>2, <1>7, <3>3, <4>1, <4>2
    <3>5. x = Len(ms)
      <4>1. ASSUME x # Len(ms) PROVE FALSE
        <5>1. x - 1 < l
          BY <1>7, <1>9, <4>1
        <5>2. off[x - 1] < off[l]
          BY <1>4, <1>10, <3>2, <5>1, OffsetsGrow
        <5>3. off[x - 1] = b
          BY <1>10
        <5> QED BY <1>7, <3>3, <3>4, <5>2, <5>3
      <4> QED BY <4>1
    <3>6. Len(T) = b + L
      BY <1>9, <1>11, <3>5 DEF L
    <3>7. Len(tail) = 0
      BY <1>2, <1>7, <2>1, <2>2, <3>1, <3>6
    <3> QED BY <2>2, <3>7, EmptySeq DEF Bytes
  <2>5. Orderly(tail, rest, ms)
    BY <2>3, <2>4 DEF Orderly
  <2> QED BY <2>1, <2>5 DEF tail
<1> QED BY <1>13, <1>14

\* Once all was captured and nothing is buffered, everything was printed.
LEMMA AllPrinted ==
  ASSUME NEW pr \in Seq(Bytes), NEW ms \in Seq(Bytes), Follows("whole", pr, <<>>, <<>>, ms)
  PROVE  pr = ms
<1>1. PICK T, off, b, w, k :
        Standing(T, off, b, w, <<>>, <<>>, ms) /\ Placed("whole", off, b, w, k, pr, ms)
  BY DEF Follows
<1>2. Len(T) \in Nat /\ w \in 0 .. Len(T) /\ b \in 0 .. w /\ Len(pr) \in Nat /\ Len(ms) \in Nat
  BY <1>1, LenProperties DEF Standing, Bytes
<1>3. b = Len(T)
  <2>1. Len(<<>>) = Len(T) - w /\ Len(<<>>) = w - b /\ Len(<<>>) = 0
    BY <1>1, EmptySeq DEF Standing, Window
  <2> QED BY <1>2, <2>1
<1>4. Len(pr) <= Len(ms) /\ b = off[Len(pr)] /\ \A j \in 1 .. Len(pr) : pr[j] = ms[j]
  <2>1. k \in 0 .. Len(ms) /\ k = Len(pr) /\ b = off[k] /\ \A j \in 1 .. Len(pr) : pr[j] = ms[j]
    BY <1>1 DEF Placed
  <2> QED BY <1>2, <2>1
<1>5. off[Len(ms)] = Len(T)
  BY <1>1 DEF Standing, Offsets
<1>6. Len(pr) = Len(ms)
  <2>1. ASSUME Len(pr) < Len(ms) PROVE FALSE
    <3>1. Len(pr) \in 0 .. Len(ms) /\ Len(ms) \in 0 .. Len(ms)
      BY <1>2, <1>4
    <3>2. off[Len(pr)] < off[Len(ms)]
      BY <1>1, <2>1, <3>1, OffsetsGrow
    <3>3. off[Len(pr)] = Len(T) /\ off[Len(ms)] = Len(T)
      BY <1>3, <1>4, <1>5
    <3> QED BY <1>2, <3>2, <3>3
  <2> QED BY <1>2, <1>4, <2>1
<1> QED BY <1>4, <1>6, SeqEqual

InOrder(s) ==
  status[s] \in {"whole", "gaps"} /\ HeadersFit(s) => Orderly(Held(s), wire[s], sent[s])

OrderlyInv == \A s \in Stream : InOrder(s)

LEMMA OrderlyInit == Init => OrderlyInv
<1> SUFFICES ASSUME Init, NEW s \in Stream PROVE Orderly(Held(s), wire[s], sent[s])
  BY DEF OrderlyInv, InOrder
<1>1. Held(s) = <<>> /\ sent[s] = <<>>
  BY DEF Init, Held, Buffered
<1>2. Len(sent[s]) = 0
  BY <1>1, EmptySeq
<1> QED BY <1>1, <1>2 DEF Orderly

LEMMA OrderlyStep ==
  ASSUME ~Pipelining, ~Bare,
         ParseType, NEW s \in Stream, Moves(s), Framed(s), InOrder(s)
  PROVE  InOrder(s)'
<1> SUFFICES ASSUME status'[s] \in {"whole", "gaps"}, HeadersFit(s)'
             PROVE  Orderly(Held(s)', wire'[s], sent'[s])
  BY DEF InOrder, Orderly
<1> DEFINE st == status[s]
           pr == printed[s]
           q == Held(s)
           wi == wire[s]
           ms == sent[s]
<1>1. pr \in Seq(Bytes) /\ q \in Bytes /\ wi \in Bytes /\ ms \in Seq(Bytes)
  BY HeldType
<1>2. /\ st \in {"whole", "gaps"} /\ Follows(st, pr, q, wi, ms) /\ Orderly(q, wi, ms)
      /\ AllHeadersFit(ms)
  <2>1. HeadersFit(s)
    BY HeadersFitBefore
  <2> QED BY <2>1, StatusStep DEF Framed, InOrder, HeadersFit, AllHeadersFit
<1>3. CASE StaysAsIs(s)
  BY <1>2, <1>3 DEF StaysAsIs
<1>4. CASE IsSent(s)
  <2>1. PICK m \in MessageAt(Len(ms) + 1) : sent'[s] = Append(ms, m) /\ wire'[s] = wi \o m
    BY <1>4 DEF IsSent
  <2>2. wi = <<>> /\ q = <<>> /\ Held(s)' = q
    BY <1>2, <1>4 DEF IsSent, Orderly
  <2>3. Len(ms) \in Nat
    BY <1>1, LenProperties
  <2>4. m \in Bytes /\ Len(m) \in Nat
    BY <2>3, MessageAtType
  <2>5. wi \o m = m
    BY <2>2, <2>4, ConcatEmptySeq DEF Bytes
  <2>6. Append(ms, m)[Len(Append(ms, m))] = m
    BY <1>1, <2>4, AppendProperties
  <2>7. Len(q) = 0 /\ 0 + Len(m) <= Len(m)
    BY <2>2, <2>4, EmptySeq
  <2> QED BY <2>1, <2>2, <2>5, <2>6, <2>7 DEF Orderly
<1>5. ASSUME NEW n \in Nat, NEW data, NEW rest \in Bytes, q = <<>>, Split(wi, n, data, rest)
      PROVE  Orderly(q, rest, ms)
  <2>1. Len(q) = 0 /\ Len(rest) = Len(wi) - n /\ Len(wi) \in Nat /\ Len(rest) \in Nat
    BY <1>1, <1>5, EmptySeq, LenProperties DEF Split, Bytes
  <2>2. Len(ms) > 0 => Len(q) + Len(wi) <= Len(ms[Len(ms)])
    BY <1>2 DEF Orderly
  <2>3. ASSUME Len(ms) > 0 PROVE Len(q) + Len(rest) <= Len(ms[Len(ms)])
    <3>1. Len(ms[Len(ms)]) \in Nat
      <4>1. Len(ms) \in 1 .. Len(ms)
        BY <1>1, <2>3, LenProperties
      <4> QED BY <1>1, <4>1, ElementOfSeq, LenProperties DEF Bytes
    <3> QED BY <2>1, <2>2, <2>3, <3>1
  <2> QED BY <1>5, <2>3 DEF Orderly
<1>6. ASSUME NEW n \in Nat, NEW data \in Bytes, NEW rest \in Bytes, IsMissed(s, n, data, rest)
      PROVE  Orderly(Held(s)', wire'[s], sent'[s])
  <2>1. q = <<>>
    BY <1>6 DEF IsMissed, Missed, Held
  <2>2. Orderly(q, rest, ms)
    BY <1>5, <1>6, <2>1 DEF IsMissed
  <2> QED BY <1>6, <2>2 DEF IsMissed
<1>7. ASSUME NEW n \in Nat, NEW data \in Bytes, NEW rest \in Bytes, NEW h \in BOOLEAN,
             IsTaken(s, n, data, rest, h)
      PROVE  Orderly(Held(s)', wire'[s], sent'[s])
  <2> DEFINE all == q \o data
  <2>1. /\ Split(wi, n, data, rest) /\ wire'[s] = rest /\ sent'[s] = ms
        /\ status'[s] = st /\ ~Refused(q, data, h) /\ h \in IsHttpHeader(data, n)
        /\ ~Misread(q, data, h)
    BY <1>2, <1>7 DEF IsTaken
  <2>2. TakesAs(s, q, data, all, h)
    BY <1>7 DEF IsTaken, Takes
  <2>3. CASE Dropped(q, h)
    <3>1. q = <<>>
      BY <2>3 DEF Dropped
    <3>2. Orderly(q, rest, ms)
      BY <1>5, <2>1, <3>1
    <3>3. Held(s)' = q
      BY <2>2, <2>3 DEF TakesAs
    <3> QED BY <2>1, <3>2, <3>3
  <2>4. CASE ~Dropped(q, h)
    <3>1. /\ ~Parses(all) => Orderly(all, rest, ms)
          /\ Parses(all) => Orderly(SubSeq(all, MsgLength(all) + 1, Len(all)), rest, ms)
      BY <1>1, <1>2, <2>1, <2>4, OrderlyTaken
    <3> HIDE DEF all, q
    <3>2. CASE Parses(all)
      BY <2>1, <2>2, <2>4, <3>1, <3>2 DEF TakesAs
    <3>3. CASE ~Parses(all)
      BY <2>1, <2>2, <2>4, <3>1, <3>3 DEF TakesAs
    <3> QED BY <3>2, <3>3
  <2> QED BY <2>3, <2>4
<1> QED BY <1>3, <1>4, <1>6, <1>7 DEF Moves

\* The order of every stream, as an invariant.
THEOREM ParseOrderly ==
  ASSUME ~Pipelining, ~Bare
  PROVE  Spec => []OrderlyInv
<1>1. Init => OrderlyInv
  BY OrderlyInit
<1>2. ASSUME ParseType, FramedInv, OrderlyInv, [Next]_vars PROVE OrderlyInv'
  <2>1. \A s \in Stream : Moves(s) /\ Framed(s) /\ InOrder(s)
    BY <1>2, StepOfStream DEF FramedInv, OrderlyInv
  <2>2. ASSUME NEW s \in Stream PROVE InOrder(s)'
    BY <1>2, <2>1, OrderlyStep
  <2> QED BY <2>2 DEF OrderlyInv
<1> QED BY <1>1, <1>2, ParseTypeCorrect, ParseFramed, PTL DEF Spec

(***************************************************************************)
(* When each message waits until the one before it was captured and has a  *)
(* Content-Length, it is printed as soon as its last byte is captured: one *)
(* ParseHttpPkg for each segment is enough, and nothing stays buffered.    *)
(***************************************************************************)
THEOREM ParsePrintedWhenComplete ==
  ASSUME ~Pipelining, ~Bare
  PROVE  Spec => []PrintedWhenComplete
<1>1. ParseType /\ FramedInv /\ OrderlyInv => PrintedWhenComplete
  <2> SUFFICES ASSUME ParseType, FramedInv, OrderlyInv,
                      NEW s \in Stream, status[s] = "whole", HeadersFit(s), wire[s] = <<>>
               PROVE  printed[s] = sent[s] /\ Buffered(s[1], s[2]) = <<>>
    BY DEF PrintedWhenComplete
  <2>1. Held(s) = <<>>
    BY DEF OrderlyInv, InOrder, Orderly
  <2>2. Follows("whole", printed[s], <<>>, <<>>, sent[s])
    BY <2>1 DEF FramedInv, Framed
  <2>3. printed[s] \in Seq(Bytes) /\ sent[s] \in Seq(Bytes)
    BY HeldType
  <2>4. printed[s] = sent[s]
    BY <2>2, <2>3, AllPrinted
  <2> QED BY <2>1, <2>4 DEF Held
<1> QED BY <1>1, ParseTypeCorrect, ParseFramed, ParseOrderly, PTL

(***************************************************************************)
(* Nor does InputTcpPkg ever refuse a segment of messages that each fit in *)
(* a TcpBuf: what is buffered and on the wire is of one message.           *)
(***************************************************************************)
THEOREM ParseNothingRefused ==
  ASSUME ~Pipelining, ~Bare
  PROVE  Spec => []NothingRefused
<1>1. Init => NothingRefused
  BY DEF Init, NothingRefused
<1>2. ASSUME ParseType, FramedInv, OrderlyInv, NothingRefused, [Next]_vars PROVE NothingRefused'
  <2> SUFFICES ASSUME NEW s \in Stream, HeadersFit(s)',
                      \A i \in 1 .. Len(sent'[s]) : Len(sent'[s][i]) <= Capacity,
                      status'[s] = "refused"
               PROVE  FALSE
    BY DEF NothingRefused
  <2>1. Moves(s)
    BY <1>2, StepOfStream
  <2>2. HeadersFit(s) /\ \A i \in 1 .. Len(sent[s]) : Len(sent[s][i]) <= Capacity
    <3>1. \A i \in 1 .. Len(sent[s]) : i \in 1 .. Len(sent'[s]) /\ sent'[s][i] = sent[s][i]
      BY <1>2, <2>1, SentBefore
    <3>2. HeadersFit(s)
      BY <1>2, <2>1, HeadersFitBefore
    <3> QED BY <3>1, <3>2
  <2>3. status[s] # "refused" /\ status[s] \in {"whole", "gaps", "torn", "refused"}
    BY <1>2, <2>2 DEF NothingRefused, ParseType
  <2>4. ASSUME NEW n \in Nat, NEW data \in Bytes, NEW rest \in Bytes, NEW h \in BOOLEAN,
               IsTaken(s, n, data, rest, h)
        PROVE  FALSE
    <3>1. status[s] \in {"whole", "gaps"} /\ Refused(Held(s), data, h)
      BY <2>3, <2>4 DEF IsTaken
    <3>2. /\ Follows(status[s], printed[s], Held(s), wire[s], sent[s])
          /\ Orderly(Held(s), wire[s], sent[s])
      BY <1>2, <2>2, <3>1 DEF FramedInv, Framed, OrderlyInv, InOrder
    <3>3. Held(s) \in Bytes /\ wire[s] \in Bytes /\ sent[s] \in Seq(Bytes)
      BY <1>2, HeldType
    <3>4. Split(wire[s], n, data, rest)
      BY <2>4 DEF IsTaken
    <3> QED BY <2>2, <3>1, <3>2, <3>3, <3>4, OrderlyFits
  <2>5. ASSUME NEW n, NEW data, NEW rest, IsMissed(s, n, data, rest) PROVE FALSE
    BY <2>5 DEF IsMissed, Missed
  <2> QED BY <2>1, <2>3, <2>4, <2>5 DEF Moves, StaysAsIs, IsSent
<1> QED BY <1>1, <1>2, ParseTypeCorrect, ParseFramed, ParseOrderly, PTL DEF Spec
==============================================================================
