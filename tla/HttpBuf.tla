------------------------------- MODULE HttpBuf -------------------------------
(***************************************************************************)
(* tools/cgidump/http_buf.cpp: how one direction of a captured connection  *)
(* is cut into HTTP messages.  The bytes wait in a TcpBuf, which is the    *)
(* bounded queue ByteQueue (TcpBuf_proofs); here it is the sequence q.     *)
(*                                                                         *)
(* The text is abstracted to the symbols the parser tells apart, and a     *)
(* segment may end between any two of them:                                *)
(*   Start(i)   the first word of message i, POST, GET or HTTP, without    *)
(*              its last byte; a segment that ends within the word ends    *)
(*              for the parser behind this symbol                          *)
(*   Word       the last byte of the first word                            *)
(*   Text       any other byte of the header, one that may be the first    *)
(*              of a POST, GET or HTTP in the middle of the header included*)
(*   Length(k)  the newline that ends the line Content-Length: k           *)
(*   BlankLine  the last newline of the header                             *)
(*   BodyByte   a byte of the body                                         *)
(* Every symbol counts as one byte of the buffers.                         *)
(***************************************************************************)
EXTENDS Integers, Sequences, FiniteSetsExt

CONSTANTS
  Capacity,   \* the bytes a TcpBuf accepts
  READ_BUF    \* the size of read_buf in ParseHttpPkg (4096 in the code)

ASSUME CapacityAssumption == Capacity \in Nat
ASSUME ReadBufAssumption == READ_BUF \in Nat \ {0}

Start(i) == [kind |-> "start", n |-> i]
Word == [kind |-> "word", n |-> 0]
Text == [kind |-> "text", n |-> 0]
Length(k) == [kind |-> "length", n |-> k]
BlankLine == [kind |-> "blank", n |-> 0]
BodyByte == [kind |-> "body", n |-> 0]

(***************************************************************************)
(* Slips the properties have to notice.                                    *)
(***************************************************************************)
\* The header found wherever it stands in the packet.
IsHttpHeaderAnywhere(data, len) == {\E i \in 1 .. Len(data) : data[i].kind = "start"}

\* remain_pos behind one byte too many.
RemainPosLong(data) ==
  LET blank == {i \in 1 .. Len(data) : data[i].kind = "blank"}
  IN  IF blank = {} THEN Len(data) + 1 ELSE Min(blank) + 1

\* remain_pos left at the position of the last byte scanned.
RemainPosShort(data) ==
  LET blank == {i \in 1 .. Len(data) : data[i].kind = "blank"}
  IN  IF blank = {} THEN Len(data) + 1 ELSE Min(blank) - 1

\* The scan for headers that does not stop at the blank line.
LengthLinesAll(data) == {i \in 1 .. Len(data) : data[i].kind = "length"}
-----------------------------------------------------------------------------
\* What IsHttpHeader may answer.  It compares the three or four bytes at data
\* with POST, GET and HTTP, without regard to len: of a packet that ends within
\* the word, and of one of negative length, it compares what lies behind the
\* packet.  Text and the body may read like one of the words.
IsHttpHeader(data, len) ==
  {h \in BOOLEAN :
     /\ len = 0 => ~h
     /\ len > 1 /\ data[1].kind = "start" => h
     /\ len > 0 /\ data[1].kind \in {"word", "length", "blank"} => ~h}

\* What PreOutputTcpPkg copies to read_buf.
ReadAhead(q) == SubSeq(q, 1, IF Len(q) > READ_BUF THEN READ_BUF ELSE Len(q))

\* GetHttpHeaders: remain_pos points behind the blank line, or one behind
\* the data if there is none.
RemainPos(data) ==
  LET blank == {i \in 1 .. Len(data) : data[i].kind = "blank"}
  IN  IF blank = {} THEN Len(data) + 1 ELSE Min(blank)

\* Where the headers that were found have a Content-Length.
LengthLines(data) ==
  {i \in 1 .. Len(data) : i < RemainPos(data) /\ data[i].kind = "length"}

\* The map of headers keeps the last one.
ContentLength(data) == data[Max(LengthLines(data))].n

\* length in ParseHttpPkg
MsgLength(q) == ContentLength(ReadAhead(q)) + RemainPos(ReadAhead(q))

\* Whether all of the message is buffered.
Complete(q, length) == Len(q) >= length

\* Whether ParseHttpPkg takes a message from q.
Parses(q) ==
  LengthLines(ReadAhead(q)) # {} /\ Complete(q, MsgLength(q))

\* A packet that is no beginning, by IsHttpHeader's answer h, and continues
\* nothing is dropped.
Dropped(q, h) == ~h /\ q = <<>>

\* A packet the TcpBuf has no room for.
Refused(q, data, h) == ~Dropped(q, h) /\ Len(q) + Len(data) > Capacity

\* OutputTcpPkg copies length bytes to read_buf, however large that is.
Overruns(length) == length > READ_BUF
==============================================================================
