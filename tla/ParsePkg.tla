------------------------------ MODULE ParsePkg ------------------------------
(***************************************************************************)
(* tools/cgidump/parse_pkg.cpp and session.cpp: every captured frame is    *)
(* classified, assigned to the session of its client and to a direction,   *)
(* and its payload is given to the HttpBuf of that direction.              *)
(*                                                                         *)
(* The environment is the traffic that is captured.  A stream, a client    *)
(* and a direction, carries messages; its bytes are captured in order in   *)
(* segments of any size, cut anywhere, some are lost or captured again.    *)
(* TCP's sequence numbers and flags are not used by the code, and each     *)
(* client has one connection.  Message i of a stream begins with Start(i), *)
(* so that the properties can tell which message was printed.              *)
(***************************************************************************)
EXTENDS HttpBuf, SequencesExt

CONSTANTS
  Client,        \* the addresses (ip and port) of the clients
  ServerAddr,    \* m_ip and m_port
  ForeignAddr,   \* an address of neither
  Tagged,        \* the clients whose frames have a VLAN tag
  Stream,        \* the streams that carry traffic: pairs <<client, direction>>
  Shapes,        \* the messages that are sent: <<b, a, k>> for b bytes of text
                 \* before the Content-Length, a behind it and k of body
  Bare,          \* whether messages without Content-Length are sent
  Pipelining,    \* whether a message may follow one not yet captured
  MaxSent,       \* bound: messages of each stream
  MaxFaults      \* bound: segments lost, captured twice or malformed

Direction == {"input", "output"}

ASSUME AddrAssumption ==
  /\ ServerAddr \notin Client
  /\ ForeignAddr \notin Client \cup {ServerAddr}
  /\ Tagged \subseteq Client
ASSUME StreamAssumption == Stream \subseteq Client \X Direction
ASSUME TrafficAssumption ==
  /\ Shapes \subseteq Nat \X Nat \X Nat
  /\ Bare \in BOOLEAN
  /\ Pipelining \in BOOLEAN
  /\ MaxSent \in Nat
  /\ MaxFaults \in Nat

VARIABLES
  m_inited,
  m_sessions,  \* per known client the bytes its two HttpBufs hold
  running,     \* FALSE when the process died
  printed,     \* history: the messages cut out of each stream
  wire,        \* the bytes of each stream that are still to be captured
  sent,        \* history: the messages of each stream
  status,      \* history: what has happened to each stream
  faults       \* segments lost, captured twice or malformed

parserVars == <<m_inited, m_sessions, running, printed>>
trafficVars == <<wire, sent, status, faults>>
vars == <<parserVars, trafficVars>>

NewSession == [d \in Direction |-> <<>>]

\* The bytes held for a stream.
Buffered(c, d) == IF c \in DOMAIN m_sessions THEN m_sessions[c][d] ELSE <<>>

(***************************************************************************)
(* Slips the properties have to notice.                                    *)
(***************************************************************************)
\* One HttpBuf for both directions of a client.
StoreBoth(c, d, q) ==
  [x \in DOMAIN m_sessions \cup {c} |->
     IF x = c THEN [e \in Direction |-> q] ELSE m_sessions[x]]
-----------------------------------------------------------------------------
Init ==
  /\ m_inited = FALSE
  /\ m_sessions = <<>>
  /\ running = TRUE
  /\ printed = [s \in Stream |-> <<>>]
  /\ wire = [s \in Stream |-> <<>>]
  /\ sent = [s \in Stream |-> <<>>]
  /\ status = [s \in Stream |-> "whole"]
  /\ faults = 0

\* ParsePkg::Init(ip, port)
InitParsePkg ==
  /\ ~m_inited
  /\ m_inited' = TRUE
  /\ UNCHANGED <<m_sessions, running, printed, trafficVars>>

\* IPv4, possibly behind a VLAN tag, with a header of 20 bytes, and TCP.
Supported(f) == f.type \in {"ipv4", "vlan_ipv4"} /\ f.proto = "tcp"

\* GetClientAddr tests the source first.
FromServer(f) == f.src = ServerAddr
ToServer(f) == ~FromServer(f) /\ f.dst = ServerAddr
ClientAddr(f) == IF FromServer(f) THEN f.dst ELSE f.src
DirectionOf(f) == IF FromServer(f) THEN "output" ELSE "input"

\* Whether InputPkg hands the frame's data to a session.  f.len is data_len, the
\* length that the headers leave for data: negative if they are longer than
\* the packet says it is.
Accepted(f) ==
  /\ m_inited
  /\ Supported(f)
  /\ FromServer(f) \/ ToServer(f)
  /\ f.len # 0

\* The session of c, created if there was none, with q in direction d.
Store(c, d, q) ==
  [x \in DOMAIN m_sessions \cup {c} |->
     IF x = c THEN [e \in Direction |-> IF e = d THEN q ELSE Buffered(c, e)]
     ELSE m_sessions[x]]

\* HttpBuf::InputTcpPkg of the HttpBuf of client c and direction d, where
\* IsHttpHeader answers h.
InputTcpPkg(c, d, data, h) ==
  LET q   == Buffered(c, d)
      all == q \o data
  IN  \/ /\ Dropped(q, h) \/ Refused(q, data, h)
         /\ m_sessions' = Store(c, d, q)
         /\ UNCHANGED <<running, printed>>
      \/ /\ ~Dropped(q, h) /\ ~Refused(q, data, h)
         /\ ~Parses(all)
         /\ m_sessions' = Store(c, d, all)
         /\ UNCHANGED <<running, printed>>
      \/ /\ ~Dropped(q, h) /\ ~Refused(q, data, h)
         /\ Parses(all)
         /\ m_sessions' = Store(c, d, SubSeq(all, MsgLength(all) + 1, Len(all)))
         /\ printed' = [printed EXCEPT ![<<c, d>>] =
                          Append(@, SubSeq(all, 1, MsgLength(all)))]
         /\ IF Overruns(MsgLength(all)) THEN running' \in BOOLEAN
            ELSE UNCHANGED running

\* The same for a negative length: it passes the test of the room that is left,
\* and TcpBuf::InputTcpPkg hands it to memcpy as a size.
InputNegative(c, d, h) ==
  /\ m_sessions' = Store(c, d, Buffered(c, d))
  /\ running' = Dropped(Buffered(c, d), h)
  /\ UNCHANGED printed

InputPkg(f, h) ==
  /\ running
  /\ LET c == ClientAddr(f)
         d == DirectionOf(f)
     IN  \/ Accepted(f) /\ f.len > 0 /\ InputTcpPkg(c, d, f.data, h)
         \/ Accepted(f) /\ f.len < 0 /\ InputNegative(c, d, h)
         \/ ~Accepted(f) /\ UNCHANGED <<m_sessions, running, printed>>
  /\ UNCHANGED m_inited
-----------------------------------------------------------------------------
Repeat(x, n) == [j \in 1 .. n |-> x]

\* The bytes of message i.
Message(i, shape) ==
  <<Start(i), Word>> \o Repeat(Text, shape[1]) \o <<Length(shape[3])>>
    \o Repeat(Text, shape[2]) \o <<BlankLine>> \o Repeat(BodyByte, shape[3])

\* Message i without Content-Length and body: a GET.
BareMessage(i) == <<Start(i), Word, BlankLine>>

NextMessages(s) ==
  LET i == Len(sent[s]) + 1
  IN  {Message(i, x) : x \in Shapes} \cup (IF Bare THEN {BareMessage(i)} ELSE {})

Send(s) ==
  /\ Len(sent[s]) < MaxSent
  /\ Pipelining \/ wire[s] = <<>>
  /\ \E m \in NextMessages(s) :
       /\ sent' = [sent EXCEPT ![s] = Append(@, m)]
       /\ wire' = [wire EXCEPT ![s] = @ \o m]
  /\ UNCHANGED <<parserVars, status, faults>>

\* A frame of the stream.
Frame(s, data, len) ==
  [type  |-> IF s[1] \in Tagged THEN "vlan_ipv4" ELSE "ipv4",
   proto |-> "tcp",
   src   |-> IF s[2] = "input" THEN s[1] ELSE ServerAddr,
   dst   |-> IF s[2] = "input" THEN ServerAddr ELSE s[1],
   data  |-> data,
   len   |-> len]

\* The one that carries its next n bytes.
Segment(s, n) == Frame(s, SubSeq(wire[s], 1, n), n)

\* One whose headers are longer than its length says.
NegativeSegment(s) == Frame(s, <<>>, -1)

\* A stream has gaps while the bytes that are missing are missing where nothing
\* was buffered.  It is torn when others are missing or come twice.
Missed(s) ==
  IF status[s] \in {"whole", "gaps"} /\ Buffered(s[1], s[2]) = <<>>
  THEN "gaps" ELSE "torn"

\* A packet at the beginning of a message that ends within the first word, and
\* what lies behind it in memory does not read like the rest of the word.
Clipped(q, data, h) == q = <<>> /\ Len(data) = 1 /\ data[1].kind = "start" /\ ~h

\* A packet from the middle of a message that reads like the beginning of one.
Misread(q, data, h) == q = <<>> /\ data[1].kind \in {"text", "body"} /\ h

Capture(s) ==
  \E n \in 1 .. Len(wire[s]) :
    LET f == Segment(s, n)
        q == Buffered(s[1], s[2])
    IN  \E h \in IsHttpHeader(f.data, f.len) :
          /\ InputPkg(f, h)
          /\ wire' = [wire EXCEPT ![s] = SubSeq(@, n + 1, Len(@))]
          /\ status' = [status EXCEPT ![s] =
               IF ~m_inited \/ Clipped(q, f.data, h) THEN Missed(s)
               ELSE IF Misread(q, f.data, h) THEN "torn"
               ELSE IF status[s] # "torn" /\ Refused(q, f.data, h)
               THEN "refused" ELSE @]
          /\ UNCHANGED <<sent, faults>>

\* A segment the capture misses.
Lose(s) ==
  /\ faults < MaxFaults
  /\ \E n \in 1 .. Len(wire[s]) :
       wire' = [wire EXCEPT ![s] = SubSeq(@, n + 1, Len(@))]
  /\ status' = [status EXCEPT ![s] = Missed(s)]
  /\ faults' = faults + 1
  /\ UNCHANGED <<parserVars, sent>>

\* A segment that is captured and will be captured again.
CaptureTwice(s) ==
  /\ faults < MaxFaults
  /\ m_inited
  /\ \E n \in 1 .. Len(wire[s]) :
       \E h \in IsHttpHeader(Segment(s, n).data, n) : InputPkg(Segment(s, n), h)
  /\ status' = [status EXCEPT ![s] = "torn"]
  /\ faults' = faults + 1
  /\ UNCHANGED <<wire, sent>>

\* A malformed frame of the stream.
CaptureNegative(s) ==
  /\ faults < MaxFaults
  /\ LET f == NegativeSegment(s)
     IN  \E h \in IsHttpHeader(f.data, f.len) : InputPkg(f, h)
  /\ status' = [status EXCEPT ![s] = "torn"]
  /\ faults' = faults + 1
  /\ UNCHANGED <<wire, sent>>

\* Other frames that pass the capture filter: not TCP over IPv4, not of this
\* server, or without data.
OtherFrames ==
  LET data == <<Start(0), Word, Length(0), BlankLine>>
      frame == [type |-> "ipv4", proto |-> "tcp", src |-> ForeignAddr,
                dst |-> ServerAddr, data |-> data, len |-> Len(data)]
  IN  {[frame EXCEPT !.type = "other"], [frame EXCEPT !.type = "vlan_other"],
       [frame EXCEPT !.proto = "other"], [frame EXCEPT !.dst = ForeignAddr],
       [frame EXCEPT !.data = <<>>, !.len = 0]}

CaptureOther ==
  \E f \in OtherFrames :
    \E h \in IsHttpHeader(f.data, f.len) : InputPkg(f, h) /\ UNCHANGED trafficVars

Next ==
  \/ InitParsePkg
  \/ \E s \in Stream :
       Send(s) \/ Capture(s) \/ Lose(s) \/ CaptureTwice(s) \/ CaptureNegative(s)
  \/ CaptureOther

Spec == Init /\ [][Next]_vars
-----------------------------------------------------------------------------
\* No header that was sent on the stream is longer than read_buf, and no message.
HeadersFit(s) == \A i \in 1 .. Len(sent[s]) : RemainPos(sent[s][i]) <= READ_BUF
MessagesFit(s) == \A i \in 1 .. Len(sent[s]) : Len(sent[s][i]) <= READ_BUF

\* The messages in a were sent as messages of b, in the same order and each once.
Selected(a, b) ==
  \E f \in [1 .. Len(a) -> 1 .. Len(b)] :
    /\ \A i, j \in 1 .. Len(a) : i < j => f[i] < f[j]
    /\ \A i \in 1 .. Len(a) : a[i] = b[f[i]]

\* However the bytes of a stream are cut into segments, and whatever is
\* captured, lost or repeated of other streams in between, what ParseHttpPkg
\* cuts out of it are the messages that were sent, whole and in order, as long
\* as it can read their headers at once.  A stretch that is missing, because
\* the capture lost it or the first segment of a message ended within POST, GET
\* or HTTP, costs the message it is missing from and no other: what is printed
\* are still messages that were sent, whole, in order and once, provided that
\* nothing was buffered and no later segment reads like a beginning and is none.
FramedRight ==
  \A s \in Stream : HeadersFit(s) =>
    /\ status[s] = "whole" => IsPrefix(printed[s], sent[s])
    /\ status[s] = "gaps" => Selected(printed[s], sent[s])

\* Without pipelining a message whose header fits read_buf is printed as soon as
\* its last byte is captured, and nothing is left behind in the buffer, unless
\* a segment was lost or clipped.
PrintedWhenComplete ==
  \A s \in Stream : status[s] = "whole" /\ HeadersFit(s) /\ wire[s] = <<>> =>
    printed[s] = sent[s] /\ Buffered(s[1], s[2]) = <<>>

\* Without pipelining a TcpBuf never refuses a segment of messages that fit in
\* it and whose headers fit read_buf: nothing of a message stays behind to fill
\* the ring.
NothingRefused ==
  \A s \in Stream :
    HeadersFit(s) /\ (\A i \in 1 .. Len(sent[s]) : Len(sent[s][i]) <= Capacity) =>
      status[s] # "refused"

\* The messages for which OutputTcpPkg writes behind read_buf are the longer
\* ones: as long as every message sent is at most as long as read_buf, and none
\* of their bytes are missing behind a buffered one, the length that is found
\* never exceeds it.
ReadBufSuffices ==
  (\A s \in Stream : status[s] \in {"whole", "gaps"} /\ MessagesFit(s)) => running

\* The headers at the front of the buffer are complete and have no
\* Content-Length.
Blocked(c, d) ==
  LET q == Buffered(c, d)
  IN  /\ q # <<>>
      /\ RemainPos(ReadAhead(q)) <= Len(ReadAhead(q))
      /\ LengthLines(ReadAhead(q)) = {}

\* A message without Content-Length is never taken out of the buffer, so
\* nothing that comes after it in its stream is ever printed.
BlockedForGood ==
  [][\A s \in Stream : Blocked(s[1], s[2]) =>
       printed'[s] = printed[s] /\ Blocked(s[1], s[2])']_vars
==============================================================================
