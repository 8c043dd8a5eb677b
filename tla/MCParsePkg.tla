------------------------------ MODULE MCParsePkg ------------------------------
(* ParsePkg for TLC: which streams carry traffic, and which messages.        *)
EXTENDS ParsePkg

\* Both directions of one client and one direction of another.
ThreeStreams ==
  LET c == CHOOSE x \in Client : TRUE
  IN  {c} \X Direction \cup (Client \ {c}) \X {"input"}

\* One direction of every client.
OneStream == Client \X {"input"}

\* For a read_buf of 5 bytes: messages that fit it, the second exactly, two of
\* which the header fits, and one of which it does not.
MixedShapes == {<<0, 0, 0>>, <<0, 0, 1>>, <<0, 1, 1>>, <<1, 0, 2>>, <<1, 1, 0>>}

\* A message that fits a buffer of 5 bytes exactly.
PlainShapes == {<<0, 0, 1>>}
===============================================================================
