--------------------------- MODULE MCDingMsgSender ---------------------------
(* DingMsgSender for TLC, with and without a token.                          *)
EXTENDS DingMsgSender

\* With and without a token.
TokenKinds == [token : BOOLEAN, endl : {TRUE}]
==============================================================================
