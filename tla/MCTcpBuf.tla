------------------------------ MODULE MCTcpBuf ------------------------------
(* TcpBuf on a ring of a few cells: packets of every length up to one more  *)
(* than the ring accepts, so that writes and reads wrap at every offset.    *)
EXTENDS TcpBuf

CONSTANT MaxPacket   \* the longest packet put

MCPackets == UNION {[1 .. n -> Byte] : n \in 0 .. MaxPacket}
MCReadSizes == 0 .. MAX_BUF_SIZE
=============================================================================
