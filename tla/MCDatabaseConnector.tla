------------------------- MODULE MCDatabaseConnector -------------------------
(* The connector for TLC.  Threads are interchangeable, but its runs check *)
(* liveness and use no symmetry.                                           *)
EXTENDS DatabaseConnector
==============================================================================
