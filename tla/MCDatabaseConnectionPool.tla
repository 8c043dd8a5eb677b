----------------------- MODULE MCDatabaseConnectionPool -----------------------
(* The connection pool for TLC: threads and connections are interchangeable. *)
EXTENDS DatabaseConnectionPool, TLC

Symmetry == Permutations(Thread) \cup Permutations(Conn)
===============================================================================
