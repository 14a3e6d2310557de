-------------------------- MODULE MCConnectionPool --------------------------
(* A patient caller makes one call while the others make two.  A dedicated  *)
(* pool has one connection of a key, so that callers wait for each other; a *)
(* shared one has two, so that its iterator has turns to give.              *)
EXTENDS ConnectionPool

MCMaxCalls == [t \in Callers |-> IF t \in Impatient THEN 2 ELSE 1]

MCPerKey == [class \in PoolClasses |-> IF class = "dedicated" THEN 1 ELSE 2]
=============================================================================
