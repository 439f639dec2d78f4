------------------------------- MODULE MCQueue -------------------------------
(***************************************************************************)
(* Small instances of Queue: at most three tasks (t3 above the other two), *)
(* a mutex mtx and a semaphore sem of one token, initially not given.      *)
(***************************************************************************)
EXTENDS Queue

CONSTANTS t1, t2, t3, mtx, sem

MCPriority == [t \in Tasks |-> IF t = t3 THEN 2 ELSE 1]
MCLength   == [q \in Queues |-> 1]
MCInitial  == [q \in Queues |-> IF q \in Mutexes THEN 1 ELSE 0]
==============================================================================
