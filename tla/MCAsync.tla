------------------------------ MODULE MCAsync ------------------------------
(***************************************************************************)
(* A group of two async tasks; t1 may have C1 spawns waiting, t2 one with  *)
(* one input.                                                              *)
(***************************************************************************)
EXTENDS AsyncExecutor

CONSTANTS t1, t2, C1, v1

MCOrder == <<t1, t2>>
MCCapacity == [t \in Tasks |-> IF t = t1 THEN C1 ELSE 1]
MCSpawnInputs == [t \in Tasks |-> IF t = t1 THEN Values ELSE {v1}]
=============================================================================
