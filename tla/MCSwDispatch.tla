---------------------------- MODULE MCSwDispatch ----------------------------
(***************************************************************************)
(* Two software tasks of one priority group on core 0, spawned by any      *)
(* cores that the analysis accepts; every core calls every spawn, and the  *)
(* core check is there to refuse.                                          *)
(***************************************************************************)
EXTENDS SwDispatch

CONSTANTS t1, t2

MCCore == [t \in Spawnable |-> 0]
MCPriority == [t \in Spawnable |-> 1]
MCCalls == Cores \X Spawnable
MCCapacity == [t \in Spawnable |-> IF t = t1 THEN 2 ELSE 1]
=============================================================================
