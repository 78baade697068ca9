--------------------------- MODULE MCBasepriLock ---------------------------
(***************************************************************************)
(* BASEPRI locking on a device with 2 priority bits (4 levels): idle, a    *)
(* task of the lowest level, two of level 2, one of the highest level, and *)
(* resources with ceilings 0 (used by idle alone), 1, 2 and 4 (the last    *)
(* one locked by PRIMASK).                                                 *)
(***************************************************************************)
EXTENDS BasepriLock

CONSTANTS low, mid1, mid2, top, r0, r1, r2, r4

MCUses == [a \in Actors |-> Resources \cap
  CASE a = Idle -> {r0, r1, r2}
    [] a = low  -> {r1, r2, r4}
    [] a = mid1 -> {r2, r4}
    [] a = mid2 -> {r2}
    [] a = top  -> {r4}]

(* low leaves its priority out, so does idle: both default to 1.           *)
MCDeclared == [a \in Actors |->
  CASE a \in {mid1, mid2} -> 2
    [] a = top -> 4
    [] OTHER -> NoPriority]

(* The dispatcher mid1 serves software tasks declared without a priority.  *)
SwDefaultDeclared == [MCDeclared EXCEPT ![mid1] = NoPriority]
=============================================================================
