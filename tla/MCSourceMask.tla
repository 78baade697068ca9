---------------------------- MODULE MCSourceMask ----------------------------
(***************************************************************************)
(* armv6-m: 2 priority bits (4 levels).  The two applications differ in    *)
(* who shares what and in how locks nest.                                  *)
(***************************************************************************)
EXTENDS SourceMaskLock

CONSTANTS sys, low, mid, high, top, r1, r2, r3, r4

MCDeclared == [a \in Actors |->
  CASE a \in {sys, low} -> 1
    [] a = mid -> 2
    [] a = high -> 3
    [] a = top -> 4
    [] OTHER -> 0]

(* An application that stays within what source masking protects: idle is  *)
(* declared with priority 0, the exception sys is never the more urgent    *)
(* user of a resource, and a lock is only nested when it changes no mask.  *)
SafeUses == [a \in Actors |->
  CASE a = Idle -> {r1}
    [] a = sys  -> {r2}
    [] a = low  -> {r1, r2, r3, r4}
    [] a = mid  -> {r2, r4}
    [] a = high -> {r3}
    [] OTHER    -> {r4}]
SafeNests == {<<r2, r4>>, <<r3, r1>>, <<r3, r4>>}

(* low locks r2 inside r3, both shared with mid.                           *)
NestedUses == [a \in Actors |->
  CASE a \in {low, mid} -> {r2, r3}
    [] a = high -> {r3}
    [] OTHER -> {}]
NestedNests == {<<r3, r2>>}
=============================================================================
