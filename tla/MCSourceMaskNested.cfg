SPECIFICATION Spec
CONSTANTS
  sys = sys
  low = low
  mid = mid
  high = high
  top = top
  r1 = r1
  r2 = r2
  r3 = r3
  r4 = r4
  Idle = Idle
  NoPriority = NoPriority
  Tasks = {sys, low, mid, high, top}
  SwTasks = {mid}
  Exceptions = {sys}
  Resources = {r1, r2, r3, r4}
  Uses <- NestedUses
  Declared <- MCDeclared
  Nests <- NestedNests
  NvicPrioBits = 2
  MaxNest = 2
INVARIANT MutualExclusion
