SPECIFICATION Spec
CONSTANTS
  low = low
  mid1 = mid1
  mid2 = mid2
  top = top
  r0 = r0
  r1 = r1
  r2 = r2
  r4 = r4
  Idle = Idle
  NoPriority = NoPriority
  Tasks = {low, mid1, mid2, top}
  SwTasks = {mid1}
  Exceptions = {mid2}
  Resources = {r1, r2, r4}
  Uses <- MCUses
  Declared <- SwDefaultDeclared
  NvicPrioBits = 2
  MaxNest = 2
INVARIANT MutualExclusion
