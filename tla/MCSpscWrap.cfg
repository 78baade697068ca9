SPECIFICATION Spec
CONSTANTS
  Values = {a}
  None = None
  DEPTH = 3
  IndexMod = 8
INVARIANT OneAlwaysUnused
