SPECIFICATION Spec
CONSTANTS
  Values = {a, b, c}
  None = None
  DEPTH = 4
  IndexMod = 8
INVARIANT TypeOK
INVARIANT OneAlwaysUnused
INVARIANT SlotExclusive
PROPERTY ImplementsFifo
