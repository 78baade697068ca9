SPECIFICATION Spec
CONSTANTS
  Senders = {s1, s2}
  First = s1
  N = 2
  MaxSent = 2
  None = None
CHECK_DEADLOCK FALSE
INVARIANT TypeOK
INVARIANT SlotsConserved
INVARIANT ListIsLine
INVARIANT NoLostWake
PROPERTY NobodyWaitsForever
PROPERTY ImplementsBoundedChannel
