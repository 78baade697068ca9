SPECIFICATION FairSpec
CONSTANTS
  t1 = t1
  t2 = t2
  Cores = {0, 1, 2}
  Spawnable = {t1, t2}
  Core <- MCCore
  Priority <- MCPriority
  Capacity <- MCCapacity
  Values = {v1, v2}
  Garbage = Garbage
  Nothing = Nothing
  HasCoreId = TRUE
  Calls <- MCCalls
  PendMayFail = TRUE
INVARIANT TypeOK
INVARIANT ReadyHasRoom
INVARIANT InputIsThere
INVARIANT SingleProducer
INVARIANT NoLostWakeup
PROPERTY ImplementsSpawnOrder
PROPERTY Served
