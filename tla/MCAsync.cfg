SPECIFICATION Spec
CONSTANTS
  t1 = t1
  t2 = t2
  C1 = 2
  Tasks = {t1, t2}
  Order <- MCOrder
  Capacity <- MCCapacity
  Values = {v1, v2}
  v1 = v1
  SpawnInputs <- MCSpawnInputs
  Garbage = Garbage
  Nothing = Nothing
  PendMayFail = TRUE
INVARIANT TypeOK
INVARIANT InputIsThere
INVARIANT QueuesHaveRoom
INVARIANT DeferredOnlyWhileRunning
INVARIANT NoLostWake
PROPERTY ImplementsSpawnOrder
