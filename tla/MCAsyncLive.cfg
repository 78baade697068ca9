SPECIFICATION FairSpec
CONSTANTS
  t1 = t1
  t2 = t2
  C1 = 1
  Tasks = {t1, t2}
  Order <- MCOrder
  Capacity <- MCCapacity
  Values = {v1}
  v1 = v1
  SpawnInputs <- MCSpawnInputs
  Garbage = Garbage
  Nothing = Nothing
  PendMayFail = FALSE
PROPERTY FutureCompletes
PROPERTY SpawnServed
