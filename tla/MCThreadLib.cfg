\* Safety of create, join and exit, the threads using a mutex and a condition
\* too; any of them may belong to the group; t3 is joined by anybody, at any
\* time, if it does not.
SPECIFICATION TGSpec
CONSTANTS
  None = None
  World = world
  Main = t1
  Threads = {t1, t2, t3}
  Mutexes = {world, m1, m2}
  Conds = {t1, t2, t3, c1, c2}
  JoinedOnce = {t1, t2}
  CreateFails = TRUE
  LookUps = TRUE
  TgLock = m1
  TgCond = c1
\* Threads may all have exited, or wait for one that never does.
CHECK_DEADLOCK FALSE
INVARIANTS
  JoinsInOrder
  BlocksSound
  GroupQueueSound
  JoinersAwake
PROPERTIES
  UsesCondVar
