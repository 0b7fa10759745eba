\* What semaphores and reader-writer locks let in, and whom they hang.
SPECIFICATION SOSpec
CONSTANTS
  None = None
  World = world
  Main = t1
  Threads = {t1, t2}
  Mutexes = {world, m1}
  Conds = {t1, t2, c1}
  JoinedOnce = {t1, t2}
  CreateFails = TRUE
  LookUps = TRUE
  Sems = {sem}
  Events = {event}
  RWLocks = {rw}
  SemCount = 1
  MaxEvents = 1
\* Threads may all have exited, hang, or have been stopped by an assertion.
CHECK_DEADLOCK FALSE
INVARIANTS
  LetsIn
  HangsForAReason
