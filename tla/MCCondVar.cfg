\* Three threads, two mutexes and a condition variable: safety, what the
\* wake-ups lead to, and the condition variable as a monitor.
SPECIFICATION CVFairSpec
CONSTANTS
  None = None
  Threads = {t1, t2, t3}
  Mutexes = {world, m1}
  Conds = {c1}
  World = world
\* Everybody waiting with nobody left to signal is the callers' doing.
CHECK_DEADLOCK FALSE
INVARIANTS
  TypeOK
  LocksExact
  WakeupsExact
  NoSpinDeadlock
PROPERTIES
  NotifiedResumes
  ImplementsMonitor
