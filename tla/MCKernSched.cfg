\* Safety of scheduler, semaphores and sleep, with interrupts in every window.
\* The model stops when one has queued the thread it found there.
SPECIFICATION KSpec
CHECK_DEADLOCK FALSE
CONSTANTS
  Idle = Idle
  RunQ = RunQ
  SlackQ = SlackQ
  Threads = {t1, t2, t3}
  Locks = {lock}
  Events = {event}
  MaxFlag = 2
  MaxCount = 1
  MaxTicks = 2
SYMMETRY Symmetry
INVARIANTS
  QueuesSound
  CountIsWaiters
  LockHasOneHolder
PROPERTIES
  SleepsItsTicks
