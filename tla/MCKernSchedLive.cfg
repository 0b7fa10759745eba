\* What every thread may count on, with the timer ticking, in the windows too:
\* the model stops when an interrupt has queued the thread it found in one.
SPECIFICATION KFairSpec
CHECK_DEADLOCK FALSE
CONSTANTS
  Idle = Idle
  RunQ = RunQ
  SlackQ = SlackQ
  Threads = {t1, t2}
  Locks = {lock}
  Events = {event}
  MaxFlag = 1
  MaxCount = 1
  MaxTicks = 1
PROPERTIES
  RunnableRuns
  SleepersWake
  LockGranted
