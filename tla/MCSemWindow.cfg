\* A tick between the queueing of a waiter and its call of schedule: the model
\* stops behind it.
SPECIFICATION KSpec
CHECK_DEADLOCK FALSE
CONSTANTS
  Idle = Idle
  RunQ = RunQ
  SlackQ = SlackQ
  Threads = {t1, t2}
  Locks = {lock}
  Events = {event}
  MaxFlag = 1
  MaxCount = 1
  MaxTicks = 2
PROPERTIES
  NoSwitchInBetween
