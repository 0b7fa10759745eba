CONSTANTS
  init = init
  a = a
  b = b
  f = f
  None = None
  Tasks = {init, a, b}
  Forked = {f}
  InitTask = init
  Calls = {"fork", "thread_fork", "vanish", "wait"}
  Parents = {init}
  MaxSignals = 2
  WordSize = 4
SPECIFICATION LifeFairSpec
PROPERTIES WaiterMeetsZombie
CHECK_DEADLOCK FALSE
