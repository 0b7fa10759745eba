CONSTANTS
  init = init
  a = a
  b = b
  f = f
  None = None
  Tasks = {init, a, b}
  Forked = {f}
  InitTask = init
  Calls = {"fork", "thread_fork", "vanish", "fault", "fatal", "task_vanish", "wait"}
  Parents = {init, a, b}
  MaxSignals = 2
  WordSize = 4
SPECIFICATION LifeSpec
INVARIANTS ArgumentsArrive TreeSound WaitsExact FreedIsLeft FramesKept
CHECK_DEADLOCK FALSE
SYMMETRY MCSym
