\* Two tasks that take faults at any time.
SPECIFICATION VmSpec
CONSTANTS
  a = a
  b = b
  None = None
  Tasks = {a, b}
  InitTask = a
  MaxPage = 3
  NrFrames = 4
  Values = {0, 1}
  Directory <- MCDirectory
  Image <- MCImage
  TextRange <- MCText
  StackRange <- MCStack
  Asked <- MCAsked
  Followed = {"grow_any", "fork_grown", "kernel_write"}
  MaxRefs = 2
  Top = 7
  PageSize = 2
  IntSize = 2
  UserStart = 2
  NamesLen = 2
\* After a panic nothing runs.
CHECK_DEADLOCK FALSE
INVARIANTS
  FramesSound
  ChecksSound
PROPERTIES
  ImplementsMemory
