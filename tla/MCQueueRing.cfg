\* The macros against lists.
SPECIFICATION RSpec
CONSTANTS
  e1 = e1
  e2 = e2
  e3 = e3
  e4 = e4
  e5 = e5
  h1 = h1
  h2 = h2
  h3 = h3
  Elems <- MCElems
  Heads <- MCHeads
INVARIANTS
  RingsSound
  ListsAndHeapsSound
  PrintsAndScans
  AlgorithmsSound
  ProgramsLoad
  MachineStarts
