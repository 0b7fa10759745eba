\* A screen of two by two, printers that overlap with each other and with the
\* echo of the keyboard.
SPECIFICATION COSpec
CONSTANTS
  None = None
  Printers = {p1, p2}
  Vals = {"x"}
  Colors = {0, 1}
  Width = 2
  Height = 2
SYMMETRY Symmetry
INVARIANTS
  OnScreen
PROPERTIES
  ImplementsTape
\* After a panic nothing runs.
CHECK_DEADLOCK FALSE
