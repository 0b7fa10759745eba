\* A ring of three, two readers, keys at any time; every key of the keyboard in
\* every state of its modifiers.
SPECIFICATION KBSpec
CONSTANTS
  None = None
  Readers = {r1, r2}
  GetsChars = {r1}
  GetsLines = {r1, r2}
  Plain = {"x"}
  Lens = {0, 1, 2}
  Size = 4
  MaxCount = 4
INVARIANTS
  LinesForReaders
  KeysSound
PROPERTIES
  ImplementsLineBuffer
\* The model stops where two have met inside the ring.
CHECK_DEADLOCK FALSE
