SPECIFICATION Spec
CONSTANTS
  a = a
  b = b
  NUL = NUL
  Bytes = {a, b, NUL}
  Chunks <- Anything
  Modes = {"r", "r+", "w", "w+", "a", "a+"}
  MaxCapacity = 3
  MaxRead = 4
  Closed = Closed
SYMMETRY Letters
INVARIANTS
  Terminated
PROPERTIES
  StaysInside
  ImplementsFile
