SPECIFICATION MemStreamSpec
CONSTANTS
  a = a
  NUL = NUL
  Bytes = {a, NUL}
  Chunks <- ShortChunks
  BUFSIZ = 2
  MaxPos = 7
  Closed = Closed
INVARIANTS
  Published
  ZeroBehindData
PROPERTY
  ImplementsByteFile
