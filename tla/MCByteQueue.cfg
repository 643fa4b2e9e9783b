CONSTANTS
  Size = 4
  Byte <- MCByte
  Chunks <- MCChunks
  Lens <- MCLens
SPECIFICATION Spec
INVARIANTS TypeOK PeekWithinQueue
PROPERTY ImplementsFifo
