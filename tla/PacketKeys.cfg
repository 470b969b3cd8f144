SPECIFICATION PSpec
CONSTANTS
  Half = 3
  Chunk = 2
  Chunks = 3
  MaxPos = 12
  MaxLen = 2
  Block = 1
  MaxSent = 9
\* a crypt does nothing any more once it is freed
CHECK_DEADLOCK FALSE
INVARIANTS TypeOK BufferSound Reconstructs DecryptsRight
PROPERTY GeneratorWakes
