CONSTANTS
  Byte = {1}
  NoByte = NoByte
  Cap = 4
  Chunk = 2
  MaxBytes = 5
  MaxConns = 1
SPECIFICATION FairSpec
PROPERTY RemainderStaged
