CONSTANTS
  Byte = {1, 2}
  NoByte = NoByte
  Cap = 4
  Chunk = 2
  MaxBytes = 5
  MaxConns = 1
SPECIFICATION FairSpec
INVARIANTS TypeOK StreamPreserved AtMostOneStranded
PROPERTIES PipeSpec WaitingChunkLeaves FullChunkStaged
