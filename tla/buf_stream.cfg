SPECIFICATION FairSpec
CONSTANTS
  BufferSize = 3
  Byte <- MCByte
  WriteLens <- MCWriteLens
  ReadLens <- MCReadLens
  Reader = {r1, r2}
  MaxWritten = 5
INVARIANTS
  SignalNotLost
  FIFO
  EOFMeansDrained
PROPERTIES
  ImplementsByteStream
  ReadersReleased
