SPECIFICATION FairSpec
CONSTANTS
  t1 = t1
  t2 = t2
  h1 = h1
  a = a
  b = b
  zero = zero
  NoOne = NoOne
  NoHandle = NoHandle
  Zero = zero
  Callers <- MCCallers
  Handles <- MCHandles
  Bytes <- MCBytes
  Writes <- MCWrites
  MaxRefs = 2
  MaxWrites = 2
INVARIANTS
  BufferIsTheFile
  RunsAtMostOnce
  RunsWholeWrites
PROPERTIES
  OkCloseMeansRun
  EveryCallReturns
