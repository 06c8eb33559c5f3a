SPECIFICATION Spec
CONSTANTS
  t1 = t1
  t2 = t2
  h1 = h1
  a = a
  b = b
  zero = zero
  NoOne = NoOne
  NoHandle = NoHandle
  Zero = zero
  Callers <- MCCallers
  Handles <- MCHandles
  Bytes <- MCBytes
  Writes <- TwoWrites
  MaxRefs = 2
  MaxWrites = 3
INVARIANTS
  EveryWriteRuns
