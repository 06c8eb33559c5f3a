SPECIFICATION FairSpec
CONSTANTS
  p1 = p1
  p2 = p2
  k = k
  c1 = c1
  None = None
  NoFrame = NoFrame
  Devices <- MCDevices
  Caps <- MCCaps
  RegionsOf <- MCRegionsOf
  Callers <- MCCallers
  Points <- MCPoints
  Frames <- MCFrames
  Den = 4
  MaxQueue = 1
INVARIANTS
  DevicesUsable
  ReadyIsExact
PROPERTIES
  EndsAsPromised
  CallsAreSound
  EndsWhenItMust
