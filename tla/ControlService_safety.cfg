SPECIFICATION Spec
CONSTANTS
  c1 = c1
  c2 = c2
  ctrl = ctrl
  shift = shift
  letter = letter
  left = left
  right = right
  p1 = p1
  p2 = p2
  f1 = f1
  f2 = f2
  Clients <- MCClients
  Keys <- MCKeys
  Buttons <- MCButtons
  Left = left
  TextKeys <- MCTextKeys
  Points <- MCPoints
  Frames <- MCFrames
  Commands <- EveryCommand
INVARIANTS
  NothingSilentlyHeld
  OkMeansNoFailure
PROPERTIES
  AloneMeansExact
  ReleasedWhereItWent
SYMMETRY Symmetry
