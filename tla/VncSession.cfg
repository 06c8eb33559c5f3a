SPECIFICATION FairSpec
CONSTANTS
  Handlers = {h1, h2}
  Runes = 2
  MaxScreen = 3
INVARIANTS
  NoUseAfterFree
  CallsDoNotMix
PROPERTIES
  FrameFollowsScreen
  CloseReturns
  ImplementsResource
CHECK_DEADLOCK FALSE
