SPECIFICATION FairSpec
CONSTANTS
  Handlers = {h1, h2}
  Starter = starter
  FrameSizes <- MCFrameSizes
  Modes = 2
  BlankLimit = 2
INVARIANTS
  NoUseAfterFree
  FailedStartFreesAll
PROPERTIES
  ImplementsResource
  ScreenshotIsCurrent
  StartReturns
CHECK_DEADLOCK FALSE
