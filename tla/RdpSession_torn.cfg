SPECIFICATION Spec
CONSTANTS
  Handlers = {h1, h2}
  Starter = starter
  FrameSizes <- MCFrameSizes
  Modes = 2
  BlankLimit = 2
PROPERTIES
  ScreenshotIsTheFramebuffer
CHECK_DEADLOCK FALSE
