SPECIFICATION Spec
CHECK_DEADLOCK FALSE
CONSTANTS
  FrameTicks = 2
  FirstFrames = {0, 4}
  MaxFrames = 3
  MaxSessions = 2
  MbSettings <- Intervals4
INVARIANTS RenderedWithKeys FilesComplete
PROPERTY FrameReturns
