CONSTANTS
  Files <- MCFilesGood
  MaxBuffer = 12
SPECIFICATION Spec
INVARIANTS FramesFollowFile KeyFrameIffIdr
PROPERTIES StopReturns KeyFrameSent
