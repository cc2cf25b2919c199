CONSTANTS
  Files <- MCFilesAll
  MaxBuffer = 12
SPECIFICATION Spec
INVARIANTS TypeOK FrameFromFile
