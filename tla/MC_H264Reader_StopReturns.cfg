CONSTANTS
  Files <- MCFilesNoSlice
  MaxBuffer = 12
SPECIFICATION Spec
PROPERTY StopReturns
