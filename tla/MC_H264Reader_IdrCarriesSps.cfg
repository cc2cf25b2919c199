CONSTANTS
  Files <- MCFilesGood
  MaxBuffer = 12
SPECIFICATION Spec
INVARIANT IdrCarriesSps
