CONSTANTS
  t1 = t1
  t2 = t2
  ThreadNames <- MCThreadNames
  Tracks <- MCTracks
SPECIFICATION Spec
INVARIANT CallbackThreadLive
INVARIANT ReaderSafe
CHECK_DEADLOCK FALSE
