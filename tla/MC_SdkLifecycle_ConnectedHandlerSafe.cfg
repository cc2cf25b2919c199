CONSTANTS
  t1 = t1
  t2 = t2
  ThreadNames <- MCThreadNames
  Tracks <- MCTracks
SPECIFICATION Spec
CHECK_DEADLOCK FALSE
INVARIANT ConnectedHandlerSafe
