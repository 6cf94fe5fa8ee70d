SPECIFICATION Spec
CONSTANTS
  None = None
  NoThread = NoThread
INVARIANT PollsWhilePending
CHECK_DEADLOCK FALSE
