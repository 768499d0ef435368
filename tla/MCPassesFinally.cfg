CONSTANTS
  Unroll = 1
  Bodies <- Closers
  LvtName <- MCName
  VarOrder <- MCVarOrder
  Params = {"p", "o"}
  StackVars = {"k"}
  Supers <- MCSupers
  ThrowableVars = {"t", "y1", "y2", "y3"}
  Synthetic = {"t", "k", "m", "n", "n1", "n2", "n3"}
  LockOf <- MCLockOf
  CatchVars <- MCCatchVars
  Values = {"f"}
  Discarded <- MCDiscarded
SPECIFICATION Spec
INVARIANTS MeaningKept
CHECK_DEADLOCK FALSE
