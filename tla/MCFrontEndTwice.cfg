CONSTANTS
  Known <- MCKnown
  NameOf <- MCNameOf
  Ids <- MCTwiceIds
  Input <- MCInput
  ObjectName <- MCObject
  InitName <- MCInit
  LibVarargs <- MCEmpty
  LibGeneric <- MCEmpty
  LibFieldSigs <- MCEmpty
  LibSynthetic <- MCEmpty
SPECIFICATION Spec
INVARIANT EvaluationKept
CHECK_DEADLOCK FALSE
