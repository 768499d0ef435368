CONSTANTS
  Known <- MCKnown
  NameOf <- MCNameOf
  Ids <- MCIds
  Input <- MCInput
  ObjectName <- MCObject
  InitName <- MCInit
  LibVarargs <- MCEmpty
  LibGeneric <- MCEmpty
  LibFieldSigs <- MCEmpty
  LibSynthetic <- MCEmpty
SPECIFICATION Spec
INVARIANTS EvaluationKept AccessesResolve BlocksFollowCode DecodedAsAssembled ReadAsWritten
CHECK_DEADLOCK FALSE
