\* Six classes, as inputs in one jar or one directory, or on the class path.
CONSTANTS
    Names <- MCNames
    Digits = {"1"}
    Locals = {"1L"}
    Lambda = "lambda"
    Libraries <- MCLibraries
    Declarations <- MCDeclarations
SPECIFICATION Spec
INVARIANTS
    NoneLost
    PrintedOnce
CHECK_DEADLOCK FALSE
