\* Two jobs on one thread.
CONSTANTS
    Classes <- MCClasses
    Roots = {"R", "S"}
    Members <- MCMembers
    Enums <- MCEnums
    Bodies <- MCBodies
    Inlined <- MCInlined
    Locals <- MCLocals
    NMethods = 1
    Dups <- MCDups
    MaxDepth = 2
SPECIFICATION Spec
INVARIANT Reproducible
CHECK_DEADLOCK FALSE
