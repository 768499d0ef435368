\* Two jobs on one thread; a method inside a method inside a method is too deep.
CONSTANTS
    Classes <- MCClasses
    Roots = {"R", "S"}
    Members <- MCMembers
    Enums <- MCEnums
    Bodies <- MCBodies
    Inlined <- MCInlined
    Locals <- MCLocals
    NMethods = 2
    Dups <- MCDups
    MaxDepth = 2
SPECIFICATION Spec
INVARIANTS
    RegistriesFollowCalls
    NoReentry
PROPERTIES
    JobsEnd
CHECK_DEADLOCK FALSE
