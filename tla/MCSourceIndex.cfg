\* Up to three sources, inputs first.
CONSTANTS
    Names = {"A", "A$B"}
    Libraries <- MCLibraries
    MaxSources = 3
SPECIFICATION Spec
INVARIANTS
    NamesResolve
    InputDirNotMasked
    FamilyIsPrimary
CHECK_DEADLOCK FALSE
