\* A file system that folds case; two workers; creating and filling may fail.
CONSTANTS
    Stems <- MCStems
    Clean <- MCClean
    Lower <- MCLower
    Folds = TRUE
    Paths <- MCPaths
    MaxJobs = 4
    Commands <- MCCommands
    Writers = {"w1", "w2"}
    InPackage = {"p/A", "p/a"}
    WriteMayFail = TRUE
SPECIFICATION Spec
INVARIANTS
    TypeOK
    PathsDistinct
    NotedIffRenamed
    KeptUnlessTaken
    NoSharedFile
    KeptUnlessShared
    PrintedOnce
PROPERTIES
    CommandEnds
