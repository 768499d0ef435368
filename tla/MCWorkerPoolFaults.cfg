\* The operating system may refuse any thread and any diagnostic may fail.
CONSTANTS
    NJobs = 3
    Threads = 2
    SpawnMayFail = TRUE
    StderrMayFail = TRUE
SPECIFICATION Spec
INVARIANTS
    NothingRunsAfterReturn
    LostOnlyIfNoThreadSurvived
PROPERTIES
    CallEnds
