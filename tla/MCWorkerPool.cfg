\* Threads are always granted and diagnostics always printed: panics and
\* errors only.  2 workers on 4 jobs: a slot can be replaced several times
\* while the other runs, exits or panics.
CONSTANTS
    NJobs = 4
    Threads = 2
    SpawnMayFail = FALSE
    StderrMayFail = FALSE
SPECIFICATION Spec
INVARIANTS
    TypeOK
    NoContaminatedRender
    WrittenIsExact
    ReturnIsComplete
PROPERTIES
    AttemptedOnce
    RefinesBatch
