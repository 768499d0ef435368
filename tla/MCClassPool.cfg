\* Two threads; a cap of two, one entry of it taken by the pinned class: a
\* second published class evicts the first, while L1s of two entries clear.
\* "x" is listed but does not parse, "m" is in no source.
CONSTANTS
    t1 = t1
    t2 = t2
    Names = {"p", "a", "b", "x", "m"}
    Threads = {t1, t2}
    Pinned = {"p"}
    Indexed = {"a", "b", "x"}
    Unparsable = {"x"}
    Cap = 2
    L1Cap = 2
    ReadMayFail = FALSE
    MaxCalls = 3
SPECIFICATION Spec
INVARIANTS
    TypeOK
    CacheDiscipline
    LookupIsPure
    PinnedStay
PROPERTIES
    LookupsEnd
CHECK_DEADLOCK FALSE
