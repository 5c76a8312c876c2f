\* Three callers: the results of two calls can be overtaken by those of a third.
\* No symmetry, which the liveness properties would not allow.
SPECIFICATION FairSpec
CONSTANTS
    MaxFailures = 4
    Callers = {c1, c2, c3}
    c1 = c1
    c2 = c2
    c3 = c3
INVARIANTS
    TypeOK
    CountersExplainState
    FailuresBounded
PROPERTIES
    TripsAndRecoversOnRuns
    OpenIsProbed
    Recovers
