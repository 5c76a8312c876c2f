SPECIFICATION Spec
CONSTANTS
    MaxFailures = 3
    Callers = {c1, c2, c3}
    c1 = c1
    c2 = c2
    c3 = c3
INVARIANT
    HalfOpenLimitsCalls
