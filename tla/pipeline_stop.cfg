SPECIFICATION Spec
CONSTANTS
    Msgs = {m1, m2}
    BatchSize = 2
    MaxGoroutines = 1
    MaxFailures = 1
    m1 = m1
    m2 = m2
PROPERTY
    StopFlushesRemaining
