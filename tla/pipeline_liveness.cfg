\* Two deliveries: a batch of one has to wait for the timer.
SPECIFICATION FairSpec
CONSTANTS
    Msgs = {m1, m2}
    BatchSize = 2
    MaxGoroutines = 1
    MaxFailures = 1
    m1 = m1
    m2 = m2
PROPERTIES
    StopReturns
    EveryMessageDecided
