\* Three deliveries and batches of two, so that a full buffer, a timer flush and
\* the flush of Stop can cut batches in one behaviour; one inserter at a time and
\* a breaker that trips on the first failure, so that every drop is reached.
SPECIFICATION Spec
CONSTANTS
    Msgs = {m1, m2, m3}
    BatchSize = 2
    MaxGoroutines = 1
    MaxFailures = 1
    m1 = m1
    m2 = m2
    m3 = m3
SYMMETRY MessageSymmetry
INVARIANTS
    TypeOK
    GoroutinesTracked
    BatchesBounded
    MetricsAccount
    DrainedMeansQuiet
    BacklogBounded
PROPERTIES
    KeepsLedger
    NoSpawnAfterStopFlushed
