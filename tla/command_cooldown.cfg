\* The clock outlasts two cooldowns and the age at which entries are cleaned up, and
\* half seconds are told rounded down as well as up.
SPECIFICATION Spec
CONSTANTS
    Keys = {k1, k2}
    Callers = {c1, c2}
    Cooldown = 4
    TicksPerSecond = 2
    MaxTime = 12
    k1 = k1
    k2 = k2
    c1 = c1
    c2 = c2
SYMMETRY CommandSymmetry
INVARIANTS
    TypeOK
    CooldownExact
    RemainingSuffices
PROPERTY
    AcceptedApart
