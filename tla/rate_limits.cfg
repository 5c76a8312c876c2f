CONSTANTS
    u1 = u1
    u2 = u2
    u3 = u3
    g1 = g1
    Users = {u1, u2, u3}
    Guilds = {g1}
    UserLimit = 2
    GuildLimit = 2
    WindowSize = 4
    CleanupPeriod = 2
    MaxEntries = 2
    MaxTime = 7
SPECIFICATION Spec
SYMMETRY UserSymmetry
CHECK_DEADLOCK FALSE
INVARIANTS TypeOK NothingForgotten WindowsLimited MemoryBounded
