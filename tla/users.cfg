\* u1 is at Discord, u2 is not any more but has a row.  Where as many users as the limit
\* of the refresh are gone, they leave no room for others (a limit of 2 and one of them
\* are the fewest for which a name must catch up).  One entry makes the cache evict at
\* every turn.  The bounds on renames and messages also make u1 quiet in the end.
SPECIFICATION Spec
CONSTANTS
    Users = {u1, u2}
    Gone = {u2}
    Callers = {c1}
    MaxCacheSize = 1
    RefreshLimit = 2
    MaxRenames = 1
    MaxPosts = 2
    u1 = u1
    u2 = u2
    c1 = c1
INVARIANTS
    TypeOK
    CacheBounded
    CacheFollowsRow
PROPERTIES
    NameGoesBackByOverlap
    ActivityGoesBackByRace
    NameCatchesUp
