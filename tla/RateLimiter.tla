---------------------------- MODULE RateLimiter ----------------------------
(***************************************************************************)
(* The sliding-window limiter of messages, internal/pkg/ratelimit.go.      *)
(* Every method runs under one mutex, so each is one action.               *)
(*                                                                         *)
(* An entry keeps the times of the accepted messages as a set: two         *)
(* readings of the nanosecond clock under one mutex differ, so every       *)
(* method comes with a tick of its own, and further ticks may pass         *)
(* without one.  The cleanup goroutine may run at any time, rather than    *)
(* every CleanupPeriod.                                                    *)
(***************************************************************************)
EXTENDS Integers, FiniteSets

CONSTANTS
    Users, Guilds,
    UserLimit, GuildLimit,     \* UserPerMinute, GuildPerMinute
    WindowSize,
    CleanupPeriod,
    MaxEntries,                \* maxEntries
    MaxTime                    \* bound: the clock stops here

ASSUME RateAssumption ==
    /\ UserLimit \in Nat \ {0}
    /\ GuildLimit \in Nat \ {0}
    /\ WindowSize \in Nat \ {0}
    /\ CleanupPeriod \in Nat \ {0}
    /\ MaxEntries \in Nat \ {0}
    /\ MaxTime \in Nat

VARIABLES
    now,
    userLimits,        \* a map from some of the users to entries
    guildLimits,       \* the same of the guilds
    cleanupLoop,       \* "running", "cancelled" or "exited"
    userAccepted,      \* history: when each user's messages were accepted, since
                       \* the user was last evicted
    guildAccepted,     \* history: the same of the guilds, which are never evicted
    cleanedAt          \* history: the time of the last cleanup

code == <<userLimits, guildLimits, cleanupLoop>>
history == <<userAccepted, guildAccepted, cleanedAt>>
vars == <<now, code, history>>

Times == 1 .. MaxTime

Entry == [timestamps : SUBSET Times, lastClean : Times]

IsMap(map, keys) == DOMAIN map \subseteq keys /\ \A x \in DOMAIN map : map[x] \in Entry

TypeOK ==
    /\ now \in 0 .. MaxTime
    /\ IsMap(userLimits, Users)
    /\ IsMap(guildLimits, Guilds)
    /\ cleanupLoop \in {"running", "cancelled", "exited"}
    /\ userAccepted \in [Users -> SUBSET Times]
    /\ guildAccepted \in [Guilds -> SUBSET Times]
    /\ cleanedAt \in 0 .. MaxTime

EmptyMap == [x \in {} |-> 0]

Init ==
    /\ now = 0
    /\ userLimits = EmptyMap
    /\ guildLimits = EmptyMap
    /\ cleanupLoop = "running"
    /\ userAccepted = [u \in Users |-> {}]
    /\ guildAccepted = [g \in Guilds |-> {}]
    /\ cleanedAt = 0

\* The times of a set that are still inside the window at a given time.
InWindow(times, at) == {t \in times : t > at - WindowSize}

\* Mutant: the creation time of an entry is forgotten.
NewEntryUntimed(at) == [timestamps |-> {}, lastClean |-> 0]

NewEntry(at) == [timestamps |-> {}, lastClean |-> at]

Without(map, gone) == [x \in DOMAIN map \ gone |-> map[x]]

\* The map once the key's entry has been created, if need be, and pruned.
Pruned(map, key, at) ==
    [x \in DOMAIN map \cup {key} |->
        CASE x # key -> map[x]
          [] x = key /\ x \in DOMAIN map ->
                [map[x] EXCEPT !.timestamps = InWindow(@, at)]
          [] OTHER -> NewEntry(at)]

\* The map once the time has been added to the key's entry.
Added(map, key, at) == [map EXCEPT ![key].timestamps = @ \cup {at}]

\* Mutant: one message too many.
FullLate(map, key, limit) == Cardinality(map[key].timestamps) > limit

Full(map, key, limit) == Cardinality(map[key].timestamps) >= limit

(***************************************************************************)
(* evictOldestUser: one of the entries created first, whichever the        *)
(* iteration of the map meets first.  lastClean is never written again     *)
(* after the creation.                                                     *)
(***************************************************************************)
Oldest(map) == {u \in DOMAIN map : \A v \in DOMAIN map : map[u].lastClean <= map[v].lastClean}

VictimsAbove(size) ==
    IF Cardinality(DOMAIN userLimits) >= size
    THEN {{u} : u \in Oldest(userLimits)} ELSE {{}}

\* Mutant: the map is let grow over its bound.
VictimsLate == VictimsAbove(MaxEntries + 1)

\* A full map loses an entry before the user is looked up, even when that user has
\* an entry already, and even that one.
Victims == VictimsAbove(MaxEntries)

CheckUser(u) ==
    /\ now < MaxTime
    /\ now' = now + 1
    /\ \E gone \in Victims :
         LET map == Pruned(Without(userLimits, gone), u, now + 1)
             accepted == [v \in Users |-> IF v \in gone THEN {} ELSE userAccepted[v]]
         IN  \/ /\ Full(map, u, UserLimit)
                /\ userLimits' = map
                /\ userAccepted' = accepted
             \/ /\ ~Full(map, u, UserLimit)
                /\ userLimits' = Added(map, u, now + 1)
                /\ userAccepted' = [accepted EXCEPT ![u] = @ \cup {now + 1}]
    /\ UNCHANGED <<guildLimits, cleanupLoop, guildAccepted, cleanedAt>>

CheckGuild(g) ==
    /\ now < MaxTime
    /\ now' = now + 1
    /\ LET map == Pruned(guildLimits, g, now + 1)
       IN  \/ /\ Full(map, g, GuildLimit)
              /\ guildLimits' = map
              /\ UNCHANGED guildAccepted
           \/ /\ ~Full(map, g, GuildLimit)
              /\ guildLimits' = Added(map, g, now + 1)
              /\ guildAccepted' = [guildAccepted EXCEPT ![g] = @ \cup {now + 1}]
    /\ UNCHANGED <<userLimits, cleanupLoop, userAccepted, cleanedAt>>

\* Mutant: entries are removed by their age alone.
InactiveByAge(map, at) == {x \in DOMAIN map : map[x].lastClean < at - CleanupPeriod}

\* What cleanup takes for inactive.  Entries are pruned by the checks alone, and
\* a check leaves its entry with a timestamp.
Inactive(map, at) ==
    {x \in DOMAIN map : map[x].timestamps = {} /\ map[x].lastClean < at - CleanupPeriod}

\* cleanup.  The loop's select may still take a tick once it has been cancelled.
Cleanup ==
    /\ cleanupLoop # "exited"
    /\ now < MaxTime
    /\ now' = now + 1
    /\ userLimits' = Without(userLimits, Inactive(userLimits, now + 1))
    /\ guildLimits' = Without(guildLimits, Inactive(guildLimits, now + 1))
    /\ cleanedAt' = now + 1
    /\ UNCHANGED <<cleanupLoop, userAccepted, guildAccepted>>

Stop ==
    /\ cleanupLoop = "running"
    /\ cleanupLoop' = "cancelled"
    /\ UNCHANGED <<now, userLimits, guildLimits, history>>

LoopExits ==
    /\ cleanupLoop = "cancelled"
    /\ cleanupLoop' = "exited"
    /\ UNCHANGED <<now, userLimits, guildLimits, history>>

Tick ==
    /\ now < MaxTime
    /\ now' = now + 1
    /\ UNCHANGED <<code, history>>

Next ==
    \/ \E u \in Users : CheckUser(u)
    \/ \E g \in Guilds : CheckGuild(g)
    \/ Cleanup
    \/ Stop
    \/ LoopExits
    \/ Tick

Spec == Init /\ [][Next]_vars
-----------------------------------------------------------------------------
\* What the entries of a map hold of the accepted messages that are inside the
\* window: all of them and nothing else; a key without an entry has none.
Explained(map, accepted, at) ==
    \A x \in DOMAIN accepted :
        InWindow(accepted[x], at) =
            IF x \in DOMAIN map THEN InWindow(map[x].timestamps, at) ELSE {}

\* Pruning and cleanup forget nothing that still counts: but for an eviction the
\* limiter decides as if it had kept every accepted message for ever
\* (CheckUser, CheckGuild, cleanup).
NothingForgotten ==
    /\ Explained(userLimits, userAccepted, now)
    /\ Explained(guildLimits, guildAccepted, now)

\* The messages of any interval as long as the window.
Between(times, start) == {t \in times : start <= t /\ t < start + WindowSize}

Limited(accepted, limit) ==
    \A x \in DOMAIN accepted, start \in Times :
        Cardinality(Between(accepted[x], start)) <= limit

\* No interval as long as the window, wherever it starts, has more accepted
\* messages of a guild than the guild's limit, nor more of a user between two
\* evictions than the user's limit (CheckUser, CheckGuild).
WindowsLimited == Limited(userAccepted, UserLimit) /\ Limited(guildAccepted, GuildLimit)

\* "Prevent memory exhaustion" (ratelimit.go:72): the map of the users never has more
\* than MaxEntries entries, and no entry more timestamps than its limit.
MemoryBounded ==
    /\ Cardinality(DOMAIN userLimits) <= MaxEntries
    /\ \A u \in DOMAIN userLimits : Cardinality(userLimits[u].timestamps) <= UserLimit
    /\ \A g \in DOMAIN guildLimits : Cardinality(guildLimits[g].timestamps) <= GuildLimit

\* As documented: "removes the user with the oldest activity" (ratelimit.go:180), "LRU
\* eviction" (SECURITY.md:107).  An evicted user has no message later than all of
\* those of a user whose entry is kept.
EvictsOldestActivity ==
    [][\A u \in DOMAIN userLimits \ DOMAIN userLimits', v \in DOMAIN userLimits \cap DOMAIN userLimits' :
         \A t \in userLimits[u].timestamps : \E s \in userLimits[v].timestamps : s >= t]_vars

\* As commented: "cleanupLoop periodically removes inactive users/guilds from memory"
\* (ratelimit.go:143).  After a cleanup no entry is left without a message since
\* CleanupPeriod before it.
CleanupRemovesInactive ==
    \A u \in DOMAIN userLimits :
        \E t \in userLimits[u].timestamps \cup {userLimits[u].lastClean} :
            t >= cleanedAt - CleanupPeriod
=============================================================================
