----------------------------- MODULE UserService -----------------------------
(***************************************************************************)
(* The users table and the cache in front of it                            *)
(* (internal/users/cached_user_service.go, db/users.sql.go): the calls of  *)
(* GetUser by command handlers, the job that refreshes users every half    *)
(* hour, and the goroutines that record the activity of a user, one per    *)
(* message.                                                                *)
(*                                                                         *)
(* A name is the number of times the user was renamed before, so that      *)
(* newer names are larger; a message is the number of its user's messages  *)
(* up to it.  There is no clock: rows and entries of the cache are kept in *)
(* the order in which they were touched, and an hour has passed for a      *)
(* prefix of them, which grows by steps of its own.  The fields of cached  *)
(* users that RecordUserActivity writes are read by nobody and left out.   *)
(***************************************************************************)
EXTENDS Naturals, SequencesExt

CONSTANTS
    Users,
    Gone,            \* users that Discord does not return any more, with rows from before
    Callers,         \* goroutines of command handlers
    MaxCacheSize,    \* maxCacheSize
    RefreshLimit,    \* the LIMIT of GetUsersNeedingRefresh
    MaxRenames,      \* bound on the renames of a user
    MaxPosts         \* bound on the messages of a user

ASSUME UserServiceAssumption ==
    /\ Gone \subseteq Users /\ IsFiniteSet(Gone)
    /\ "job" \notin Callers
    /\ MaxCacheSize \in Nat \ {0}
    /\ RefreshLimit \in Nat \ {0}
    /\ MaxRenames \in Nat
    /\ MaxPosts \in Nat

Known == Users \ Gone
Processes == Callers \cup {"job"}
NoName == MaxRenames + 1

VARIABLES
    name,          \* the name of each user at Discord (external)
    posts,         \* how many messages each user has sent (external)
    username,      \* users.username, NoName: no row
    lastMessage,   \* users.last_message_at, 0: NULL
    order,         \* the users that have a row, by last_updated_at
    stale,         \* how many of them were last updated an hour ago or earlier
    cache,         \* us.cache, by CachedAt
    expired,       \* how many of its entries have expired
    calls,         \* where each process is
    todo,          \* the rest of staleUsers in RefreshStaleUsers
    refreshing,    \* the job is in RefreshStaleUsers
    activities,    \* goroutines of messageCreate that have yet to record their message
    overlapped,    \* history: users for whom a call took a name while another one held one
    unreported     \* history: users with an upsert that took effect and returned an error

discordVars == <<name, posts>>
rowVars == <<username, lastMessage, order, stale>>
cacheVars == <<cache, expired>>
jobVars == <<todo, refreshing>>
historyVars == <<overlapped, unreported>>
vars == <<discordVars, rowVars, cacheVars, calls, jobVars, activities, historyVars>>

Places == {"idle", "read", "cacheRow", "fetch", "upsert", "cacheNew"}
Rows == ToSet(order)
Idle == [at |-> "idle", user |-> "nobody", name |-> NoName]

TypeOK ==
    /\ name \in [Users -> 0..MaxRenames]
    /\ posts \in [Users -> 0..MaxPosts]
    /\ username \in [Users -> 0..NoName]
    /\ lastMessage \in [Users -> 0..MaxPosts]
    /\ order \in Seq(Users) /\ IsInjective(order) /\ stale \in 0..Len(order)
    /\ \A u \in Users : u \in Rows <=> username[u] # NoName
    /\ cache \in Seq([user : Users, name : 0..MaxRenames])
    /\ expired \in 0..Len(cache)
    /\ calls \in [Processes -> [at : Places, user : Users \cup {"nobody"}, name : 0..NoName]]
    /\ todo \in Seq(Users)
    /\ refreshing \in BOOLEAN
    /\ activities \subseteq [user : Users, post : 1..MaxPosts]
    /\ overlapped \subseteq Users
    /\ unreported \subseteq Users

Init ==
    /\ name = [u \in Users |-> 0]
    /\ posts = [u \in Users |-> 0]
    /\ username = [u \in Users |-> IF u \in Gone THEN 0 ELSE NoName]
    /\ lastMessage = [u \in Users |-> 0]
    /\ order = SetToSeq(Gone)
    /\ stale = 0
    /\ cache = <<>>
    /\ expired = 0
    /\ calls = [p \in Processes |-> Idle]
    /\ todo = <<>>
    /\ refreshing = FALSE
    /\ activities = {}
    /\ overlapped = {}
    /\ unreported = {}
-----------------------------------------------------------------------------
(***************************************************************************)
(* The table.                                                              *)
(***************************************************************************)

\* last_updated_at = NOW(): the row of the user, if there is one, moves to the end.
Touch(u) ==
    \/ /\ u \notin Rows
       /\ order' = Append(order, u)
       /\ UNCHANGED stale
    \/ \E i \in DOMAIN order :
          /\ order[i] = u
          /\ order' = Append(RemoveAt(order, i), u)
          /\ stale' = IF i <= stale THEN stale - 1 ELSE stale

Stale(u) == \E i \in 1..stale : order[i] = u

GetUsersNeedingRefresh == SubSeq(order, 1, IF stale < RefreshLimit THEN stale ELSE RefreshLimit)

\* Mutant: the column is overwritten with the NULL of the parameters.
UpsertUserForgets(u, n) ==
    /\ username' = [username EXCEPT ![u] = n]
    /\ lastMessage' = [lastMessage EXCEPT ![u] = 0]
    /\ Touch(u)

\* GREATEST ignores the NULL that fetchAndUpdateUser passes as the last message.
UpsertUser(u, n) ==
    /\ username' = [username EXCEPT ![u] = n]
    /\ UNCHANGED lastMessage
    /\ Touch(u)

\* Mutant: an INSERT ... ON CONFLICT, by which a user without a row gets one.
UpdateUserLastMessageOrInsert(u, post) ==
    /\ lastMessage' = [lastMessage EXCEPT ![u] = post]
    /\ Touch(u)
    /\ UNCHANGED username

\* There is no GREATEST here.  A user without a row is not recorded.
UpdateUserLastMessage(u, post) ==
    /\ UNCHANGED username
    /\ IF u \in Rows
       THEN lastMessage' = [lastMessage EXCEPT ![u] = post] /\ Touch(u)
       ELSE UNCHANGED <<lastMessage, order, stale>>

\* An hour has passed since the oldest of the recent updates.
AgeRow ==
    /\ stale < Len(order)
    /\ stale' = stale + 1
    /\ UNCHANGED <<discordVars, username, lastMessage, order, cacheVars, calls, jobVars, activities, historyVars>>
-----------------------------------------------------------------------------
(***************************************************************************)
(* The cache.                                                              *)
(***************************************************************************)

CachedUsers == {cache[i].user : i \in DOMAIN cache}

\* GetUser answers from the cache.
Hit(u) == \E i \in (expired + 1)..Len(cache) : cache[i].user = u

\* The entries kept give way to one for u that has just been made.
StoreAfter(kept, keptExpired, u, n) ==
    LET entry == [user |-> u, name |-> n]
    IN  \/ /\ \A i \in DOMAIN kept : kept[i].user # u
           /\ cache' = Append(kept, entry)
           /\ expired' = keptExpired
        \/ \E i \in DOMAIN kept :
              /\ kept[i].user = u
              /\ cache' = Append(RemoveAt(kept, i), entry)
              /\ expired' = IF i <= keptExpired THEN keptExpired - 1 ELSE keptExpired

\* The oldest entry is evicted, which is an expired one if there are any.
StoreEvicting(u, n) == StoreAfter(Tail(cache), IF expired > 0 THEN expired - 1 ELSE 0, u, n)

\* Mutant: the comparison is off by one.
UpdateCacheOverfull(u, n) ==
    IF Len(cache) > MaxCacheSize THEN StoreEvicting(u, n) ELSE StoreAfter(cache, expired, u, n)

\* A full cache loses its oldest entry, even if the new one replaces another.
UpdateCache(u, n) ==
    IF Len(cache) >= MaxCacheSize THEN StoreEvicting(u, n) ELSE StoreAfter(cache, expired, u, n)

\* An hour has passed since the oldest entry that has not expired was cached.
AgeEntry ==
    /\ expired < Len(cache)
    /\ expired' = expired + 1
    /\ UNCHANGED <<discordVars, rowVars, cache, calls, jobVars, activities, historyVars>>

CleanupExpiredEntries ==
    /\ cache' = SubSeq(cache, expired + 1, Len(cache))
    /\ expired' = 0
-----------------------------------------------------------------------------
(***************************************************************************)
(* GetUser, and fetchAndUpdateUser, which the job calls too.               *)
(***************************************************************************)

Goto(p, place) == calls' = [calls EXCEPT ![p].at = place]
Return(p) == calls' = [calls EXCEPT ![p] = Idle]

\* A call has a name for u that it has yet to write to the row or into the cache.
Holds(p, u) == calls[p].user = u /\ calls[p].at \in {"cacheRow", "upsert", "cacheNew"}

Take(p, n, place) ==
    LET u == calls[p].user
    IN  /\ calls' = [calls EXCEPT ![p] = [at |-> place, user |-> u, name |-> n]]
        /\ overlapped' = IF \E q \in Processes \ {p} : Holds(q, u)
                         THEN overlapped \cup {u} ELSE overlapped
        /\ UNCHANGED unreported

\* A caller that misses the cache.
GetUser(p) ==
    /\ p \in Callers
    /\ calls[p].at = "idle"
    /\ \E u \in Users : ~Hit(u) /\ calls' = [calls EXCEPT ![p] = [at |-> "read", user |-> u, name |-> NoName]]
    /\ UNCHANGED <<discordVars, rowVars, cacheVars, jobVars, activities, historyVars>>

\* A row that is recent will do.  If there is none, or it is stale, or cannot be read,
\* Discord is asked.
ReadRow(p) ==
    LET u == calls[p].user
    IN  /\ calls[p].at = "read"
        /\ \/ u \in Rows /\ ~Stale(u) /\ Take(p, username[u], "cacheRow")
           \/ Goto(p, "fetch") /\ UNCHANGED historyVars
        /\ UNCHANGED <<discordVars, rowVars, cacheVars, jobVars, activities>>

\* Mutant: the answer comes from a cache of the client.
FetchRemembered(p) ==
    /\ calls[p].at = "fetch"
    /\ calls[p].user \in Known
    /\ \E n \in 0..name[calls[p].user] : Take(p, n, "upsert")
    /\ UNCHANGED <<discordVars, rowVars, cacheVars, jobVars, activities>>

Fetch(p) ==
    /\ calls[p].at = "fetch"
    /\ calls[p].user \in Known
    /\ Take(p, name[calls[p].user], "upsert")
    /\ UNCHANGED <<discordVars, rowVars, cacheVars, jobVars, activities>>

Upsert(p) ==
    /\ calls[p].at = "upsert"
    /\ UpsertUser(calls[p].user, calls[p].name)
    /\ Goto(p, "cacheNew")
    /\ UNCHANGED <<discordVars, cacheVars, jobVars, activities, historyVars>>

\* Mutant: the job gives up at the first user that fails.
FailAll(p) ==
    /\ calls[p].at \in {"fetch", "upsert"}
    /\ \/ UNCHANGED <<rowVars, unreported>>
       \/ /\ calls[p].at = "upsert"
          /\ UpsertUser(calls[p].user, calls[p].name)
          /\ unreported' = unreported \cup {calls[p].user}
    /\ Return(p)
    /\ todo' = IF p = "job" THEN <<>> ELSE todo
    /\ UNCHANGED <<discordVars, cacheVars, refreshing, activities, overlapped>>

\* Mutant: the error of the upsert is not looked at.
FailUnnoticed(p) ==
    /\ calls[p].at \in {"fetch", "upsert"}
    /\ IF calls[p].at = "upsert" THEN Goto(p, "cacheNew") ELSE Return(p)
    /\ UNCHANGED <<discordVars, rowVars, cacheVars, jobVars, activities, historyVars>>

\* Discord fails, or the upsert returns an error, with or without effect.
Fail(p) ==
    /\ calls[p].at \in {"fetch", "upsert"}
    /\ \/ UNCHANGED <<rowVars, unreported>>
       \/ /\ calls[p].at = "upsert"
          /\ UpsertUser(calls[p].user, calls[p].name)
          /\ unreported' = unreported \cup {calls[p].user}
    /\ Return(p)
    /\ UNCHANGED <<discordVars, cacheVars, jobVars, activities, overlapped>>

WriteCache(p) ==
    /\ calls[p].at \in {"cacheRow", "cacheNew"}
    /\ UpdateCache(calls[p].user, calls[p].name)
    /\ Return(p)
    /\ UNCHANGED <<discordVars, rowVars, jobVars, activities, historyVars>>
-----------------------------------------------------------------------------
(***************************************************************************)
(* The job, and the goroutines of messages.                                *)
(***************************************************************************)

\* The query can fail, and then there is nothing to refresh this time.
RefreshStaleUsers ==
    /\ ~refreshing
    /\ refreshing' = TRUE
    /\ todo' \in {GetUsersNeedingRefresh, <<>>}
    /\ UNCHANGED <<discordVars, rowVars, cacheVars, calls, activities, historyVars>>

RefreshNext ==
    /\ refreshing
    /\ calls["job"].at = "idle"
    /\ todo # <<>>
    /\ todo' = Tail(todo)
    /\ calls' = [calls EXCEPT !["job"] = [at |-> "fetch", user |-> Head(todo), name |-> NoName]]
    /\ UNCHANGED <<discordVars, rowVars, cacheVars, refreshing, activities, historyVars>>

CleanupUserCache ==
    /\ refreshing
    /\ calls["job"].at = "idle"
    /\ todo = <<>>
    /\ refreshing' = FALSE
    /\ CleanupExpiredEntries
    /\ UNCHANGED <<discordVars, rowVars, calls, todo, activities, historyVars>>

\* An update that returns an error may have taken effect.
RecordUserActivity(a) ==
    /\ \/ UpdateUserLastMessage(a.user, a.post)
       \/ UNCHANGED rowVars
    /\ activities' = activities \ {a}
    /\ UNCHANGED <<discordVars, cacheVars, calls, jobVars, historyVars>>

\* A message of the user is accepted, and its goroutine started.
MessageCreate(u) ==
    /\ posts[u] < MaxPosts
    /\ posts' = [posts EXCEPT ![u] = @ + 1]
    /\ activities' = activities \cup {[user |-> u, post |-> posts'[u]]}
    /\ UNCHANGED <<name, rowVars, cacheVars, calls, jobVars, historyVars>>

Rename(u) ==
    /\ name[u] < MaxRenames
    /\ name' = [name EXCEPT ![u] = @ + 1]
    /\ UNCHANGED <<posts, rowVars, cacheVars, calls, jobVars, activities, historyVars>>
-----------------------------------------------------------------------------
Step(p) == ReadRow(p) \/ Fetch(p) \/ Upsert(p) \/ Fail(p) \/ WriteCache(p)

Next ==
    \/ \E p \in Callers : GetUser(p)
    \/ \E p \in Processes : Step(p)
    \/ RefreshStaleUsers \/ RefreshNext \/ CleanupUserCache
    \/ \E a \in activities : RecordUserActivity(a)
    \/ \E u \in Known : MessageCreate(u) \/ Rename(u)
    \/ AgeRow \/ AgeEntry

\* The query of the job, and what it asks of Discord and of the database for a user who
\* is not gone, do not fail for ever; time goes on, and the job with it.
Fairness ==
    /\ SF_vars(RefreshStaleUsers /\ todo' = GetUsersNeedingRefresh)
    /\ WF_vars(RefreshNext) /\ WF_vars(CleanupUserCache) /\ WF_vars(Step("job"))
    /\ \A u \in Known :
          /\ SF_vars(calls["job"].user = u /\ Fetch("job"))
          /\ SF_vars(calls["job"].user = u /\ Upsert("job"))
    /\ WF_vars(AgeRow) /\ WF_vars(AgeEntry)

Spec == Init /\ [][Next]_vars /\ Fairness
-----------------------------------------------------------------------------
\* The cache never holds more than its size, and never two entries of a user.
CacheBounded ==
    Len(cache) <= MaxCacheSize /\ \A i, j \in DOMAIN cache : cache[i].user = cache[j].user => i = j

\* The cache agrees with the table on names, except for a user whose row has just been
\* written and who is about to be cached, or for whom calls have overlapped or an upsert
\* was reported as failed after it took effect.
CacheFollowsRow ==
    \A i \in DOMAIN cache :
        LET u == cache[i].user
        IN  \/ cache[i].name = username[u]
            \/ \E p \in Processes : calls[p].user = u /\ calls[p].at = "cacheNew"
            \/ u \in overlapped \cup unreported

\* The name in a row goes back to an older one only if two calls overlapped for the user,
\* so that a late answer of Discord overwrites a newer one.
NameGoesBackByOverlap ==
    [][\A u \in Users :
          username[u] # NoName /\ username'[u] < username[u] => u \in overlapped']_vars

\* The last message of a user goes back only to a message whose goroutine was overtaken
\* by that of a later one: refreshing the user does not disturb it.
ActivityGoesBackByRace ==
    [][\A u \in Users : lastMessage'[u] < lastMessage[u] =>
          \E a \in activities : a.user = u /\ a.post = lastMessage'[u]]_vars

Current(u) ==
    /\ u \in Rows => username[u] = name[u]
    /\ \A i \in DOMAIN cache : cache[i].user = u => cache[i].name = name[u]

\* The row and the cache get to the present name of every user whom Discord still returns
\* and stay with it, once the user is neither renamed nor sends messages (the bounds see
\* to that), as long as fewer users than the limit of the job are gone.
NameCatchesUp == \A u \in Known : <>[]Current(u)
=============================================================================
