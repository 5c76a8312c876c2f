-------------------------- MODULE RateLimiterProofs --------------------------
(***************************************************************************)
(* Theorems about RateLimiter for any users, guilds, limits, window,       *)
(* cleanup period, capacity and clock bound.                               *)
(***************************************************************************)
EXTENDS RateLimiter, FiniteSetTheorems, TLAPS

\* A map stays a map when its key's entry is created or pruned.
LEMMA PrunedIsMap ==
  ASSUME NEW keys, NEW map, IsMap(map, keys), NEW key \in keys, NEW at \in Times
  PROVE  /\ IsMap(Pruned(map, key, at), keys)
         /\ key \in DOMAIN Pruned(map, key, at)
<1> DEFINE pruned == Pruned(map, key, at)
<1>1. DOMAIN pruned = DOMAIN map \cup {key}
  BY DEF Pruned
<1>2. ASSUME NEW x \in DOMAIN pruned PROVE pruned[x] \in Entry
  <2>1. CASE x # key
    BY <1>1, <2>1 DEF Pruned, IsMap
  <2>2. CASE x = key /\ x \in DOMAIN map
    <3>1. map[x] \in Entry
      BY <2>2 DEF IsMap
    <3>2. pruned[x] = [map[x] EXCEPT !.timestamps = InWindow(@, at)]
      BY <2>2 DEF Pruned
    <3> QED BY <3>1, <3>2 DEF Entry, InWindow
  <2>3. CASE x = key /\ x \notin DOMAIN map
    <3>1. pruned[x] = NewEntry(at)
      BY <2>3 DEF Pruned
    <3> QED BY <3>1 DEF NewEntry, Entry
  <2> QED BY <2>1, <2>2, <2>3
<1> QED BY <1>1, <1>2 DEF IsMap

\* Added makes a map of a map.
LEMMA AddedIsMap ==
  ASSUME NEW keys, NEW map, IsMap(map, keys), NEW key \in DOMAIN map, NEW at \in Times
  PROVE  IsMap(Added(map, key, at), keys)
<1> DEFINE added == Added(map, key, at)
<1>1. DOMAIN added = DOMAIN map
  BY DEF Added
<1>2. ASSUME NEW x \in DOMAIN map PROVE added[x] \in Entry
  <2>1. map[x] \in Entry
    BY DEF IsMap
  <2>2. CASE x = key
    <3>1. added[x] = [map[x] EXCEPT !.timestamps = @ \cup {at}]
      BY <2>2 DEF Added
    <3> QED BY <2>1, <3>1 DEF Entry
  <2>3. CASE x # key
    BY <2>1, <2>3 DEF Added
  <2> QED BY <2>2, <2>3
<1> QED BY <1>1, <1>2 DEF IsMap

\* Without makes a map of a map.
LEMMA WithoutIsMap ==
  ASSUME NEW keys, NEW map, IsMap(map, keys), NEW gone
  PROVE  IsMap(Without(map, gone), keys)
  BY DEF IsMap, Without

\* The types hold initially.
LEMMA InitTypeOK == Init => TypeOK
  BY RateAssumption DEF Init, TypeOK, IsMap, EmptyMap

\* Every step keeps the types.
LEMMA StepTypeOK == TypeOK /\ [Next]_vars => TypeOK'
<1> SUFFICES ASSUME TypeOK, [Next]_vars PROVE TypeOK'
  OBVIOUS
<1> USE RateAssumption DEF TypeOK
<1>1. ASSUME NEW u \in Users, CheckUser(u) PROVE TypeOK'
  <2>1. now + 1 \in Times /\ now' = now + 1 /\ now' \in 0 .. MaxTime
    BY <1>1 DEF CheckUser, Times
  <2>2. PICK gone \in Victims :
          LET map == Pruned(Without(userLimits, gone), u, now + 1)
              accepted == [v \in Users |-> IF v \in gone THEN {} ELSE userAccepted[v]]
          IN  \/ /\ userLimits' = map
                 /\ userAccepted' = accepted
              \/ /\ userLimits' = Added(map, u, now + 1)
                 /\ userAccepted' = [accepted EXCEPT ![u] = @ \cup {now + 1}]
    BY <1>1 DEF CheckUser
  <2> DEFINE map == Pruned(Without(userLimits, gone), u, now + 1)
  <2>3. IsMap(map, Users) /\ u \in DOMAIN map
    BY <2>1, PrunedIsMap, WithoutIsMap
  <2>4. IsMap(Added(map, u, now + 1), Users)
    BY <2>1, <2>3, AddedIsMap
  <2>5. IsMap(userLimits', Users)
    BY <2>2, <2>3, <2>4
  <2>6. userAccepted' \in [Users -> SUBSET Times]
    <3> DEFINE accepted == [v \in Users |-> IF v \in gone THEN {} ELSE userAccepted[v]]
    <3>1. accepted \in [Users -> SUBSET Times]
      OBVIOUS
    <3>2. userAccepted' \in {accepted, [accepted EXCEPT ![u] = @ \cup {now + 1}]}
      BY <2>2
    <3> HIDE DEF accepted
    <3> QED BY <2>1, <3>1, <3>2
  <2>7. /\ guildLimits' = guildLimits /\ cleanupLoop' = cleanupLoop
        /\ guildAccepted' = guildAccepted /\ cleanedAt' = cleanedAt
    BY <1>1 DEF CheckUser
  <2>8. IsMap(guildLimits', Guilds)
    BY <2>7 DEF IsMap
  <2> QED BY <2>1, <2>5, <2>6, <2>7, <2>8
<1>2. ASSUME NEW g \in Guilds, CheckGuild(g) PROVE TypeOK'
  <2> DEFINE map == Pruned(guildLimits, g, now + 1)
  <2>1. now + 1 \in Times /\ now' = now + 1 /\ now' \in 0 .. MaxTime
    BY <1>2 DEF CheckGuild, Times
  <2>2. IsMap(map, Guilds) /\ g \in DOMAIN map
    BY <2>1, PrunedIsMap
  <2>3. IsMap(Added(map, g, now + 1), Guilds)
    BY <2>1, <2>2, AddedIsMap
  <2>4. IsMap(guildLimits', Guilds)
    BY <1>2, <2>2, <2>3 DEF CheckGuild
  <2>5. guildAccepted' \in [Guilds -> SUBSET Times]
    BY <1>2, <2>1 DEF CheckGuild
  <2>6. /\ userLimits' = userLimits /\ cleanupLoop' = cleanupLoop
        /\ userAccepted' = userAccepted /\ cleanedAt' = cleanedAt
    BY <1>2 DEF CheckGuild
  <2>7. IsMap(userLimits', Users)
    BY <2>6 DEF IsMap
  <2> QED BY <2>1, <2>4, <2>5, <2>6, <2>7
<1>3. CASE Cleanup
  <2>1. IsMap(userLimits', Users) /\ IsMap(guildLimits', Guilds)
    BY <1>3, WithoutIsMap DEF Cleanup
  <2> QED BY <1>3, <2>1 DEF Cleanup
<1>4. CASE Stop
  BY <1>4 DEF Stop, history, IsMap
<1>5. CASE LoopExits
  BY <1>5 DEF LoopExits, history, IsMap
<1>6. CASE Tick
  BY <1>6 DEF Tick, code, history, IsMap
<1>7. CASE UNCHANGED vars
  BY <1>7 DEF vars, code, history, IsMap
<1> QED BY <1>1, <1>2, <1>3, <1>4, <1>5, <1>6, <1>7 DEF Next

\* Type correctness of the limiter.
THEOREM TypeCorrect == Spec => []TypeOK
  BY InitTypeOK, StepTypeOK, PTL DEF Spec
-----------------------------------------------------------------------------
(***************************************************************************)
(* Nothing is forgotten: what the entries hold explains every decision.    *)
(***************************************************************************)
LEMMA WindowOfWindow ==
  ASSUME NEW times \in SUBSET Times, NEW a \in Int, NEW b \in Int, a <= b
  PROVE  InWindow(InWindow(times, a), b) = InWindow(times, b)
<1>1. \A t \in times : t > b - WindowSize => t > a - WindowSize
  BY RateAssumption DEF Times
<1> QED BY <1>1 DEF InWindow

\* All that is known of a map and the history of its keys.
History(map, accepted, keys, time) ==
    /\ IsMap(map, keys)
    /\ accepted \in [keys -> SUBSET Times]
    /\ \A x \in keys : \A t \in accepted[x] : t <= time

\* An explained map stays so as time passes.
LEMMA ExplainedLater ==
  ASSUME NEW keys, NEW map, NEW accepted, NEW a \in Int, NEW b \in Int, a <= b,
         History(map, accepted, keys, a), Explained(map, accepted, a)
  PROVE  Explained(map, accepted, b)
<1> SUFFICES ASSUME NEW x \in keys
             PROVE  InWindow(accepted[x], b) =
                      IF x \in DOMAIN map THEN InWindow(map[x].timestamps, b) ELSE {}
  BY DEF Explained, History
<1>1. accepted[x] \in SUBSET Times
  BY DEF History
<1>2. InWindow(accepted[x], b) = InWindow(InWindow(accepted[x], a), b)
  BY <1>1, WindowOfWindow
<1>3. InWindow(accepted[x], a) =
        IF x \in DOMAIN map THEN InWindow(map[x].timestamps, a) ELSE {}
  BY DEF Explained, History
<1>4. CASE x \in DOMAIN map
  <2>1. map[x].timestamps \in SUBSET Times
    BY <1>4 DEF History, IsMap, Entry
  <2> QED BY <1>2, <1>3, <1>4, <2>1, WindowOfWindow
<1>5. CASE x \notin DOMAIN map
  BY <1>2, <1>3, <1>5 DEF InWindow
<1> QED BY <1>4, <1>5

\* An eviction together with the end of the history of its victim.
LEMMA WithoutExplained ==
  ASSUME NEW keys, NEW map, NEW accepted, NEW at \in Int, NEW gone,
         History(map, accepted, keys, at), Explained(map, accepted, at)
  PROVE  LET left == [x \in keys |-> IF x \in gone THEN {} ELSE accepted[x]]
         IN  /\ History(Without(map, gone), left, keys, at)
             /\ Explained(Without(map, gone), left, at)
<1> DEFINE left == [x \in keys |-> IF x \in gone THEN {} ELSE accepted[x]]
<1>1. History(Without(map, gone), left, keys, at)
  <2>1. IsMap(Without(map, gone), keys)
    BY WithoutIsMap DEF History
  <2> QED BY <2>1 DEF History
<1>2. ASSUME NEW x \in keys
      PROVE  InWindow(left[x], at) = IF x \in DOMAIN Without(map, gone)
                                     THEN InWindow(Without(map, gone)[x].timestamps, at) ELSE {}
  <2>1. CASE x \in gone
    BY <2>1 DEF Without, InWindow
  <2>2. CASE x \notin gone
    BY <2>2 DEF Without, Explained, History
  <2> QED BY <2>1, <2>2
<1> QED BY <1>1, <1>2 DEF Explained

\* Pruning keeps a map explained.
LEMMA PrunedExplained ==
  ASSUME NEW keys, NEW map, NEW accepted, NEW at \in Times, NEW key \in keys,
         History(map, accepted, keys, at), Explained(map, accepted, at)
  PROVE  /\ History(Pruned(map, key, at), accepted, keys, at)
         /\ Explained(Pruned(map, key, at), accepted, at)
         /\ key \in DOMAIN Pruned(map, key, at)
         /\ Pruned(map, key, at)[key].timestamps = InWindow(accepted[key], at)
<1> DEFINE pruned == Pruned(map, key, at)
<1>0. at \in Int
  BY DEF Times
<1>1. IsMap(pruned, keys) /\ DOMAIN pruned = DOMAIN map \cup {key}
  BY PrunedIsMap DEF History, Pruned
<1>2. pruned[key].timestamps = InWindow(accepted[key], at)
  <2>1. CASE key \in DOMAIN map
    <3>1. pruned[key] = [map[key] EXCEPT !.timestamps = InWindow(@, at)]
      BY <2>1 DEF Pruned
    <3>2. map[key] \in Entry
      BY <2>1 DEF History, IsMap
    <3>3. pruned[key].timestamps = InWindow(map[key].timestamps, at)
      BY <3>1, <3>2 DEF Entry
    <3> QED BY <2>1, <3>3 DEF Explained, History
  <2>2. CASE key \notin DOMAIN map
    <3>1. pruned[key] = NewEntry(at)
      BY <2>2 DEF Pruned
    <3> QED BY <2>2, <3>1 DEF NewEntry, Explained, History
  <2> QED BY <2>1, <2>2
<1>3. ASSUME NEW x \in keys
      PROVE  InWindow(accepted[x], at) =
               IF x \in DOMAIN pruned THEN InWindow(pruned[x].timestamps, at) ELSE {}
  <2>1. CASE x = key
    <3>1. InWindow(InWindow(accepted[key], at), at) = InWindow(accepted[key], at)
      BY <1>0, WindowOfWindow DEF History
    <3> QED BY <1>1, <1>2, <2>1, <3>1
  <2>2. CASE x # key /\ x \in DOMAIN map
    <3>1. pruned[x] = map[x]
      BY <2>2 DEF Pruned
    <3> QED BY <1>1, <2>2, <3>1 DEF Explained, History
  <2>3. CASE x # key /\ x \notin DOMAIN map
    BY <1>1, <2>3 DEF Explained, History
  <2> QED BY <2>1, <2>2, <2>3
<1> QED BY <1>1, <1>2, <1>3 DEF Explained, History

\* Adding an accepted message keeps a map explained.
LEMMA AddedExplained ==
  ASSUME NEW keys, NEW map, NEW accepted, NEW at \in Times, NEW key \in DOMAIN map,
         History(map, accepted, keys, at), Explained(map, accepted, at)
  PROVE  LET more == [accepted EXCEPT ![key] = @ \cup {at}]
         IN  /\ History(Added(map, key, at), more, keys, at)
             /\ Explained(Added(map, key, at), more, at)
<1> DEFINE more == [accepted EXCEPT ![key] = @ \cup {at}]
           added == Added(map, key, at)
<1>1. key \in keys /\ at \in Int
  BY DEF History, IsMap, Times
<1>2. IsMap(added, keys) /\ DOMAIN added = DOMAIN map
  BY AddedIsMap DEF History, Added
<1>3. History(added, more, keys, at)
  BY <1>1, <1>2 DEF History
<1>4. ASSUME NEW x \in keys
      PROVE  InWindow(more[x], at) =
               IF x \in DOMAIN added THEN InWindow(added[x].timestamps, at) ELSE {}
  <2>0. InWindow(accepted[x], at) =
          IF x \in DOMAIN map THEN InWindow(map[x].timestamps, at) ELSE {}
    BY DEF Explained, History
  <2>1. CASE x = key
    <3>1. added[key] = [map[key] EXCEPT !.timestamps = @ \cup {at}] /\ map[key] \in Entry
      BY DEF Added, History, IsMap
    <3>2. added[key].timestamps = map[key].timestamps \cup {at}
      BY <3>1 DEF Entry
    <3>3. more[key] = accepted[key] \cup {at}
      BY <1>1 DEF History
    <3>4. InWindow(accepted[key] \cup {at}, at) = InWindow(accepted[key], at) \cup {at}
      BY <1>1, RateAssumption DEF InWindow
    <3>5. InWindow(map[key].timestamps \cup {at}, at) =
            InWindow(map[key].timestamps, at) \cup {at}
      BY <1>1, RateAssumption DEF InWindow
    <3> QED BY <1>2, <2>0, <2>1, <3>2, <3>3, <3>4, <3>5
  <2>2. CASE x # key
    <3>1. more[x] = accepted[x]
      BY <2>2 DEF History
    <3>2. x \in DOMAIN map => added[x] = map[x]
      BY <2>2 DEF Added
    <3> QED BY <1>2, <2>0, <3>1, <3>2
  <2> QED BY <2>1, <2>2
<1> QED BY <1>3, <1>4 DEF Explained, History

\* The cleanup keeps a map explained.
LEMMA CleanedExplained ==
  ASSUME NEW keys, NEW map, NEW accepted, NEW at \in Int,
         History(map, accepted, keys, at), Explained(map, accepted, at)
  PROVE  /\ History(Without(map, Inactive(map, at)), accepted, keys, at)
         /\ Explained(Without(map, Inactive(map, at)), accepted, at)
<1> DEFINE gone == Inactive(map, at)
<1>1. History(Without(map, gone), accepted, keys, at)
  BY WithoutIsMap DEF History
<1>2. ASSUME NEW x \in keys
      PROVE  InWindow(accepted[x], at) = IF x \in DOMAIN Without(map, gone)
                                         THEN InWindow(Without(map, gone)[x].timestamps, at)
                                         ELSE {}
  <2>0. InWindow(accepted[x], at) =
          IF x \in DOMAIN map THEN InWindow(map[x].timestamps, at) ELSE {}
    BY DEF Explained, History
  <2>1. CASE x \in gone
    <3>1. x \in DOMAIN map /\ map[x].timestamps = {}
      BY <2>1 DEF Inactive
    <3> QED BY <2>0, <2>1, <3>1 DEF Without, InWindow
  <2>2. CASE x \notin gone
    BY <2>0, <2>2 DEF Without
  <2> QED BY <2>1, <2>2
<1> QED BY <1>1, <1>2 DEF Explained, History
-----------------------------------------------------------------------------
(***************************************************************************)
(* The limits.                                                             *)
(***************************************************************************)
LEMMA TimesFinite ==
  ASSUME NEW S \in SUBSET Times
  PROVE  IsFiniteSet(S) /\ Cardinality(S) \in Nat
<1>1. IsFiniteSet(Times)
  BY FS_Interval, RateAssumption DEF Times
<1>2. IsFiniteSet(S)
  BY <1>1, FS_Subset
<1> QED BY <1>2, FS_CardinalityType

\* A message accepted below the limit keeps every interval within it: an interval
\* that holds the message lies inside the window that was looked at.
LEMMA AcceptKeepsLimit ==
  ASSUME NEW times \in SUBSET Times, NEW at \in Times, NEW limit \in Nat,
         \A t \in times : t <= at,
         Cardinality(InWindow(times, at)) < limit,
         NEW start \in Times,
         Cardinality(Between(times, start)) <= limit
  PROVE  Cardinality(Between(times \cup {at}, start)) <= limit
<1>1. CASE at \notin Between({at}, start)
  <2>1. Between(times \cup {at}, start) = Between(times, start)
    BY <1>1 DEF Between
  <2> QED BY <2>1
<1>2. CASE at \in Between({at}, start)
  <2> DEFINE window == InWindow(times, at)
  <2>1. \A t \in times : start <= t => t > at - WindowSize
    BY <1>2, RateAssumption DEF Between, Times
  <2>2. Between(times \cup {at}, start) \subseteq window \cup {at}
    BY <2>1 DEF Between, InWindow
  <2>3. window \in SUBSET Times
    BY DEF InWindow
  <2>4. IsFiniteSet(window) /\ Cardinality(window) \in Nat
    BY <2>3, TimesFinite
  <2>5. IsFiniteSet(window \cup {at}) /\ Cardinality(window \cup {at}) <= Cardinality(window) + 1
    BY <2>4, FS_AddElement
  <2>6. Cardinality(Between(times \cup {at}, start)) <= Cardinality(window \cup {at})
    BY <2>2, <2>5, FS_Subset
  <2>7. Cardinality(Between(times \cup {at}, start)) \in Nat
    BY TimesFinite DEF Between
  <2>8. Cardinality(window \cup {at}) \in Nat
    BY <2>5, FS_CardinalityType
  <2> HIDE DEF window
  <2>9. Cardinality(window) < limit
    BY DEF window
  <2> QED BY <2>4, <2>5, <2>6, <2>7, <2>8, <2>9
<1> QED BY <1>1, <1>2

\* The inductive invariant of one map.
MapInv(map, accepted, keys, limit, time) ==
    /\ History(map, accepted, keys, time)
    /\ Explained(map, accepted, time)
    /\ Limited(accepted, limit)

\* A check keeps it, whether it accepts or refuses.
LEMMA CheckKeepsMapInv ==
  ASSUME NEW keys, NEW map, NEW accepted, NEW limit \in Nat, NEW at \in Times,
         NEW key \in keys, MapInv(map, accepted, keys, limit, at)
  PROVE  LET pruned == Pruned(map, key, at)
         IN  /\ MapInv(pruned, accepted, keys, limit, at)
             /\ ~Full(pruned, key, limit) =>
                   MapInv(Added(pruned, key, at), [accepted EXCEPT ![key] = @ \cup {at}],
                          keys, limit, at)
<1> DEFINE pruned == Pruned(map, key, at)
           more == [accepted EXCEPT ![key] = @ \cup {at}]
<1>1. /\ History(pruned, accepted, keys, at)
      /\ Explained(pruned, accepted, at)
      /\ key \in DOMAIN pruned
      /\ pruned[key].timestamps = InWindow(accepted[key], at)
  BY PrunedExplained DEF MapInv
<1>2. ASSUME ~Full(pruned, key, limit) PROVE Limited(more, limit)
  <2>1. accepted[key] \in SUBSET Times /\ \A t \in accepted[key] : t <= at
    BY <1>1 DEF History
  <2>2. Cardinality(InWindow(accepted[key], at)) \in Nat
    BY <2>1, TimesFinite DEF InWindow
  <2>3. Cardinality(InWindow(accepted[key], at)) < limit
    BY <1>1, <1>2, <2>2 DEF Full
  <2>4. ASSUME NEW x \in keys, NEW start \in Times
        PROVE  Cardinality(Between(more[x], start)) <= limit
    <3>1. Cardinality(Between(accepted[x], start)) <= limit
      BY DEF MapInv, Limited, History
    <3>2. CASE x = key
      <4>1. more[x] = accepted[key] \cup {at}
        BY <1>1, <3>2 DEF History
      <4> QED BY <2>1, <2>3, <3>1, <3>2, <4>1, AcceptKeepsLimit
    <3>3. CASE x # key
      BY <1>1, <3>1, <3>3 DEF History
    <3> QED BY <3>2, <3>3
  <2>5. DOMAIN more = keys
    BY <1>1 DEF History
  <2> QED BY <2>4, <2>5 DEF Limited
<1>3. History(Added(pruned, key, at), more, keys, at) /\ Explained(Added(pruned, key, at), more, at)
  <2> HIDE DEF pruned
  <2> QED BY <1>1, AddedExplained
<1> QED BY <1>1, <1>2, <1>3 DEF MapInv

\* An eviction keeps the invariant of a map.
LEMMA EvictKeepsMapInv ==
  ASSUME NEW keys, NEW map, NEW accepted, NEW limit \in Nat, NEW at \in Times, NEW gone,
         MapInv(map, accepted, keys, limit, at)
  PROVE  MapInv(Without(map, gone), [x \in keys |-> IF x \in gone THEN {} ELSE accepted[x]],
                keys, limit, at)
<1> DEFINE left == [x \in keys |-> IF x \in gone THEN {} ELSE accepted[x]]
<1>1. History(Without(map, gone), left, keys, at) /\ Explained(Without(map, gone), left, at)
  BY WithoutExplained DEF MapInv, Times
<1>2. ASSUME NEW x \in keys, NEW start \in Times
      PROVE  Cardinality(Between(left[x], start)) <= limit
  <2>1. CASE x \in gone
    <3>1. Between(left[x], start) = {}
      BY <2>1 DEF Between
    <3> QED BY <3>1, FS_EmptySet
  <2>2. CASE x \notin gone
    BY <2>2 DEF MapInv, Limited, History
  <2> QED BY <2>1, <2>2
<1> QED BY <1>1, <1>2 DEF MapInv, Limited

\* Time keeps the invariant of a map.
LEMMA TimeKeepsMapInv ==
  ASSUME NEW keys, NEW map, NEW accepted, NEW limit, NEW a \in Int, NEW b \in Int, a <= b,
         MapInv(map, accepted, keys, limit, a)
  PROVE  MapInv(map, accepted, keys, limit, b)
<1>1. History(map, accepted, keys, b)
  <2>1. \A x \in keys : \A t \in accepted[x] : t \in Int /\ t <= a
    BY DEF MapInv, History, Times
  <2> QED BY <2>1 DEF MapInv, History
<1> QED BY <1>1, ExplainedLater DEF MapInv

IInv ==
    /\ TypeOK
    /\ MapInv(userLimits, userAccepted, Users, UserLimit, now)
    /\ MapInv(guildLimits, guildAccepted, Guilds, GuildLimit, now)

\* The invariant holds initially.
LEMMA InitIInv == Init => IInv
<1> SUFFICES ASSUME Init PROVE IInv
  OBVIOUS
<1>1. ASSUME NEW keys, NEW limit \in Nat
      PROVE  MapInv(EmptyMap, [x \in keys |-> {}], keys, limit, 0)
  <2>1. History(EmptyMap, [x \in keys |-> {}], keys, 0)
    BY DEF History, IsMap, EmptyMap
  <2>2. Explained(EmptyMap, [x \in keys |-> {}], 0)
    BY DEF Explained, InWindow, EmptyMap
  <2>3. \A start \in Times : Between({}, start) = {}
    BY DEF Between
  <2> QED BY <2>1, <2>2, <2>3, FS_EmptySet DEF MapInv, Limited
<1> QED BY <1>1, InitTypeOK, RateAssumption DEF Init, IInv

\* Every step keeps the invariant.
LEMMA StepIInv == IInv /\ [Next]_vars => IInv'
<1> SUFFICES ASSUME IInv, [Next]_vars
             PROVE  /\ MapInv(userLimits', userAccepted', Users, UserLimit, now')
                    /\ MapInv(guildLimits', guildAccepted', Guilds, GuildLimit, now')
  BY StepTypeOK DEF IInv, MapInv, History, IsMap, Explained, Limited
<1>0. now \in Int /\ UserLimit \in Nat /\ GuildLimit \in Nat
  BY RateAssumption DEF IInv, TypeOK
<1>t. ASSUME now' = now + 1
      PROVE  /\ MapInv(userLimits, userAccepted, Users, UserLimit, now')
             /\ MapInv(guildLimits, guildAccepted, Guilds, GuildLimit, now')
  BY <1>0, <1>t, TimeKeepsMapInv DEF IInv
<1>1. ASSUME NEW u \in Users, CheckUser(u)
      PROVE  /\ MapInv(userLimits', userAccepted', Users, UserLimit, now')
             /\ MapInv(guildLimits', guildAccepted', Guilds, GuildLimit, now')
  <2>1. now' = now + 1 /\ now' \in Times
    BY <1>1, RateAssumption DEF CheckUser, Times, IInv, TypeOK
  <2>2. guildLimits' = guildLimits /\ guildAccepted' = guildAccepted
    BY <1>1 DEF CheckUser
  <2>3. PICK gone \in Victims :
          LET map == Pruned(Without(userLimits, gone), u, now + 1)
              accepted == [v \in Users |-> IF v \in gone THEN {} ELSE userAccepted[v]]
          IN  \/ /\ userLimits' = map
                 /\ userAccepted' = accepted
              \/ /\ ~Full(map, u, UserLimit)
                 /\ userLimits' = Added(map, u, now + 1)
                 /\ userAccepted' = [accepted EXCEPT ![u] = @ \cup {now + 1}]
    BY <1>1 DEF CheckUser
  <2> DEFINE left == Without(userLimits, gone)
             accepted == [v \in Users |-> IF v \in gone THEN {} ELSE userAccepted[v]]
  <2>4. MapInv(left, accepted, Users, UserLimit, now')
    BY <1>0, <1>t, <2>1, EvictKeepsMapInv
  <2>5. MapInv(userLimits', userAccepted', Users, UserLimit, now')
    <3> HIDE DEF left, accepted
    <3>1. /\ MapInv(Pruned(left, u, now'), accepted, Users, UserLimit, now')
          /\ ~Full(Pruned(left, u, now'), u, UserLimit) =>
                MapInv(Added(Pruned(left, u, now'), u, now'),
                       [accepted EXCEPT ![u] = @ \cup {now'}], Users, UserLimit, now')
      BY <1>0, <2>1, <2>4, CheckKeepsMapInv
    <3> QED BY <2>1, <2>3, <3>1 DEF left, accepted
  <2> QED BY <1>t, <2>1, <2>2, <2>5
<1>2. ASSUME NEW g \in Guilds, CheckGuild(g)
      PROVE  /\ MapInv(userLimits', userAccepted', Users, UserLimit, now')
             /\ MapInv(guildLimits', guildAccepted', Guilds, GuildLimit, now')
  <2>1. now' = now + 1 /\ now' \in Times
    BY <1>2, RateAssumption DEF CheckGuild, Times, IInv, TypeOK
  <2>2. userLimits' = userLimits /\ userAccepted' = userAccepted
    BY <1>2 DEF CheckGuild
  <2>3. /\ MapInv(Pruned(guildLimits, g, now'), guildAccepted, Guilds, GuildLimit, now')
        /\ ~Full(Pruned(guildLimits, g, now'), g, GuildLimit) =>
              MapInv(Added(Pruned(guildLimits, g, now'), g, now'),
                     [guildAccepted EXCEPT ![g] = @ \cup {now'}], Guilds, GuildLimit, now')
    BY <1>0, <1>t, <2>1, CheckKeepsMapInv
  <2>4. MapInv(guildLimits', guildAccepted', Guilds, GuildLimit, now')
    BY <1>2, <2>1, <2>3 DEF CheckGuild
  <2> QED BY <1>t, <2>1, <2>2, <2>4
<1>3. CASE Cleanup
  <2>1. /\ now' = now + 1 /\ now' \in Int
        /\ userAccepted' = userAccepted /\ guildAccepted' = guildAccepted
        /\ userLimits' = Without(userLimits, Inactive(userLimits, now'))
        /\ guildLimits' = Without(guildLimits, Inactive(guildLimits, now'))
    BY <1>0, <1>3 DEF Cleanup
  <2> QED BY <1>t, <2>1, CleanedExplained DEF MapInv
<1>4. CASE Stop
  BY <1>4 DEF Stop, history, IInv
<1>5. CASE LoopExits
  BY <1>5 DEF LoopExits, history, IInv
<1>6. CASE Tick
  BY <1>t, <1>6 DEF Tick, code, history
<1>7. CASE UNCHANGED vars
  BY <1>7 DEF vars, code, history, IInv
<1> QED BY <1>1, <1>2, <1>3, <1>4, <1>5, <1>6, <1>7 DEF Next

\* The invariant holds in every behaviour.
LEMMA IInvHolds == Spec => []IInv
  BY InitIInv, StepIInv, PTL DEF Spec

\* Pruning and cleanup forget no message that still counts, so that the limiter
\* decides as if it had kept the accepted messages since the last eviction.
THEOREM ForgetsNothing == Spec => []NothingForgotten
<1>1. IInv => NothingForgotten
  BY DEF IInv, MapInv, NothingForgotten
<1> QED BY <1>1, IInvHolds, PTL

\* No interval as long as the window has more accepted messages of a guild, or of a
\* user between two evictions, than the limit, for any limits and window.
THEOREM WindowsCorrect == Spec => []WindowsLimited
<1>1. IInv => WindowsLimited
  BY DEF IInv, MapInv, WindowsLimited
<1> QED BY <1>1, IInvHolds, PTL
-----------------------------------------------------------------------------
(***************************************************************************)
(* Memory: an entry gets a timestamp only while it is not full, and the    *)
(* map a key only after an eviction if it is.                              *)
(***************************************************************************)
EntriesBounded(map, limit) ==
    \A x \in DOMAIN map : Cardinality(map[x].timestamps) <= limit

MemoryInv ==
    /\ IsFiniteSet(DOMAIN userLimits) /\ Cardinality(DOMAIN userLimits) <= MaxEntries
    /\ EntriesBounded(userLimits, UserLimit)
    /\ EntriesBounded(guildLimits, GuildLimit)

\* A set grows by at most one.
LEMMA OneMore ==
  ASSUME NEW S, IsFiniteSet(S), NEW x
  PROVE  /\ IsFiniteSet(S \cup {x})
         /\ Cardinality(S) \in Nat /\ Cardinality(S \cup {x}) \in Nat
         /\ Cardinality(S \cup {x}) <= Cardinality(S) + 1
<1>1. IsFiniteSet(S \cup {x}) /\ Cardinality(S) \in Nat /\ Cardinality(S \cup {x}) \in Nat
  BY FS_AddElement, FS_CardinalityType
<1>2. CASE x \in S
  <2>1. S \cup {x} = S
    BY <1>2
  <2>2. Cardinality(S \cup {x}) = Cardinality(S)
    BY <2>1
  <2> QED BY <1>1, <2>2
<1>3. CASE x \notin S
  <2>1. Cardinality(S \cup {x}) = Cardinality(S) + 1
    BY <1>3, FS_AddElement
  <2> QED BY <1>1, <2>1
<1> QED BY <1>2, <1>3

\* A check keeps the entries within the limit.
LEMMA CheckBounded ==
  ASSUME NEW keys, NEW map, IsMap(map, keys), NEW limit \in Nat, EntriesBounded(map, limit),
         NEW key \in keys, NEW at \in Times
  PROVE  LET pruned == Pruned(map, key, at)
         IN  /\ EntriesBounded(pruned, limit)
             /\ ~Full(pruned, key, limit) => EntriesBounded(Added(pruned, key, at), limit)
<1> DEFINE pruned == Pruned(map, key, at)
<1>1. IsMap(pruned, keys) /\ key \in DOMAIN pruned /\ DOMAIN pruned = DOMAIN map \cup {key}
  BY PrunedIsMap DEF Pruned
<1>2. ASSUME NEW x \in DOMAIN pruned PROVE Cardinality(pruned[x].timestamps) <= limit
  <2>1. CASE x # key
    BY <1>1, <2>1 DEF Pruned, EntriesBounded
  <2>2. CASE x = key /\ x \in DOMAIN map
    <3>1. pruned[x].timestamps = InWindow(map[x].timestamps, at) /\ map[x].timestamps \in SUBSET Times
      BY <2>2 DEF Pruned, IsMap, Entry
    <3>2. /\ Cardinality(map[x].timestamps) \in Nat /\ Cardinality(pruned[x].timestamps) \in Nat
          /\ Cardinality(pruned[x].timestamps) <= Cardinality(map[x].timestamps)
      <4>1. IsFiniteSet(map[x].timestamps) /\ pruned[x].timestamps \in SUBSET map[x].timestamps
        BY <3>1, TimesFinite DEF InWindow
      <4> QED BY <4>1, FS_Subset, FS_CardinalityType
    <3>3. Cardinality(map[x].timestamps) <= limit
      BY <2>2 DEF EntriesBounded
    <3> HIDE DEF pruned
    <3> QED BY <3>2, <3>3
  <2>3. CASE x = key /\ x \notin DOMAIN map
    <3>1. pruned[x].timestamps = {}
      BY <2>3 DEF Pruned, NewEntry
    <3> QED BY <3>1, FS_EmptySet
  <2> QED BY <2>1, <2>2, <2>3
<1>3. ASSUME ~Full(pruned, key, limit), NEW x \in DOMAIN Added(pruned, key, at)
      PROVE  Cardinality(Added(pruned, key, at)[x].timestamps) <= limit
  <2> HIDE DEF pruned
  <2>1. DOMAIN Added(pruned, key, at) = DOMAIN pruned
    BY DEF Added
  <2>2. CASE x # key
    BY <1>2, <2>1, <2>2 DEF Added
  <2>3. CASE x = key
    <3>1. pruned[key] \in Entry
      BY <1>1 DEF IsMap
    <3>2. Added(pruned, key, at)[x].timestamps = pruned[key].timestamps \cup {at}
      BY <1>1, <2>3, <3>1 DEF Added, Entry
    <3>3. IsFiniteSet(pruned[key].timestamps) /\ Cardinality(pruned[key].timestamps) \in Nat
      BY <3>1, TimesFinite DEF Entry
    <3>4. Cardinality(pruned[key].timestamps) < limit
      BY <1>3, <3>3 DEF Full
    <3>5. /\ Cardinality(pruned[key].timestamps \cup {at}) \in Nat
          /\ Cardinality(pruned[key].timestamps \cup {at}) <= Cardinality(pruned[key].timestamps) + 1
      BY <3>3, OneMore
    <3> QED BY <3>2, <3>3, <3>4, <3>5
  <2> QED BY <2>2, <2>3
<1> QED BY <1>2, <1>3 DEF EntriesBounded

\* So does dropping entries.
LEMMA WithoutBounded ==
  ASSUME NEW map, NEW limit, EntriesBounded(map, limit), NEW gone
  PROVE  EntriesBounded(Without(map, gone), limit)
  BY DEF EntriesBounded, Without

\* After the eviction there is room for one more user.
LEMMA EvictionMakesRoom ==
  ASSUME MemoryInv, NEW gone \in Victims
  PROVE  /\ IsFiniteSet(DOMAIN Without(userLimits, gone))
         /\ Cardinality(DOMAIN Without(userLimits, gone)) + 1 <= MaxEntries
<1> DEFINE D == DOMAIN userLimits
<1>1. IsFiniteSet(D) /\ Cardinality(D) \in Nat /\ Cardinality(D) <= MaxEntries /\ MaxEntries \in Nat \ {0}
  BY FS_CardinalityType, RateAssumption DEF MemoryInv
<1>2. DOMAIN Without(userLimits, gone) = D \ gone
  BY DEF Without
<1>3. CASE Cardinality(D) >= MaxEntries
  <2>1. PICK u \in D : gone = {u}
    BY <1>3 DEF Victims, VictimsAbove, Oldest
  <2> HIDE DEF D
  <2>2. IsFiniteSet(D \ {u}) /\ Cardinality(D \ {u}) = Cardinality(D) - 1
    BY <1>1, FS_RemoveElement
  <2> QED BY <1>1, <1>2, <2>1, <2>2
<1>4. CASE ~(Cardinality(D) >= MaxEntries)
  <2>1. gone = {}
    BY <1>4 DEF Victims, VictimsAbove
  <2>2. D \ gone = D
    BY <2>1
  <2> HIDE DEF D
  <2> QED BY <1>1, <1>2, <1>4, <2>2
<1> QED BY <1>3, <1>4

\* Every step keeps the memory within its bounds.
LEMMA StepMemory == IInv /\ MemoryInv /\ [Next]_vars => MemoryInv'
<1> SUFFICES ASSUME TypeOK, MemoryInv, [Next]_vars PROVE MemoryInv'
  BY DEF IInv
<1>0. UserLimit \in Nat /\ GuildLimit \in Nat /\ MaxEntries \in Nat
  BY RateAssumption
<1>1. ASSUME NEW u \in Users, CheckUser(u) PROVE MemoryInv'
  <2>1. now + 1 \in Times /\ guildLimits' = guildLimits
    BY <1>1, RateAssumption DEF CheckUser, Times, TypeOK
  <2>2. PICK gone \in Victims :
          LET map == Pruned(Without(userLimits, gone), u, now + 1)
          IN  \/ userLimits' = map
              \/ ~Full(map, u, UserLimit) /\ userLimits' = Added(map, u, now + 1)
    BY <1>1 DEF CheckUser
  <2> DEFINE left == Without(userLimits, gone)
             map == Pruned(left, u, now + 1)
  <2>3. IsMap(left, Users) /\ EntriesBounded(left, UserLimit)
    BY WithoutIsMap, WithoutBounded DEF TypeOK, MemoryInv
  <2>4. IsFiniteSet(DOMAIN left) /\ Cardinality(DOMAIN left) + 1 <= MaxEntries
    BY EvictionMakesRoom
  <2> HIDE DEF left
  <2>5. EntriesBounded(map, UserLimit) /\ (~Full(map, u, UserLimit) => EntriesBounded(Added(map, u, now + 1), UserLimit))
    BY <1>0, <2>1, <2>3, CheckBounded
  <2>6. DOMAIN map = DOMAIN left \cup {u} /\ DOMAIN Added(map, u, now + 1) = DOMAIN left \cup {u}
    BY DEF Pruned, Added
  <2>7. IsFiniteSet(DOMAIN left \cup {u}) /\ Cardinality(DOMAIN left \cup {u}) <= MaxEntries
    <3>1. /\ Cardinality(DOMAIN left) \in Nat
          /\ IsFiniteSet(DOMAIN left \cup {u}) /\ Cardinality(DOMAIN left \cup {u}) \in Nat
          /\ Cardinality(DOMAIN left \cup {u}) <= Cardinality(DOMAIN left) + 1
      BY <2>4, OneMore
    <3> QED BY <1>0, <2>4, <3>1
  <2>8. userLimits' = map \/ (~Full(map, u, UserLimit) /\ userLimits' = Added(map, u, now + 1))
    BY <2>2 DEF left
  <2> HIDE DEF map
  <2>9. EntriesBounded(userLimits', UserLimit) /\ DOMAIN userLimits' = DOMAIN left \cup {u}
    BY <2>5, <2>6, <2>8
  <2> QED BY <2>1, <2>7, <2>9 DEF MemoryInv, EntriesBounded
<1>2. ASSUME NEW g \in Guilds, CheckGuild(g) PROVE MemoryInv'
  <2> DEFINE map == Pruned(guildLimits, g, now + 1)
  <2>1. now + 1 \in Times /\ userLimits' = userLimits
    BY <1>2, RateAssumption DEF CheckGuild, Times, TypeOK
  <2>2. EntriesBounded(map, GuildLimit) /\ (~Full(map, g, GuildLimit) => EntriesBounded(Added(map, g, now + 1), GuildLimit))
    BY <1>0, <2>1, CheckBounded DEF TypeOK, MemoryInv
  <2>3. guildLimits' = map \/ (~Full(map, g, GuildLimit) /\ guildLimits' = Added(map, g, now + 1))
    BY <1>2 DEF CheckGuild
  <2> HIDE DEF map
  <2>4. EntriesBounded(guildLimits', GuildLimit)
    BY <2>2, <2>3
  <2> QED BY <2>1, <2>4 DEF MemoryInv, EntriesBounded
<1>3. CASE Cleanup
  <2>1. PICK gone, goneGuilds :
          userLimits' = Without(userLimits, gone) /\ guildLimits' = Without(guildLimits, goneGuilds)
    BY <1>3 DEF Cleanup
  <2>2. EntriesBounded(userLimits', UserLimit) /\ EntriesBounded(guildLimits', GuildLimit)
    BY <2>1, WithoutBounded DEF MemoryInv
  <2>3. DOMAIN userLimits' \in SUBSET DOMAIN userLimits
    BY <2>1 DEF Without
  <2>4. /\ IsFiniteSet(DOMAIN userLimits') /\ Cardinality(DOMAIN userLimits') \in Nat
        /\ Cardinality(DOMAIN userLimits) \in Nat
        /\ Cardinality(DOMAIN userLimits') <= Cardinality(DOMAIN userLimits)
    BY <2>3, FS_Subset, FS_CardinalityType DEF MemoryInv
  <2>5. Cardinality(DOMAIN userLimits') <= MaxEntries
    BY <1>0, <2>4 DEF MemoryInv
  <2> QED BY <2>2, <2>4, <2>5 DEF MemoryInv, EntriesBounded
<1>4. CASE Stop \/ LoopExits \/ Tick \/ UNCHANGED vars
  <2>1. userLimits' = userLimits /\ guildLimits' = guildLimits
    BY <1>4 DEF Stop, LoopExits, Tick, code, vars
  <2> QED BY <2>1 DEF MemoryInv, EntriesBounded
<1> QED BY <1>1, <1>2, <1>3, <1>4 DEF Next

\* The map of the users stays within its capacity and every entry within its limit, so
\* that a flood of users or of messages does not grow the memory.
THEOREM MemoryStaysBounded == Spec => []MemoryBounded
<1>1. Init => MemoryInv
  BY RateAssumption, FS_EmptySet DEF Init, MemoryInv, EntriesBounded, EmptyMap
<1>2. MemoryInv => MemoryBounded
  BY DEF MemoryInv, MemoryBounded, EntriesBounded
<1> QED BY <1>1, <1>2, StepMemory, IInvHolds, PTL DEF Spec
-----------------------------------------------------------------------------
(***************************************************************************)
(* The single decisions.  The time of a check is among the accepted ones   *)
(* afterwards if the check accepts.                                        *)
(***************************************************************************)

\* A guild's message is accepted if and only if fewer than the limit were accepted in the
\* window that ends with it.
GuildDecided(g) ==
    now' \in guildAccepted'[g] <=> Cardinality(InWindow(guildAccepted[g], now')) < GuildLimit

\* So is a user's, but that a user whose entry is an oldest one in a full map may lose it
\* and be accepted in any case.
UserDecided(u) ==
    LET used == Cardinality(InWindow(userAccepted[u], now'))
        evictable == u \in Oldest(userLimits) /\ Cardinality(DOMAIN userLimits) >= MaxEntries
    IN  /\ now' \notin userAccepted'[u] => used >= UserLimit
        /\ now' \in userAccepted'[u] => used < UserLimit \/ evictable

DecidesByWindow ==
    [][/\ \A g \in Guilds : CheckGuild(g) => GuildDecided(g)
       /\ \A u \in Users : CheckUser(u) => UserDecided(u)]_vars

\* The entry a check looks at holds the window of the accepted messages.
LEMMA CheckSeesWindow ==
  ASSUME NEW keys, NEW map, NEW accepted, NEW limit \in Nat, NEW at \in Times, NEW key \in keys,
         MapInv(map, accepted, keys, limit, at)
  PROVE  /\ Pruned(map, key, at)[key].timestamps = InWindow(accepted[key], at)
         /\ Cardinality(InWindow(accepted[key], at)) \in Nat
<1>1. InWindow(accepted[key], at) \in SUBSET Times
  BY DEF MapInv, History, InWindow
<1> QED BY <1>1, TimesFinite, PrunedExplained DEF MapInv

\* The clock has passed all accepted messages when it ticks.
LEMMA ClockAhead ==
  ASSUME NEW keys, NEW map, NEW accepted, NEW limit, NEW key \in keys, now \in Nat, now' = now + 1,
         MapInv(map, accepted, keys, limit, now)
  PROVE  now' \notin accepted[key]
<1>1. \A t \in accepted[key] : t <= now
  BY DEF MapInv, History
<1> QED BY <1>1

\* The limiter decides every message by the messages accepted in its window, for any limits,
\* and errs only in favour of a user it has evicted (CheckUser, CheckGuild, evictOldestUser).
THEOREM DecisionsCorrect == Spec => DecidesByWindow
<1>1. ASSUME IInv, NEW g \in Guilds, CheckGuild(g) PROVE GuildDecided(g)
  <2>1. now \in Nat /\ now' = now + 1 /\ now' \in Times /\ GuildLimit \in Nat
    BY <1>1, RateAssumption DEF CheckGuild, Times, IInv, TypeOK
  <2>2. MapInv(guildLimits, guildAccepted, Guilds, GuildLimit, now')
    BY <1>1, <2>1, TimeKeepsMapInv DEF IInv
  <2> DEFINE used == Cardinality(InWindow(guildAccepted[g], now'))
  <2>3. used \in Nat /\ (Full(Pruned(guildLimits, g, now'), g, GuildLimit) <=> used >= GuildLimit)
    BY <2>1, <2>2, CheckSeesWindow DEF Full
  <2>4. now' \notin guildAccepted[g] /\ guildAccepted \in [Guilds -> SUBSET Times]
    BY <1>1, <2>1, ClockAhead DEF IInv, TypeOK
  <2> HIDE DEF used
  <2>5. now' \in guildAccepted'[g] <=> ~Full(Pruned(guildLimits, g, now'), g, GuildLimit)
    BY <1>1, <2>1, <2>4 DEF CheckGuild
  <2> QED BY <2>1, <2>3, <2>5 DEF GuildDecided, used
<1>2. ASSUME IInv, NEW u \in Users, CheckUser(u) PROVE UserDecided(u)
  <2>1. now \in Nat /\ now' = now + 1 /\ now' \in Times /\ UserLimit \in Nat
    BY <1>2, RateAssumption DEF CheckUser, Times, IInv, TypeOK
  <2>2. MapInv(userLimits, userAccepted, Users, UserLimit, now')
    BY <1>2, <2>1, TimeKeepsMapInv DEF IInv
  <2>3. PICK gone \in Victims :
          LET map == Pruned(Without(userLimits, gone), u, now + 1)
              accepted == [v \in Users |-> IF v \in gone THEN {} ELSE userAccepted[v]]
          IN  \/ Full(map, u, UserLimit) /\ userAccepted' = accepted
              \/ /\ ~Full(map, u, UserLimit)
                 /\ userAccepted' = [accepted EXCEPT ![u] = @ \cup {now + 1}]
    BY <1>2 DEF CheckUser
  <2> DEFINE accepted == [v \in Users |-> IF v \in gone THEN {} ELSE userAccepted[v]]
             map == Without(userLimits, gone)
             used == Cardinality(InWindow(accepted[u], now'))
             total == Cardinality(InWindow(userAccepted[u], now'))
  <2>4. MapInv(map, accepted, Users, UserLimit, now')
    BY <2>1, <2>2, EvictKeepsMapInv
  <2>5. used \in Nat /\ (Full(Pruned(map, u, now'), u, UserLimit) <=> used >= UserLimit)
    <3> HIDE DEF map, accepted
    <3> QED BY <2>1, <2>4, CheckSeesWindow DEF Full
  <2>6. now' \notin accepted[u] /\ accepted \in [Users -> SUBSET Times]
    BY <1>2, <2>1, ClockAhead DEF IInv, TypeOK
  <2>7. now' \in userAccepted'[u] <=> used < UserLimit
    <3>1. \/ Full(Pruned(map, u, now'), u, UserLimit) /\ userAccepted' = accepted
          \/ /\ ~Full(Pruned(map, u, now'), u, UserLimit)
             /\ userAccepted' = [accepted EXCEPT ![u] = @ \cup {now'}]
      BY <2>1, <2>3
    <3> HIDE DEF map, accepted, used
    <3> QED BY <2>1, <2>5, <2>6, <3>1
  <2>8. total \in Nat
    BY <2>1, <2>2, CheckSeesWindow
  <2>9. CASE u \in gone
    <3>1. used = 0
      <4>1. InWindow({}, now') = {}
        BY DEF InWindow
      <4> QED BY <2>9, <4>1, FS_EmptySet
    <3>2. u \in Oldest(userLimits) /\ Cardinality(DOMAIN userLimits) >= MaxEntries
      BY <2>9 DEF Victims, VictimsAbove
    <3>3. now' \in userAccepted'[u]
      BY <2>7, <3>1, RateAssumption
    <3> QED BY <3>2, <3>3 DEF UserDecided
  <2>10. CASE u \notin gone
    <3>1. used = total
      BY <2>10
    <3> HIDE DEF used
    <3>2. /\ now' \notin userAccepted'[u] => total >= UserLimit
          /\ now' \in userAccepted'[u] => total < UserLimit
      BY <2>1, <2>7, <2>8, <3>1
    <3> QED BY <3>2 DEF UserDecided, total
  <2> QED BY <2>9, <2>10
<1>3. IInv => /\ \A g \in Guilds : CheckGuild(g) => GuildDecided(g)
              /\ \A u \in Users : CheckUser(u) => UserDecided(u)
  BY <1>1, <1>2
<1> QED BY <1>3, IInvHolds, PTL DEF DecidesByWindow
=============================================================================
