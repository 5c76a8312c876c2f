------------------------- MODULE UserServiceProofs -------------------------
(***************************************************************************)
(* Theorems about UserService for any users, callers, sizes and bounds:    *)
(* what the columns username and last_message_at may go back to (IInv),    *)
(* that the rows and the cache keep their shape (Typed), and that the      *)
(* cache agrees with the table on names (Agreed).                          *)
(*                                                                         *)
(* Rows and entries are sequences in which an element that is touched      *)
(* moves to the end; the lemmas on Moved say what that does to the others. *)
(***************************************************************************)
EXTENDS UserService, SequenceTheorems, FiniteSetTheorems, TLAPS

\* The types of what the columns are computed from.
Columns ==
    /\ name \in [Users -> 0..MaxRenames]
    /\ username \in [Users -> 0..NoName]
    /\ posts \in [Users -> 0..MaxPosts]
    /\ lastMessage \in [Users -> 0..MaxPosts]
    /\ activities \subseteq [user : Users, post : 1..MaxPosts]

IsCall(c) == c = [at |-> c.at, user |-> c.user, name |-> c.name]

CallsAreCalls ==
    /\ DOMAIN calls = Processes
    /\ \A p \in Processes : IsCall(calls[p])

\* No row is ahead of Discord.
RowsOld == \A u \in Users : username[u] # NoName => username[u] <= name[u]

\* Neither is a name that a call is about to write.
AnswersOld ==
    \A p \in Processes, u \in Users :
        calls[p].user = u /\ calls[p].at = "upsert" =>
            calls[p].name \in Nat /\ calls[p].name <= name[u]

\* As long as calls do not overlap for a user, one of them at most has a name for the user,
\* and that is no older than the one in the row.
Alone ==
    \A u \in Users \ overlapped :
        /\ \A p, q \in Processes : Holds(p, u) /\ Holds(q, u) => p = q
        /\ \A p \in Processes :
              calls[p].user = u /\ calls[p].at = "upsert" /\ username[u] # NoName =>
                  username[u] <= calls[p].name

IInv == Columns /\ CallsAreCalls /\ RowsOld /\ AnswersOld /\ Alone

\* The invariant holds initially.
LEMMA InitIInv == Init => IInv
<1> SUFFICES ASSUME Init PROVE IInv
  OBVIOUS
<1>1. Columns
  BY UserServiceAssumption DEF Init, Columns, NoName
<1>2. CallsAreCalls /\ \A p \in Processes : calls[p].at = "idle"
  BY DEF Init, CallsAreCalls, IsCall, Idle
<1>3. RowsOld
  BY DEF Init, RowsOld, NoName
<1> QED BY <1>1, <1>2, <1>3 DEF IInv, AnswersOld, Alone, Holds
-----------------------------------------------------------------------------
\* A step of a process changes its own call and no other.
LEMMA OtherCalls ==
  ASSUME CallsAreCalls, NEW p \in Processes, NEW c, calls' = [calls EXCEPT ![p] = c], IsCall(c)
  PROVE  CallsAreCalls' /\ calls'[p] = c /\ \A q \in Processes \ {p} : calls'[q] = calls[q]
  BY DEF CallsAreCalls, IsCall

\* What Goto leaves of the calls.
LEMMA GotoIs ==
  ASSUME CallsAreCalls, NEW p \in Processes, NEW place, Goto(p, place)
  PROVE  /\ CallsAreCalls'
         /\ calls'[p].at = place /\ calls'[p].user = calls[p].user
         /\ \A q \in Processes \ {p} : calls'[q] = calls[q]
<1> DEFINE c == [at |-> place, user |-> calls[p].user, name |-> calls[p].name]
<1>1. calls[p] = [at |-> calls[p].at, user |-> calls[p].user, name |-> calls[p].name]
  BY DEF CallsAreCalls, IsCall
<1>2. [calls[p] EXCEPT !.at = place] = c
  BY <1>1
<1>3. calls' = [calls EXCEPT ![p] = c]
  BY <1>2 DEF Goto
<1>4. IsCall(c) /\ c.at = place /\ c.user = calls[p].user
  BY DEF IsCall
<1> HIDE DEF c
<1> QED BY <1>3, <1>4, OtherCalls

\* What Return leaves of the calls.
LEMMA ReturnIs ==
  ASSUME CallsAreCalls, NEW p \in Processes, Return(p)
  PROVE  /\ CallsAreCalls'
         /\ calls'[p].at = "idle"
         /\ \A q \in Processes \ {p} : calls'[q] = calls[q]
<1>1. IsCall(Idle) /\ Idle.at = "idle"
  BY DEF IsCall, Idle
<1> QED BY <1>1, OtherCalls DEF Return

\* A call that has lost its name, or has it in another place, cannot hurt.
LEMMA CallsMove ==
  ASSUME IInv, CallsAreCalls',
         UNCHANGED <<name, username, overlapped>>,
         \A p \in Processes : \/ calls'[p] = calls[p]
                              \/ calls'[p].at \in {"idle", "read", "fetch"}
                              \/ /\ calls'[p].at \in {"cacheRow", "cacheNew"}
                                 /\ calls'[p].user = calls[p].user
                                 /\ calls[p].at \in {"cacheRow", "upsert", "cacheNew"}
  PROVE  RowsOld' /\ AnswersOld' /\ Alone'
<1>1. RowsOld'
  BY DEF IInv, RowsOld, NoName
<1>2. ASSUME NEW p \in Processes, NEW u \in Users, Holds(p, u)' PROVE Holds(p, u)
  BY <1>2 DEF Holds
<1>3. ASSUME NEW p \in Processes, calls'[p].at = "upsert" PROVE calls'[p] = calls[p]
  BY <1>3
<1>4. AnswersOld'
  BY <1>3 DEF IInv, AnswersOld
<1>5. Alone'
  BY <1>2, <1>3 DEF IInv, Alone, NoName
<1> QED BY <1>1, <1>4, <1>5

\* The row of a user gets the name that a call has for the user.
LEMMA UpsertIs ==
  ASSUME IInv, NEW p \in Processes, calls[p].at = "upsert",
         UpsertUser(calls[p].user, calls[p].name), UNCHANGED <<name, overlapped>>,
         CallsAreCalls', \A q \in Processes \ {p} : calls'[q] = calls[q],
         \/ calls'[p].at = "idle"
         \/ calls'[p].at = "cacheNew" /\ calls'[p].user = calls[p].user
  PROVE  /\ username' \in [Users -> 0..NoName]
         /\ RowsOld' /\ AnswersOld' /\ Alone'
         /\ \A u \in Users :
               username[u] # NoName /\ username'[u] < username[u] => u \in overlapped
<1> DEFINE v == calls[p].user
           n == calls[p].name
<1>1. /\ username' = [username EXCEPT ![v] = n]
      /\ username \in [Users -> 0..NoName] /\ name \in [Users -> 0..MaxRenames]
      /\ MaxRenames \in Nat
  BY UserServiceAssumption DEF UpsertUser, IInv, Columns
<1>2. \A u \in Users : username'[u] = IF u = v THEN n ELSE username[u]
  BY <1>1
<1>3. v \in Users => n \in Nat /\ n <= name[v]
  BY DEF IInv, AnswersOld
<1>4. v \in Users => n \in 0..NoName /\ n # NoName
  <2>1. v \in Users => name[v] \in 0..MaxRenames
    BY <1>1
  <2> QED BY <1>1, <1>3, <2>1 DEF NoName
<1>5. username' \in [Users -> 0..NoName]
  BY <1>1, <1>4
<1>6. RowsOld'
  BY <1>2, <1>3 DEF IInv, RowsOld, NoName
<1>7. AnswersOld'
  BY DEF IInv, AnswersOld
<1>8. \A u \in Users : username[u] # NoName /\ username'[u] < username[u] => u \in overlapped
  <2> SUFFICES ASSUME NEW u \in Users, username[u] # NoName, username'[u] < username[u], u \notin overlapped
               PROVE  FALSE
    OBVIOUS
  <2>1. CASE u # v
    BY <1>1, <1>2, <2>1
  <2>2. CASE u = v
    <3>1. username[u] <= n
      BY <2>2 DEF IInv, Alone
    <3> QED BY <1>1, <1>2, <1>3, <2>2, <3>1
  <2> QED BY <2>1, <2>2
<1>9. Alone'
  <2>1. ASSUME NEW u \in Users \ overlapped, NEW q \in Processes, NEW r \in Processes,
               Holds(q, u)', Holds(r, u)'
        PROVE  q = r
    <3>1. Holds(q, u) /\ Holds(r, u)
      BY <2>1 DEF Holds
    <3> QED BY <3>1 DEF IInv, Alone
  <2>2. ASSUME NEW u \in Users \ overlapped, NEW q \in Processes,
               calls'[q].user = u, calls'[q].at = "upsert", username'[u] # NoName
        PROVE  username'[u] <= calls'[q].name
    <3>1. q # p /\ calls'[q] = calls[q]
      BY <2>2
    <3>2. Holds(q, u)
      BY <2>2, <3>1 DEF Holds
    <3>3. u # v
      BY <3>1, <3>2 DEF IInv, Alone, Holds
    <3> QED BY <1>2, <2>2, <3>1, <3>3 DEF IInv, Alone
  <2> QED BY <2>1, <2>2 DEF Alone, NoName
<1> QED BY <1>5, <1>6, <1>7, <1>8, <1>9

\* A call takes the name that the row has, to cache it, or the one that Discord has.
LEMMA TakeIs ==
  ASSUME IInv, NEW p \in Processes, NEW n, NEW place, Take(p, n, place),
         UNCHANGED <<name, username>>,
         \/ place = "cacheRow"
         \/ place = "upsert" /\ n = name[calls[p].user]
  PROVE  CallsAreCalls' /\ RowsOld' /\ AnswersOld' /\ Alone'
<1> DEFINE v == calls[p].user
           c == [at |-> place, user |-> v, name |-> n]
<1>1. /\ calls' = [calls EXCEPT ![p] = c] /\ IsCall(c)
      /\ overlapped' = IF \E q \in Processes \ {p} : Holds(q, v) THEN overlapped \cup {v} ELSE overlapped
  BY DEF Take, IsCall
<1>2. CallsAreCalls' /\ calls'[p] = c /\ \A q \in Processes \ {p} : calls'[q] = calls[q]
  <2> HIDE DEF c
  <2> QED BY <1>1, OtherCalls DEF IInv
<1>3. c.at = place /\ c.user = v /\ c.name = n
  OBVIOUS
<1> HIDE DEF c
<1>4. RowsOld'
  BY DEF IInv, RowsOld, NoName
<1>5. name \in [Users -> 0..MaxRenames] /\ MaxRenames \in Nat /\ username \in [Users -> 0..NoName]
  BY UserServiceAssumption DEF IInv, Columns
<1>6. \A u \in Users : name[u] \in Nat /\ name[u] <= name[u]
  BY <1>5
<1>7. AnswersOld'
  BY <1>2, <1>3, <1>6 DEF IInv, AnswersOld
<1>8. ASSUME NEW u \in Users \ overlapped', NEW q \in Processes, NEW r \in Processes,
             Holds(q, u)', Holds(r, u)'
      PROVE  q = r
  <2>1. u \notin overlapped
    BY <1>1, <1>8
  <2>2. ASSUME NEW x \in Processes \ {p}, Holds(x, u)' PROVE Holds(x, u)
    BY <1>2, <2>2 DEF Holds
  <2>3. ASSUME Holds(p, u)', NEW x \in Processes \ {p}, Holds(x, u)' PROVE FALSE
    <3>1. u = v
      BY <1>2, <1>3, <2>3 DEF Holds
    <3>2. Holds(x, v)
      BY <2>2, <2>3, <3>1
    <3> QED BY <1>1, <1>8, <3>1, <3>2
  <2> QED BY <1>8, <2>1, <2>2, <2>3 DEF IInv, Alone
<1>9. ASSUME NEW u \in Users \ overlapped', NEW q \in Processes,
             calls'[q].user = u, calls'[q].at = "upsert", username[u] # NoName
      PROVE  username[u] <= calls'[q].name
  <2>1. u \notin overlapped
    BY <1>1, <1>9
  <2>2. CASE q = p
    BY <1>2, <1>3, <1>9, <2>2 DEF IInv, RowsOld
  <2>3. CASE q # p
    BY <1>2, <1>9, <2>1, <2>3 DEF IInv, Alone
  <2> QED BY <2>2, <2>3
<1>10. Alone'
  BY <1>8, <1>9 DEF Alone, NoName
<1> QED BY <1>2, <1>4, <1>7, <1>10

\* The steps of GetUser and fetchAndUpdateUser.
LEMMA ProcessStep ==
  ASSUME IInv, NEW p \in Processes, Step(p) \/ GetUser(p)
  PROVE  /\ username' \in [Users -> 0..NoName]
         /\ UNCHANGED <<name, posts, lastMessage, activities>>
         /\ CallsAreCalls' /\ RowsOld' /\ AnswersOld' /\ Alone'
         /\ \A u \in Users :
               username[u] # NoName /\ username'[u] < username[u] => u \in overlapped'
<1> USE DEF discordVars, rowVars, cacheVars, jobVars, historyVars
<1>0. username \in [Users -> 0..NoName] /\ CallsAreCalls /\ MaxRenames \in Nat
  BY UserServiceAssumption DEF IInv, Columns
<1>1. ASSUME username' = username
      PROVE  /\ username' \in [Users -> 0..NoName]
             /\ \A u \in Users :
                   username[u] # NoName /\ username'[u] < username[u] => u \in overlapped'
  BY <1>0, <1>1 DEF NoName
<1>2. ASSUME UNCHANGED <<name, username, overlapped>>, CallsAreCalls',
             \A q \in Processes \ {p} : calls'[q] = calls[q],
             \/ calls'[p].at \in {"idle", "read", "fetch"}
             \/ /\ calls'[p].at \in {"cacheRow", "cacheNew"}
                /\ calls'[p].user = calls[p].user
                /\ calls[p].at \in {"cacheRow", "upsert", "cacheNew"}
      PROVE  RowsOld' /\ AnswersOld' /\ Alone'
  BY <1>2, CallsMove
<1>3. ASSUME Return(p)
      PROVE  CallsAreCalls' /\ calls'[p].at = "idle" /\ \A q \in Processes \ {p} : calls'[q] = calls[q]
  BY <1>0, <1>3, ReturnIs
<1>4. CASE GetUser(p)
  <2>1. PICK u \in Users : calls' = [calls EXCEPT ![p] = [at |-> "read", user |-> u, name |-> NoName]]
    BY <1>4 DEF GetUser
  <2>2. CallsAreCalls' /\ calls'[p].at = "read" /\ \A q \in Processes \ {p} : calls'[q] = calls[q]
    <3> DEFINE c == [at |-> "read", user |-> u, name |-> NoName]
    <3>1. IsCall(c) /\ c.at = "read"
      BY DEF IsCall
    <3> HIDE DEF c
    <3>2. calls' = [calls EXCEPT ![p] = c]
      BY <2>1 DEF c
    <3> QED BY <1>0, <3>1, <3>2, OtherCalls
  <2>3. UNCHANGED <<name, username, overlapped, posts, lastMessage, activities>>
    BY <1>4 DEF GetUser
  <2> QED BY <1>1, <1>2, <2>2, <2>3
<1>5. CASE ReadRow(p)
  <2>1. UNCHANGED <<name, username, posts, lastMessage, activities>>
    BY <1>5 DEF ReadRow
  <2>2. CASE Take(p, username[calls[p].user], "cacheRow")
    BY <1>1, <2>1, <2>2, TakeIs
  <2>3. CASE Goto(p, "fetch") /\ UNCHANGED historyVars
    <3>1. CallsAreCalls' /\ calls'[p].at = "fetch" /\ \A q \in Processes \ {p} : calls'[q] = calls[q]
      BY <1>0, <2>3, GotoIs
    <3> QED BY <1>1, <1>2, <2>1, <2>3, <3>1
  <2> QED BY <1>5, <2>2, <2>3 DEF ReadRow
<1>6. CASE Fetch(p)
  <2>1. /\ UNCHANGED <<name, username, posts, lastMessage, activities>>
        /\ Take(p, name[calls[p].user], "upsert")
    BY <1>6 DEF Fetch
  <2> QED BY <1>1, <2>1, TakeIs
<1>7. CASE Upsert(p)
  <2>1. /\ calls[p].at = "upsert" /\ UpsertUser(calls[p].user, calls[p].name) /\ Goto(p, "cacheNew")
        /\ UNCHANGED <<name, overlapped, posts, lastMessage, activities>>
    BY <1>7 DEF Upsert, UpsertUser
  <2>2. /\ CallsAreCalls' /\ calls'[p].at = "cacheNew" /\ calls'[p].user = calls[p].user
        /\ \A q \in Processes \ {p} : calls'[q] = calls[q]
    BY <1>0, <2>1, GotoIs
  <2> QED BY <2>1, <2>2, UpsertIs
<1>8. CASE Fail(p)
  <2>1. /\ Return(p) /\ UNCHANGED <<name, overlapped, posts, lastMessage, activities>>
        /\ \/ username' = username
           \/ calls[p].at = "upsert" /\ UpsertUser(calls[p].user, calls[p].name)
    BY <1>8 DEF Fail, UpsertUser
  <2>2. CallsAreCalls' /\ calls'[p].at = "idle" /\ \A q \in Processes \ {p} : calls'[q] = calls[q]
    BY <1>3, <2>1
  <2>3. CASE username' = username
    BY <1>1, <1>2, <2>1, <2>2, <2>3
  <2>4. CASE calls[p].at = "upsert" /\ UpsertUser(calls[p].user, calls[p].name)
    BY <2>1, <2>2, <2>4, UpsertIs
  <2> QED BY <2>1, <2>3, <2>4
<1>9. CASE WriteCache(p)
  <2>1. Return(p) /\ UNCHANGED <<name, username, overlapped, posts, lastMessage, activities>>
    BY <1>9 DEF WriteCache
  <2> QED BY <1>1, <1>2, <1>3, <2>1
<1> QED BY <1>4, <1>5, <1>6, <1>7, <1>8, <1>9 DEF Step

\* All the others: they change no column but that of the last message.
LEMMA OtherStep ==
  ASSUME IInv, [Next]_vars, ~(\E p \in Processes : Step(p)), ~(\E p \in Callers : GetUser(p))
  PROVE  /\ Columns'
         /\ CallsAreCalls' /\ RowsOld' /\ AnswersOld' /\ Alone'
         /\ username' = username
         /\ \A u \in Users : lastMessage'[u] < lastMessage[u] =>
               \E a \in activities : a.user = u /\ a.post = lastMessage'[u]
<1> USE DEF discordVars, rowVars, cacheVars, jobVars, historyVars
<1>0. Columns /\ CallsAreCalls /\ MaxRenames \in Nat /\ MaxPosts \in Nat
  BY UserServiceAssumption DEF IInv
<1>1. ASSUME UNCHANGED <<name, username, overlapped, calls>>
      PROVE  CallsAreCalls' /\ RowsOld' /\ AnswersOld' /\ Alone'
  BY <1>0, <1>1, CallsMove DEF CallsAreCalls
<1>2. ASSUME UNCHANGED lastMessage
      PROVE  \A u \in Users : ~(lastMessage'[u] < lastMessage[u])
  BY <1>0, <1>2 DEF Columns
<1>3. CASE RefreshStaleUsers \/ CleanupUserCache \/ AgeRow \/ AgeEntry \/ UNCHANGED vars
  <2>1. UNCHANGED <<name, username, overlapped, calls, posts, lastMessage, activities>>
    BY <1>3 DEF RefreshStaleUsers, CleanupUserCache, AgeRow, AgeEntry, vars
  <2> QED BY <1>0, <1>1, <1>2, <2>1 DEF Columns
<1>4. CASE RefreshNext
  <2> DEFINE c == [at |-> "fetch", user |-> Head(todo), name |-> NoName]
  <2>1. /\ UNCHANGED <<name, username, overlapped, posts, lastMessage, activities>>
        /\ calls' = [calls EXCEPT !["job"] = c] /\ "job" \in Processes
    BY <1>4 DEF RefreshNext, Processes
  <2>2. IsCall(c) /\ c.at = "fetch"
    BY DEF IsCall
  <2> HIDE DEF c
  <2>3. CallsAreCalls' /\ calls'["job"].at = "fetch" /\ \A q \in Processes \ {"job"} : calls'[q] = calls[q]
    BY <1>0, <2>1, <2>2, OtherCalls
  <2>4. RowsOld' /\ AnswersOld' /\ Alone'
    BY <2>1, <2>3, CallsMove
  <2> QED BY <1>0, <1>2, <2>1, <2>3, <2>4 DEF Columns
<1>5. ASSUME NEW a \in activities, RecordUserActivity(a)
      PROVE  /\ Columns' /\ CallsAreCalls' /\ RowsOld' /\ AnswersOld' /\ Alone' /\ username' = username
             /\ \A u \in Users : lastMessage'[u] < lastMessage[u] =>
                   \E b \in activities : b.user = u /\ b.post = lastMessage'[u]
  <2>1. /\ UNCHANGED <<name, username, overlapped, calls, posts>>
        /\ activities' = activities \ {a}
        /\ lastMessage' = [lastMessage EXCEPT ![a.user] = a.post] \/ lastMessage' = lastMessage
    BY <1>5 DEF RecordUserActivity, UpdateUserLastMessage
  <2>2. a.user \in Users /\ a.post \in 0..MaxPosts
    BY <1>0 DEF Columns
  <2>3. \A u \in Users : lastMessage'[u] = lastMessage[u] \/ (u = a.user /\ lastMessage'[u] = a.post)
    BY <1>0, <2>1 DEF Columns
  <2> QED BY <1>0, <1>1, <2>1, <2>2, <2>3 DEF Columns
<1>6. ASSUME NEW u \in Known, MessageCreate(u)
      PROVE  Columns' /\ CallsAreCalls' /\ RowsOld' /\ AnswersOld' /\ Alone' /\ UNCHANGED <<username, lastMessage>>
  <2>1. /\ UNCHANGED <<name, username, overlapped, calls, lastMessage>>
        /\ posts[u] < MaxPosts /\ posts' = [posts EXCEPT ![u] = @ + 1]
        /\ activities' = activities \cup {[user |-> u, post |-> posts'[u]]}
    BY <1>6 DEF MessageCreate
  <2>2. u \in Users /\ posts[u] + 1 \in 1..MaxPosts
    BY <1>0, <2>1 DEF Known, Columns
  <2>3. posts' \in [Users -> 0..MaxPosts] /\ posts'[u] \in 1..MaxPosts
    BY <1>0, <2>1, <2>2 DEF Columns
  <2> QED BY <1>0, <1>1, <2>1, <2>2, <2>3 DEF Columns
<1>7. ASSUME NEW u \in Known, Rename(u)
      PROVE  Columns' /\ CallsAreCalls' /\ RowsOld' /\ AnswersOld' /\ Alone' /\ UNCHANGED <<username, lastMessage>>
  <2>1. /\ UNCHANGED <<username, overlapped, calls, lastMessage, posts, activities>>
        /\ name[u] < MaxRenames /\ name' = [name EXCEPT ![u] = @ + 1]
    BY <1>7 DEF Rename
  <2>2. u \in Users /\ name[u] + 1 \in 0..MaxRenames
    BY <1>0, <2>1 DEF Known, Columns
  <2>3. name' \in [Users -> 0..MaxRenames] /\ \A v \in Users : name'[v] >= name[v]
    BY <1>0, <2>1, <2>2 DEF Columns
  <2>4. RowsOld'
    BY <1>0, <2>1, <2>3 DEF IInv, RowsOld, Columns, NoName
  <2>5. AnswersOld'
    BY <1>0, <2>1, <2>3 DEF IInv, AnswersOld, Columns
  <2>6. Alone'
    BY <2>1 DEF IInv, Alone, Holds, NoName
  <2>7. CallsAreCalls'
    BY <1>0, <2>1 DEF CallsAreCalls
  <2> QED BY <1>0, <2>1, <2>3, <2>4, <2>5, <2>6, <2>7 DEF Columns
<1> QED BY <1>2, <1>3, <1>4, <1>5, <1>6, <1>7 DEF Next

\* Every step keeps the invariant.
LEMMA StepIInv == IInv /\ [Next]_vars => IInv'
<1> SUFFICES ASSUME IInv, [Next]_vars PROVE IInv'
  OBVIOUS
<1>1. ASSUME NEW p \in Processes, Step(p) \/ GetUser(p) PROVE IInv'
  BY <1>1, ProcessStep DEF IInv, Columns
<1>2. Callers \subseteq Processes
  BY DEF Processes
<1> QED BY <1>1, <1>2, OtherStep DEF IInv

\* The invariant holds in every behaviour.
LEMMA IInvHolds == Spec => []IInv
  BY InitIInv, StepIInv, PTL DEF Spec

\* The name in a row goes back only after two calls overlapped for the user, whatever
\* the database, Discord and the callers do (GetUser, fetchAndUpdateUser).
THEOREM NamesGoBackByOverlap == Spec => NameGoesBackByOverlap
<1>1. IInv /\ [Next]_vars =>
        [\A u \in Users :
            username[u] # NoName /\ username'[u] < username[u] => u \in overlapped']_vars
  <2> SUFFICES ASSUME IInv, [Next]_vars, NEW u \in Users,
                      username[u] # NoName, username'[u] < username[u]
               PROVE  u \in overlapped'
    OBVIOUS
  <2>1. Callers \subseteq Processes /\ ~(username[u] < username[u])
    BY UserServiceAssumption DEF Processes, IInv, Columns, NoName
  <2> QED BY <2>1, ProcessStep, OtherStep
<1> QED BY <1>1, IInvHolds, PTL DEF Spec, NameGoesBackByOverlap

\* The last message of a user goes back only to that of a goroutine that was overtaken;
\* no refresh of the user takes it back (UpsertUser, UpdateUserLastMessage).
THEOREM ActivitiesGoBackByRace == Spec => ActivityGoesBackByRace
<1>1. IInv /\ [Next]_vars =>
        [\A u \in Users : lastMessage'[u] < lastMessage[u] =>
            \E a \in activities : a.user = u /\ a.post = lastMessage'[u]]_vars
  <2> SUFFICES ASSUME IInv, [Next]_vars, NEW u \in Users, lastMessage'[u] < lastMessage[u]
               PROVE  \E a \in activities : a.user = u /\ a.post = lastMessage'[u]
    OBVIOUS
  <2>1. Callers \subseteq Processes /\ ~(lastMessage[u] < lastMessage[u])
    BY UserServiceAssumption DEF Processes, IInv, Columns
  <2> QED BY <2>1, ProcessStep, OtherStep
<1> QED BY <1>1, IInvHolds, PTL DEF Spec, ActivityGoesBackByRace
-----------------------------------------------------------------------------
(***************************************************************************)
(* Sequences with an element moved to the end, the rows, and the entries   *)
(* of the cache.                                                           *)
(***************************************************************************)

\* s without its element at i, and with e as its last.
Moved(s, i, e) == Append(RemoveAt(s, i), e)

\* An element moves from its place to the end: the ones behind it move up.
LEMMA MoveToEnd ==
  ASSUME NEW S, NEW s \in Seq(S), NEW e \in S, NEW i \in DOMAIN s
  PROVE  /\ Moved(s, i, e) \in Seq(S) /\ Len(Moved(s, i, e)) = Len(s) /\ Len(s) \in Nat \ {0}
         /\ Moved(s, i, e)[Len(s)] = e
         /\ \A j \in 1..Len(s)-1 : Moved(s, i, e)[j] = IF j < i THEN s[j] ELSE s[j+1]
<1>1. Len(s) \in Nat /\ i \in 1..Len(s) /\ \A j \in 1..Len(s) : s[j] \in S
  BY LenProperties, ElementOfSeq
<1> DEFINE before == SubSeq(s, 1, i-1)
           after == SubSeq(s, i+1, Len(s))
<1>2. /\ before \in Seq(S) /\ Len(before) = i - 1
      /\ \A j \in 1..i-1 : before[j] = s[j]
  <2>1. i - 1 \in Int /\ \A j \in 1..i-1 : s[j] \in S
    BY <1>1
  <2>2. /\ before \in Seq(S) /\ Len(before) = IF 1 <= i-1 THEN (i-1)-1+1 ELSE 0
        /\ \A j \in 1..(i-1)-1+1 : before[j] = s[1+j-1]
    BY <2>1, SubSeqProperties
  <2> HIDE DEF before
  <2> QED BY <1>1, <2>2
<1>3. /\ after \in Seq(S) /\ Len(after) = Len(s) - i
      /\ \A j \in 1..Len(s)-i : after[j] = s[i+j]
  <2>1. i + 1 \in Int /\ Len(s) \in Int /\ \A j \in i+1..Len(s) : s[j] \in S
    BY <1>1
  <2>2. /\ after \in Seq(S) /\ Len(after) = IF i+1 <= Len(s) THEN Len(s)-(i+1)+1 ELSE 0
        /\ \A j \in 1..Len(s)-(i+1)+1 : after[j] = s[(i+1)+j-1]
    BY <2>1, SubSeqProperties
  <2> HIDE DEF after
  <2>3. Len(after) = Len(s) - i
    BY <1>1, <2>2
  <2>4. ASSUME NEW j \in 1..Len(s)-i PROVE after[j] = s[i+j]
    <3>1. j \in 1..Len(s)-(i+1)+1 /\ (i+1)+j-1 = i+j
      BY <1>1
    <3> QED BY <2>2, <3>1
  <2> QED BY <2>2, <2>3, <2>4
<1> DEFINE rest == before \o after
<1>4. /\ rest \in Seq(S) /\ Len(rest) = Len(s) - 1
      /\ \A j \in 1..Len(s)-1 : rest[j] = IF j < i THEN s[j] ELSE s[j+1]
  <2> HIDE DEF before, after
  <2>1. /\ rest \in Seq(S) /\ Len(rest) = Len(before) + Len(after)
        /\ \A j \in 1..Len(before)+Len(after) :
              rest[j] = IF j <= Len(before) THEN before[j] ELSE after[j - Len(before)]
    BY <1>2, <1>3, ConcatProperties
  <2> HIDE DEF rest
  <2>2. Len(rest) = Len(s) - 1
    BY <1>1, <1>2, <1>3, <2>1
  <2>3. ASSUME NEW j \in 1..Len(s)-1 PROVE rest[j] = IF j < i THEN s[j] ELSE s[j+1]
    <3>1. CASE j < i
      <4>1. j \in 1..i-1 /\ j <= i-1 /\ j \in 1..Len(before)+Len(after)
        BY <1>1, <1>2, <1>3, <3>1
      <4>2. rest[j] = before[j]
        BY <1>2, <1>3, <2>1, <4>1
      <4> QED BY <1>2, <3>1, <4>1, <4>2
    <3>2. CASE ~(j < i)
      <4>1. j - (i-1) \in 1..Len(s)-i /\ i + (j - (i-1)) = j + 1 /\ ~(j <= i-1)
            /\ j \in 1..Len(before)+Len(after)
        <5>1. j \in Int /\ i \in Int /\ Len(s) \in Int /\ 1 <= i /\ i <= j /\ j <= Len(s)-1
          BY <1>1, <3>2
        <5>2. Len(before)+Len(after) = Len(s)-1
          BY <1>2, <1>3, <5>1
        <5> QED BY <5>1, <5>2
      <4>2. rest[j] = after[j - (i-1)]
        BY <1>2, <2>1, <4>1
      <4> QED BY <1>3, <3>2, <4>1, <4>2
    <3> QED BY <3>1, <3>2
  <2> QED BY <2>1, <2>2, <2>3
<1>5. Moved(s, i, e) = Append(rest, e)
  BY DEF RemoveAt, Moved
<1> HIDE DEF rest
<1>6. /\ Append(rest, e) \in Seq(S) /\ Len(Append(rest, e)) = Len(rest)+1
      /\ \A j \in 1..Len(rest) : Append(rest, e)[j] = rest[j]
      /\ Append(rest, e)[Len(rest)+1] = e
  BY <1>4, AppendProperties
<1> QED BY <1>1, <1>4, <1>5, <1>6

\* x is an element of s, and not the one at i.
Other(s, i, x) == \E j \in 1..Len(s) : j # i /\ x = s[j]

\* The elements before the last are the others, ...
LEMMA MovedFrom ==
  ASSUME NEW S, NEW s \in Seq(S), NEW e \in S, NEW i \in DOMAIN s, NEW k \in 1..Len(s)-1
  PROVE  Other(s, i, Moved(s, i, e)[k])
<1> DEFINE t == Moved(s, i, e)
<1>1. DOMAIN s = 1..Len(s)
  BY LenProperties
<1>2. Len(s) \in Nat \ {0} /\ t[k] = IF k < i THEN s[k] ELSE s[k+1]
  BY MoveToEnd
<1> HIDE DEF t
<1>3. CASE k < i
  <2>1. k \in 1..Len(s) /\ k # i
    BY <1>1, <1>2, <1>3
  <2> QED BY <1>2, <1>3, <2>1 DEF t, Other
<1>4. CASE ~(k < i)
  <2>1. k+1 \in 1..Len(s) /\ k+1 # i
    BY <1>1, <1>2, <1>4
  <2> QED BY <1>2, <1>4, <2>1 DEF t, Other
<1> QED BY <1>3, <1>4

\* ... all of them, ...
LEMMA MovedTo ==
  ASSUME NEW S, NEW s \in Seq(S), NEW e \in S, NEW i \in DOMAIN s, NEW j \in 1..Len(s), j # i
  PROVE  \E k \in 1..Len(s)-1 : Moved(s, i, e)[k] = s[j]
<1> DEFINE t == Moved(s, i, e)
<1>1. DOMAIN s = 1..Len(s)
  BY LenProperties
<1>2. /\ Len(s) \in Nat \ {0}
      /\ \A k \in 1..Len(s)-1 : t[k] = IF k < i THEN s[k] ELSE s[k+1]
  BY MoveToEnd
<1> HIDE DEF t
<1>3. CASE j < i
  <2>1. j \in 1..Len(s)-1
    BY <1>1, <1>2, <1>3
  <2> QED BY <1>2, <1>3, <2>1 DEF t
<1>4. CASE i < j
  <2>1. j-1 \in 1..Len(s)-1 /\ ~(j-1 < i) /\ (j-1)+1 = j
    BY <1>1, <1>2, <1>4
  <2> QED BY <1>2, <2>1 DEF t
<1>5. j < i \/ i < j
  BY <1>1, <1>2
<1> QED BY <1>3, <1>4, <1>5

\* ... and each as often as before.
LEMMA MovedOnce ==
  ASSUME NEW S, NEW s \in Seq(S), NEW e \in S, NEW i \in DOMAIN s, IsInjective(s),
         NEW j \in 1..Len(s)-1, NEW k \in 1..Len(s)-1, Moved(s, i, e)[j] = Moved(s, i, e)[k]
  PROVE  j = k
<1> DEFINE t == Moved(s, i, e)
<1>1. Len(s) \in Nat \ {0} /\ \A a, b \in 1..Len(s) : s[a] = s[b] => a = b
  <2>1. DOMAIN s = 1..Len(s)
    BY LenProperties
  <2>2. Len(s) \in Nat \ {0}
    BY MoveToEnd
  <2> QED BY <2>1, <2>2 DEF IsInjective
<1>2. /\ t[j] = IF j < i THEN s[j] ELSE s[j+1]
      /\ t[k] = IF k < i THEN s[k] ELSE s[k+1]
  BY MoveToEnd
<1>3. t[j] = t[k]
  OBVIOUS
<1>4. i \in Int
  BY LenProperties
<1> HIDE DEF t
<1>5. j \in 1..Len(s) /\ j+1 \in 1..Len(s) /\ k \in 1..Len(s) /\ k+1 \in 1..Len(s)
  BY <1>1
<1>6. CASE j < i /\ k < i
  BY <1>1, <1>2, <1>3, <1>5, <1>6
<1>7. CASE j < i /\ ~(k < i)
  <2>1. j = k+1
    BY <1>1, <1>2, <1>3, <1>5, <1>7
  <2> QED BY <1>1, <1>4, <1>7, <2>1
<1>8. CASE ~(j < i) /\ k < i
  <2>1. j+1 = k
    BY <1>1, <1>2, <1>3, <1>5, <1>8
  <2> QED BY <1>1, <1>4, <1>8, <2>1
<1>9. CASE ~(j < i) /\ ~(k < i)
  <2>1. j+1 = k+1
    BY <1>1, <1>2, <1>3, <1>5, <1>9
  <2> QED BY <1>1, <2>1
<1> QED BY <1>6, <1>7, <1>8, <1>9

\* The rows stay one per user and in order, and the user has one afterwards.
LEMMA TouchIs ==
  ASSUME order \in Seq(Users), IsInjective(order), stale \in 0..Len(order),
         NEW u \in Users, Touch(u)
  PROVE  /\ order' \in Seq(Users) /\ IsInjective(order')
         /\ stale' \in 0..Len(order')
         /\ ToSet(order') = Rows \cup {u}
<1>1. Len(order) \in Nat /\ DOMAIN order = 1..Len(order) /\ \A j \in 1..Len(order) : order[j] \in Users
  BY LenProperties, ElementOfSeq
<1>2. CASE u \notin Rows /\ order' = Append(order, u) /\ UNCHANGED stale
  <2>1. /\ order' \in Seq(Users) /\ Len(order') = Len(order)+1
        /\ \A j \in 1..Len(order) : order'[j] = order[j]
        /\ order'[Len(order)+1] = u
    BY <1>2, AppendProperties
  <2>2. DOMAIN order' = 1..Len(order)+1
    BY <2>1, LenProperties
  <2>3. \A j \in 1..Len(order) : order[j] # u
    BY <1>1, <1>2 DEF Rows, ToSet
  <2>4. IsInjective(order')
    <3> SUFFICES ASSUME NEW a \in 1..Len(order)+1, NEW b \in 1..Len(order)+1, order'[a] = order'[b]
                 PROVE  a = b
      BY <2>2 DEF IsInjective
    <3>1. CASE a \in 1..Len(order) /\ b \in 1..Len(order)
      BY <1>1, <2>1, <3>1 DEF IsInjective
    <3>2. CASE a = Len(order)+1 \/ b = Len(order)+1
      BY <1>1, <2>1, <2>3, <3>2
    <3> QED BY <1>1, <3>1, <3>2
  <2>5. ToSet(order') = Rows \cup {u}
    <3>1. \A x : x \in ToSet(order') <=> \E j \in 1..Len(order)+1 : order'[j] = x
      BY <2>2 DEF ToSet
    <3>2. \A x : x \in Rows <=> \E j \in 1..Len(order) : order[j] = x
      BY <1>1 DEF Rows, ToSet
    <3>3. ASSUME NEW j \in 1..Len(order)+1 PROVE j = Len(order)+1 \/ j \in 1..Len(order)
      BY <1>1
    <3>4. \A j \in 1..Len(order) : j \in 1..Len(order)+1
      BY <1>1
    <3>5. Len(order)+1 \in 1..Len(order)+1
      BY <1>1
    <3> QED BY <2>1, <3>1, <3>2, <3>3, <3>4, <3>5
  <2> QED BY <1>1, <1>2, <2>1, <2>4, <2>5
<1>3. ASSUME NEW i \in DOMAIN order, order[i] = u, order' = Append(RemoveAt(order, i), u),
             stale' = IF i <= stale THEN stale - 1 ELSE stale
      PROVE  /\ order' \in Seq(Users) /\ IsInjective(order')
             /\ stale' \in 0..Len(order')
             /\ ToSet(order') = Rows \cup {u}
  <2>a. order' = Moved(order, i, u)
    BY <1>3 DEF Moved
  <2> DEFINE t == Moved(order, i, u)
  <2>b. t \in Seq(Users) /\ Len(t) = Len(order) /\ Len(order) \in Nat \ {0} /\ t[Len(order)] = u
    BY MoveToEnd
  <2>c. ASSUME NEW j \in 1..Len(order), j # i PROVE \E k \in 1..Len(order)-1 : t[k] = order[j]
    BY <2>c, MovedTo
  <2>d. ASSUME NEW k \in 1..Len(order)-1 PROVE Other(order, i, t[k])
    BY MovedFrom
  <2>e. ASSUME NEW j \in 1..Len(order)-1, NEW k \in 1..Len(order)-1, t[j] = t[k] PROVE j = k
    BY <2>e, MovedOnce
  <2> HIDE DEF t
  <2>1. order' \in Seq(Users) /\ Len(order') = Len(order) /\ Len(order) \in Nat \ {0} /\ order'[Len(order)] = u
    BY <2>a, <2>b DEF t
  <2>2. DOMAIN order' = 1..Len(order)
    BY <2>1, LenProperties
  <2>3. /\ \A j \in 1..Len(order) : j # i => \E k \in 1..Len(order)-1 : order'[k] = order[j]
        /\ \A k \in 1..Len(order)-1 : \E j \in 1..Len(order) : j # i /\ order'[k] = order[j]
        /\ \A j, k \in 1..Len(order)-1 : order'[j] = order'[k] => j = k
    BY <2>a, <2>c, <2>d, <2>e DEF t, Other
  <2>4. \A k \in 1..Len(order)-1 : order'[k] # u
    BY <1>1, <1>3, <2>3 DEF IsInjective
  <2>5. \A k \in 1..Len(order) : k = Len(order) \/ k \in 1..Len(order)-1
    BY <2>1
  <2>6. IsInjective(order')
    BY <2>1, <2>2, <2>3, <2>4, <2>5 DEF IsInjective
  <2>7. ToSet(order') = Rows \cup {u}
    <3>1. \A x : x \in ToSet(order') <=> \E j \in 1..Len(order) : order'[j] = x
      BY <2>2 DEF ToSet
    <3>2. \A x : x \in Rows <=> \E j \in 1..Len(order) : order[j] = x
      BY <1>1 DEF Rows, ToSet
    <3>3. \A k \in 1..Len(order)-1 : k \in 1..Len(order)
      BY <2>1
    <3>4. ASSUME NEW x \in ToSet(order') PROVE x \in Rows \cup {u}
      BY <2>1, <2>3, <2>5, <3>1, <3>2, <3>4
    <3>5. ASSUME NEW x \in Rows PROVE x \in ToSet(order')
      <4>1. PICK j \in 1..Len(order) : order[j] = x
        BY <3>2, <3>5
      <4>2. CASE j = i
        BY <1>3, <2>1, <3>1, <4>1, <4>2
      <4>3. CASE j # i
        BY <2>3, <3>1, <3>3, <4>1, <4>3
      <4> QED BY <4>2, <4>3
    <3>6. u \in ToSet(order')
      BY <2>1, <3>1
    <3> QED BY <3>4, <3>5, <3>6
  <2>8. stale' \in 0..Len(order')
    BY <1>1, <1>3, <2>1
  <2> QED BY <2>1, <2>6, <2>7, <2>8
<1> QED BY <1>2, <1>3 DEF Touch

\* The entries of the cache.
Entries == [user : Users, name : 0..MaxRenames]
\* No two of them are of one user.
OnePerUser(entries) ==
    \A i, j \in DOMAIN entries : entries[i].user = entries[j].user => i = j

\* The entries of t are entries of s.
Among(t, s) == \A j \in DOMAIN t : \E i \in DOMAIN s : t[j] = s[i]

\* They are but for that of u, which has the name n.
Replaced(t, s, u, n) ==
    \A j \in DOMAIN t :
        \/ t[j].user = u /\ t[j].name = n
        \/ t[j].user # u /\ \E i \in DOMAIN s : t[j] = s[i]

\* The new entry comes last, and the others are entries of other users that were kept.
LEMMA StoreIs ==
  ASSUME NEW kept \in Seq(Entries), OnePerUser(kept), NEW e \in 0..Len(kept),
         NEW u \in Users, NEW n \in 0..MaxRenames, StoreAfter(kept, e, u, n)
  PROVE  /\ cache' \in Seq(Entries) /\ OnePerUser(cache')
         /\ expired' \in 0..Len(cache') /\ Len(cache') <= Len(kept) + 1
         /\ Replaced(cache', kept, u, n)
<1> DEFINE entry == [user |-> u, name |-> n]
<1>1. Len(kept) \in Nat /\ DOMAIN kept = 1..Len(kept) /\ \A j \in 1..Len(kept) : kept[j] \in Entries
  BY LenProperties, ElementOfSeq
<1>2. entry \in Entries /\ entry.user = u /\ entry.name = n
  BY DEF Entries
<1> HIDE DEF entry
<1>3. CASE (\A i \in DOMAIN kept : kept[i].user # u) /\ cache' = Append(kept, entry) /\ expired' = e
  <2>1. /\ cache' \in Seq(Entries) /\ Len(cache') = Len(kept)+1
        /\ \A j \in 1..Len(kept) : cache'[j] = kept[j]
        /\ cache'[Len(kept)+1] = entry
    BY <1>2, <1>3, AppendProperties
  <2>2. DOMAIN cache' = 1..Len(kept)+1
    BY <2>1, LenProperties
  <2>3. \A j \in 1..Len(kept)+1 : j = Len(kept)+1 \/ j \in 1..Len(kept)
    BY <1>1
  <2>4. OnePerUser(cache')
    BY <1>1, <1>2, <1>3, <2>1, <2>2, <2>3 DEF OnePerUser
  <2>5. Replaced(cache', kept, u, n)
    BY <1>1, <1>2, <1>3, <2>1, <2>2, <2>3 DEF Replaced
  <2>6. expired' \in 0..Len(cache') /\ Len(cache') <= Len(kept) + 1
    BY <1>1, <1>3, <2>1
  <2> QED BY <2>1, <2>4, <2>5, <2>6
<1>4. ASSUME NEW i \in DOMAIN kept, kept[i].user = u, cache' = Append(RemoveAt(kept, i), entry),
             expired' = IF i <= e THEN e - 1 ELSE e
      PROVE  /\ cache' \in Seq(Entries) /\ OnePerUser(cache')
             /\ expired' \in 0..Len(cache') /\ Len(cache') <= Len(kept) + 1
             /\ Replaced(cache', kept, u, n)
  <2> DEFINE t == Moved(kept, i, entry)
  <2>1. /\ t \in Seq(Entries) /\ Len(t) = Len(kept) /\ Len(kept) \in Nat \ {0}
        /\ t[Len(kept)] = entry
    BY <1>2, MoveToEnd
  <2>2. ASSUME NEW k \in 1..Len(kept)-1 PROVE Other(kept, i, t[k])
    BY <1>2, MovedFrom
  <2>3. IsInjective(kept)
    BY DEF IsInjective, OnePerUser
  <2>4. cache' = t
    BY <1>4 DEF Moved
  <2>5. ASSUME NEW j \in 1..Len(kept)-1, NEW k \in 1..Len(kept)-1, t[j] = t[k] PROVE j = k
    BY <1>2, <2>3, <2>5, MovedOnce
  <2> HIDE DEF t
  <2>6. DOMAIN t = 1..Len(kept)
    BY <2>1, LenProperties
  <2>7. \A j \in 1..Len(kept) : j = Len(kept) \/ j \in 1..Len(kept)-1
    BY <2>1
  <2>8. \A k \in 1..Len(kept)-1 : t[k].user # u /\ \E j \in 1..Len(kept) : t[k] = kept[j]
    BY <1>1, <1>4, <2>2 DEF OnePerUser, Other
  <2>9. ASSUME NEW j \in 1..Len(kept), NEW k \in 1..Len(kept), t[j].user = t[k].user PROVE j = k
    <3>1. CASE j \in 1..Len(kept)-1 /\ k \in 1..Len(kept)-1
      <4>1. PICK a \in 1..Len(kept), b \in 1..Len(kept) : t[j] = kept[a] /\ t[k] = kept[b]
        BY <2>2, <3>1 DEF Other
      <4>2. a = b
        BY <1>1, <2>9, <4>1 DEF OnePerUser
      <4> QED BY <2>5, <3>1, <4>1, <4>2
    <3>2. CASE j = Len(kept) \/ k = Len(kept)
      BY <1>2, <2>1, <2>7, <2>8, <2>9, <3>2
    <3> QED BY <2>7, <3>1, <3>2
  <2>10. OnePerUser(t)
    BY <2>6, <2>9 DEF OnePerUser
  <2>11. Replaced(t, kept, u, n)
    BY <1>1, <1>2, <2>1, <2>6, <2>7, <2>8 DEF Replaced
  <2>12. expired' \in 0..Len(t) /\ Len(t) <= Len(kept) + 1
    BY <1>1, <1>4, <2>1
  <2> QED BY <2>1, <2>4, <2>10, <2>11, <2>12
<1> QED BY <1>3, <1>4 DEF StoreAfter, entry

\* The cache has its size, and the first of its entries have expired.
CacheOK == /\ cache \in Seq(Entries) /\ OnePerUser(cache)
           /\ expired \in 0..Len(cache) /\ Len(cache) <= MaxCacheSize

\* The elements of s from first on.
Slice(s, first) == SubSeq(s, first, Len(s))

\* Entries that are kept in their order stay one per user.
LEMMA SliceIs ==
  ASSUME NEW s \in Seq(Entries), OnePerUser(s), NEW first \in Nat \ {0}
  PROVE  /\ Slice(s, first) \in Seq(Entries) /\ OnePerUser(Slice(s, first))
         /\ Len(Slice(s, first)) = IF first <= Len(s) THEN Len(s) - first + 1 ELSE 0
         /\ Among(Slice(s, first), s)
<1> DEFINE t == Slice(s, first)
<1>1. Len(s) \in Nat /\ DOMAIN s = 1..Len(s) /\ \A j \in 1..Len(s) : s[j] \in Entries
  BY LenProperties, ElementOfSeq
<1>2. /\ t \in Seq(Entries) /\ Len(t) = IF first <= Len(s) THEN Len(s) - first + 1 ELSE 0
      /\ \A j \in 1..Len(s)-first+1 : t[j] = s[first+j-1]
  <2>1. first \in Int /\ Len(s) \in Int /\ \A j \in first..Len(s) : s[j] \in Entries
    BY <1>1
  <2> QED BY <2>1, SubSeqProperties DEF Slice
<1> HIDE DEF t
<1>3. DOMAIN t = 1..Len(t)
  BY <1>2, LenProperties
<1>4. ASSUME NEW j \in DOMAIN t PROVE first+j-1 \in DOMAIN s /\ t[j] = s[first+j-1]
  <2>1. j \in 1..Len(s)-first+1
    BY <1>1, <1>2, <1>3
  <2>2. first+j-1 \in 1..Len(s)
    BY <1>1, <2>1
  <2> QED BY <1>1, <1>2, <2>1, <2>2
<1>5. OnePerUser(t)
  <2> SUFFICES ASSUME NEW j \in DOMAIN t, NEW k \in DOMAIN t, t[j].user = t[k].user PROVE j = k
    BY DEF OnePerUser
  <2>1. first+j-1 = first+k-1
    BY <1>4 DEF OnePerUser
  <2>2. j \in Int /\ k \in Int
    BY <1>3
  <2> QED BY <2>1, <2>2
<1>6. Among(t, s)
  BY <1>4 DEF Among
<1> QED BY <1>2, <1>5, <1>6 DEF t

\* A call that writes to the cache leaves its user's entry and entries of other users.
LEMMA UpdateCacheIs ==
  ASSUME CacheOK, NEW u \in Users, NEW n \in 0..MaxRenames, UpdateCache(u, n)
  PROVE  CacheOK' /\ Replaced(cache', cache, u, n)
<1>1. /\ MaxCacheSize \in Nat \ {0} /\ Len(cache) \in Nat /\ Len(cache) <= MaxCacheSize
      /\ cache \in Seq(Entries) /\ OnePerUser(cache) /\ expired \in 0..Len(cache)
  BY UserServiceAssumption, LenProperties DEF CacheOK
<1>2. CASE Len(cache) >= MaxCacheSize
  <2> DEFINE kept == Tail(cache)
             e == IF expired > 0 THEN expired - 1 ELSE 0
  <2>1. StoreAfter(kept, e, u, n)
    BY <1>2 DEF UpdateCache, StoreEvicting
  <2>2. cache # <<>>
    BY <1>1, <1>2, EmptySeq
  <2>3. kept = Slice(cache, 2) /\ Len(kept) = Len(cache) - 1
    BY <1>1, <2>2, TailIsSubSeq, HeadTailProperties DEF Slice
  <2>4. kept \in Seq(Entries) /\ OnePerUser(kept) /\ Among(kept, cache)
    <3> HIDE DEF kept
    <3>0. 2 \in Nat \ {0}
      OBVIOUS
    <3>1. /\ Slice(cache, 2) \in Seq(Entries) /\ OnePerUser(Slice(cache, 2))
          /\ Among(Slice(cache, 2), cache)
      BY <1>1, <3>0, SliceIs
    <3> QED BY <2>3, <3>1
  <2>5. e \in 0..Len(kept)
    BY <1>1, <1>2, <2>3
  <2> HIDE DEF e, kept
  <2>6. /\ cache' \in Seq(Entries) /\ OnePerUser(cache')
        /\ expired' \in 0..Len(cache') /\ Len(cache') <= Len(kept) + 1
        /\ Replaced(cache', kept, u, n)
    BY <2>1, <2>4, <2>5, StoreIs
  <2>7. Len(cache') <= MaxCacheSize
    <3>1. Len(cache') \in Nat
      BY <2>6, LenProperties
    <3> QED BY <1>1, <2>3, <2>6, <3>1
  <2>8. Replaced(cache', cache, u, n)
    BY <2>4, <2>6 DEF Replaced, Among
  <2> QED BY <2>6, <2>7, <2>8 DEF CacheOK
<1>3. CASE ~(Len(cache) >= MaxCacheSize)
  <2>1. StoreAfter(cache, expired, u, n)
    BY <1>3 DEF UpdateCache
  <2>2. /\ cache' \in Seq(Entries) /\ OnePerUser(cache')
        /\ expired' \in 0..Len(cache') /\ Len(cache') <= Len(cache) + 1
        /\ Replaced(cache', cache, u, n)
    BY <1>1, <2>1, StoreIs
  <2>3. Len(cache') <= MaxCacheSize
    <3>1. Len(cache') \in Nat
      BY <2>2, LenProperties
    <3> QED BY <1>1, <1>3, <2>2, <3>1
  <2> QED BY <2>2, <2>3 DEF CacheOK
<1> QED BY <1>2, <1>3

\* Only entries that were in the cache stay there.
LEMMA CleanupIs ==
  ASSUME CacheOK, CleanupExpiredEntries
  PROVE  CacheOK' /\ Among(cache', cache)
<1>1. /\ cache \in Seq(Entries) /\ OnePerUser(cache) /\ Len(cache) \in Nat /\ expired \in 0..Len(cache)
      /\ expired + 1 \in Nat \ {0}
  BY LenProperties DEF CacheOK
<1>2. cache' = Slice(cache, expired + 1) /\ expired' = 0
  BY DEF CleanupExpiredEntries, Slice
<1>3. /\ cache' \in Seq(Entries) /\ OnePerUser(cache') /\ Among(cache', cache)
      /\ Len(cache') = IF expired + 1 <= Len(cache) THEN Len(cache) - (expired + 1) + 1 ELSE 0
  BY <1>1, <1>2, SliceIs
<1>4. MaxCacheSize \in Nat /\ Len(cache) <= MaxCacheSize
  BY UserServiceAssumption DEF CacheOK
<1> QED BY <1>1, <1>2, <1>3, <1>4 DEF CacheOK

\* The rows that are there from before: one of each user who is gone.
LEMMA SetToSeqIs ==
  ASSUME NEW S, IsFiniteSet(S)
  PROVE  SetToSeq(S) \in Seq(S) /\ IsInjective(SetToSeq(S)) /\ ToSet(SetToSeq(S)) = S
<1> DEFINE n == Cardinality(S)
           s == SetToSeq(S)
<1>1. n \in Nat /\ ExistsBijection(1..n, S)
  BY FS_CardinalityType
<1>2. \E f \in [1..n -> S] : IsInjective(f)
  <2>1. PICK f \in Bijection(1..n, S) : TRUE
    BY <1>1 DEF ExistsBijection
  <2>2. f \in [1..n -> S] /\ IsInjective(f)
    BY <2>1 DEF Bijection, Injection
  <2> QED BY <2>2
<1>3. s \in [1..n -> S] /\ IsInjective(s)
  BY <1>2 DEF SetToSeq
<1> HIDE DEF s
<1>4. s \in Injection(1..n, S)
  BY <1>3 DEF IsInjective, Injection
<1>5. IsFiniteSet(1..n) /\ Cardinality(1..n) = n
  BY <1>1, FS_Interval
<1>6. s \in Surjection(1..n, S)
  BY <1>4, <1>5, FS_Injection
<1>7. ToSet(s) = S
  <2>1. \A x \in S : \E i \in 1..n : s[i] = x
    BY <1>6 DEF Surjection
  <2> QED BY <1>3, <2>1 DEF ToSet
<1>8. s \in Seq(S)
  BY <1>1, <1>3, SeqDef
<1> QED BY <1>3, <1>7, <1>8 DEF s
-----------------------------------------------------------------------------
(***************************************************************************)
(* The shape of the state.                                                 *)
(***************************************************************************)

\* The rows are one per user and in order, and the name of each user without one says so.
RowsOK ==
    /\ order \in Seq(Users) /\ IsInjective(order) /\ stale \in 0..Len(order)
    /\ \A u \in Users : u \in Rows <=> username[u] # NoName

\* The types of the calls, ...
CallRecords == [at : Places, user : Users \cup {"nobody"}, name : 0..NoName]

\* A call under way is for a user, and has a name for it once it is past Discord or the row.
Named(c) ==
    /\ c.at # "idle" => c.user \in Users
    /\ c.at \in {"cacheRow", "upsert", "cacheNew"} => c.name # NoName

CallsOK == calls \in [Processes -> CallRecords] /\ \A p \in Processes : Named(calls[p])

\* ... of the job, ...
JobOK == todo \in Seq(Users) /\ refreshing \in BOOLEAN

\* ... and of the history.
HistoryOK == overlapped \subseteq Users /\ unreported \subseteq Users

\* The shape of the whole state.
Typed == Columns /\ RowsOK /\ CacheOK /\ CallsOK /\ JobOK /\ HistoryOK

\* The types of the parts are those of the whole.
LEMMA TypedIsTypeOK == Typed => TypeOK /\ CacheBounded
  BY DEF Typed, TypeOK, CacheBounded, Columns, RowsOK, CacheOK, OnePerUser, Entries,
         CallsOK, CallRecords, JobOK, HistoryOK

\* They hold initially.
LEMMA InitTyped == Init => Typed
<1> SUFFICES ASSUME Init PROVE Typed
  OBVIOUS
<1>1. Columns
  BY InitIInv DEF IInv
<1>2. /\ IsFiniteSet(Gone) /\ Gone \subseteq Users /\ MaxRenames \in Nat /\ MaxCacheSize \in Nat
      /\ order = SetToSeq(Gone) /\ stale = 0 /\ cache = <<>> /\ expired = 0 /\ todo = <<>>
      /\ \A u \in Users : username[u] = IF u \in Gone THEN 0 ELSE NoName
  BY UserServiceAssumption DEF Init
<1>3. RowsOK
  <2>1. order \in Seq(Gone) /\ IsInjective(order) /\ Rows = Gone
    BY <1>2, SetToSeqIs DEF Rows
  <2>2. order \in Seq(Users)
    <3>1. Len(order) \in Nat /\ order \in [1..Len(order) -> Gone]
      BY <2>1, LenProperties, SeqDef
    <3>2. order \in [1..Len(order) -> Users]
      BY <1>2, <3>1
    <3> QED BY <3>1, <3>2, SeqDef
  <2>3. stale \in 0..Len(order)
    BY <1>2, <2>2, LenProperties
  <2>4. NoName # 0
    BY <1>2 DEF NoName
  <2> QED BY <1>2, <2>1, <2>2, <2>3, <2>4 DEF RowsOK
<1>4. CacheOK
  <2>1. cache \in Seq(Entries) /\ Len(cache) = 0 /\ DOMAIN cache = {}
    BY <1>2, EmptySeq
  <2> QED BY <1>2, <2>1 DEF CacheOK, OnePerUser
<1>5. CallsOK
  <2>1. Idle \in CallRecords /\ Named(Idle)
    BY <1>2 DEF Idle, CallRecords, Named, Places, NoName
  <2>2. calls = [p \in Processes |-> Idle]
    BY DEF Init
  <2> QED BY <2>1, <2>2 DEF CallsOK
<1>6. JobOK /\ HistoryOK
  BY <1>2, EmptySeq DEF Init, JobOK, HistoryOK
<1> QED BY <1>1, <1>3, <1>4, <1>5, <1>6 DEF Typed
-----------------------------------------------------------------------------
\* A step of a process leaves its call in order.
LEMMA CallsStayOK ==
  ASSUME CallsOK, NEW p \in Processes, NEW c \in CallRecords, Named(c), calls' = [calls EXCEPT ![p] = c]
  PROVE  CallsOK'
<1>1. calls' \in [Processes -> CallRecords]
  BY DEF CallsOK
<1>2. \A q \in Processes : calls'[q] = IF q = p THEN c ELSE calls[q]
  BY DEF CallsOK
<1> QED BY <1>1, <1>2 DEF CallsOK

\* Return leaves it so, ...
LEMMA ReturnOK ==
  ASSUME CallsOK, NEW p \in Processes, Return(p)
  PROVE  CallsOK'
<1>1. Idle \in CallRecords /\ Named(Idle)
  BY UserServiceAssumption DEF Idle, CallRecords, Named, Places, NoName
<1> QED BY <1>1, CallsStayOK DEF Return

\* Goto leaves it so if the call has what its new place asks for, ...
LEMMA GotoOK ==
  ASSUME CallsOK, NEW p \in Processes, NEW place \in Places, Goto(p, place), calls[p].at # "idle",
         place \in {"cacheRow", "upsert", "cacheNew"} => calls[p].name # NoName
  PROVE  CallsOK'
<1> DEFINE c == [at |-> place, user |-> calls[p].user, name |-> calls[p].name]
<1>1. calls[p] \in CallRecords /\ calls[p].user \in Users
  BY DEF CallsOK, Named
<1>2. c \in CallRecords /\ [calls[p] EXCEPT !.at = place] = c
  BY <1>1 DEF CallRecords
<1>3. Named(c)
  BY <1>1 DEF Named
<1> HIDE DEF c
<1>4. calls' = [calls EXCEPT ![p] = c]
  BY <1>2 DEF Goto
<1> QED BY <1>2, <1>3, <1>4, CallsStayOK

\* ... and so does a new call, ...
LEMMA SetOK ==
  ASSUME CallsOK, NEW p \in Processes, NEW u \in Users, NEW n \in 0..NoName, NEW place \in Places,
         calls' = [calls EXCEPT ![p] = [at |-> place, user |-> u, name |-> n]],
         n # NoName \/ place \in {"read", "fetch"}
  PROVE  CallsOK'
<1> DEFINE c == [at |-> place, user |-> u, name |-> n]
<1>1. c \in CallRecords
  BY DEF CallRecords
<1>2. Named(c)
  BY DEF Named
<1>3. calls' = [calls EXCEPT ![p] = c]
  OBVIOUS
<1> HIDE DEF c
<1> QED BY <1>1, <1>2, <1>3, CallsStayOK

\* ... and a call that takes a name.
LEMMA TakeOK ==
  ASSUME CallsOK, HistoryOK, NEW p \in Processes, NEW n \in 0..NoName, n # NoName,
         NEW place \in Places, Take(p, n, place), calls[p].at # "idle"
  PROVE  CallsOK' /\ HistoryOK'
<1>1. calls[p].user \in Users
  BY DEF CallsOK, Named
<1>2. calls' = [calls EXCEPT ![p] = [at |-> place, user |-> calls[p].user, name |-> n]]
  BY DEF Take
<1>3. CallsOK'
  BY <1>1, <1>2, SetOK
<1>4. HistoryOK'
  BY <1>1 DEF HistoryOK, Take
<1> QED BY <1>3, <1>4

\* After an upsert the user has a row, and a name in it.
LEMMA UpsertRowsOK ==
  ASSUME RowsOK, username \in [Users -> 0..NoName], NEW u \in Users, NEW n, n # NoName, UpsertUser(u, n)
  PROVE  RowsOK'
<1>1. /\ order' \in Seq(Users) /\ IsInjective(order') /\ stale' \in 0..Len(order')
      /\ ToSet(order') = Rows \cup {u}
  BY TouchIs DEF RowsOK, UpsertUser
<1>2. \A v \in Users : username'[v] = IF v = u THEN n ELSE username[v]
  BY DEF UpsertUser
<1>3. Rows' = Rows \cup {u} /\ NoName' = NoName
  BY <1>1 DEF Rows, NoName
<1> QED BY <1>1, <1>2, <1>3 DEF RowsOK

\* Recording the activity of a user makes no row.
LEMMA ActivityRowsOK ==
  ASSUME RowsOK, NEW u \in Users, NEW post, UpdateUserLastMessage(u, post)
  PROVE  RowsOK'
<1>1. username' = username /\ NoName' = NoName
  BY DEF UpdateUserLastMessage, NoName
<1>2. CASE u \in Rows
  <2>1. Touch(u)
    BY <1>2 DEF UpdateUserLastMessage
  <2>2. /\ order' \in Seq(Users) /\ IsInjective(order') /\ stale' \in 0..Len(order')
        /\ ToSet(order') = Rows \cup {u}
    BY <2>1, TouchIs DEF RowsOK
  <2>3. Rows' = Rows
    BY <1>2, <2>2 DEF Rows
  <2> QED BY <1>1, <2>2, <2>3 DEF RowsOK
<1>3. CASE u \notin Rows
  BY <1>1, <1>3 DEF UpdateUserLastMessage, RowsOK, Rows
<1> QED BY <1>2, <1>3

\* Variables that keep their values keep their types: the rows, ...
LEMMA RowsStay == RowsOK /\ UNCHANGED rowVars => RowsOK'
  BY DEF RowsOK, rowVars, Rows, NoName

\* ... the cache, ...
LEMMA CacheStays == CacheOK /\ UNCHANGED cacheVars => CacheOK'
  BY DEF CacheOK, cacheVars

\* ... and the rest.
LEMMA RestStays ==
  /\ CallsOK /\ UNCHANGED calls => CallsOK'
  /\ JobOK /\ UNCHANGED jobVars => JobOK'
  /\ HistoryOK /\ UNCHANGED historyVars => HistoryOK'
  BY DEF CallsOK, CallRecords, NoName, JobOK, jobVars, HistoryOK, historyVars

\* The steps of a process.
LEMMA ProcessTyped ==
  ASSUME IInv, Typed, NEW p \in Processes, Step(p) \/ GetUser(p)
  PROVE  RowsOK' /\ CacheOK' /\ CallsOK' /\ JobOK' /\ HistoryOK'
<1>0. /\ Columns /\ RowsOK /\ CacheOK /\ CallsOK /\ JobOK /\ HistoryOK
      /\ calls[p] \in CallRecords /\ Named(calls[p])
      /\ MaxRenames \in Nat /\ 0..MaxRenames = 0..NoName \ {NoName} /\ NoName \in 0..NoName
      /\ {"read", "fetch", "upsert", "cacheRow", "cacheNew"} \subseteq Places
  BY UserServiceAssumption DEF Typed, CallsOK, NoName, Places
<1>1. calls[p].at # "idle" => calls[p].user \in Users
  BY <1>0 DEF Named
<1>2. calls[p].at \in {"cacheRow", "upsert", "cacheNew"} => calls[p].name \in 0..MaxRenames
  BY <1>0 DEF Named, CallRecords
<1>3. CASE GetUser(p)
  <2>1. PICK u \in Users : calls' = [calls EXCEPT ![p] = [at |-> "read", user |-> u, name |-> NoName]]
    BY <1>3 DEF GetUser
  <2>2. CallsOK'
    BY <1>0, <2>1, SetOK
  <2> QED BY <1>0, <1>3, <2>2, RowsStay, CacheStays, RestStays DEF GetUser
<1>4. CASE ReadRow(p)
  <2>1. /\ calls[p].at = "read" /\ UNCHANGED <<rowVars, cacheVars, jobVars>>
        /\ \/ calls[p].user \in Rows /\ Take(p, username[calls[p].user], "cacheRow")
           \/ Goto(p, "fetch") /\ UNCHANGED historyVars
    BY <1>4 DEF ReadRow
  <2>2. CASE calls[p].user \in Rows /\ Take(p, username[calls[p].user], "cacheRow")
    <3>1. username[calls[p].user] \in 0..NoName /\ username[calls[p].user] # NoName
      BY <1>0, <1>1, <2>1, <2>2 DEF Columns, RowsOK
    <3>2. CallsOK' /\ HistoryOK'
      BY <1>0, <2>1, <2>2, <3>1, TakeOK
    <3> QED BY <1>0, <2>1, <3>2, RowsStay, CacheStays, RestStays
  <2>3. CASE Goto(p, "fetch") /\ UNCHANGED historyVars
    <3>1. CallsOK'
      BY <1>0, <2>1, <2>3, GotoOK
    <3> QED BY <1>0, <2>1, <2>3, <3>1, RowsStay, CacheStays, RestStays
  <2> QED BY <2>1, <2>2, <2>3
<1>5. CASE Fetch(p)
  <2>1. /\ calls[p].at = "fetch" /\ Take(p, name[calls[p].user], "upsert")
        /\ UNCHANGED <<rowVars, cacheVars, jobVars>>
    BY <1>5 DEF Fetch
  <2>2. name[calls[p].user] \in 0..NoName /\ name[calls[p].user] # NoName
    <3>1. name[calls[p].user] \in 0..MaxRenames
      BY <1>0, <1>1, <2>1 DEF Columns
    <3> QED BY <1>0, <3>1
  <2>3. CallsOK' /\ HistoryOK'
    BY <1>0, <2>1, <2>2, TakeOK
  <2> QED BY <1>0, <2>1, <2>3, RowsStay, CacheStays, RestStays
<1>6. ASSUME calls[p].at = "upsert", UpsertUser(calls[p].user, calls[p].name) PROVE RowsOK'
  BY <1>0, <1>1, <1>6, UpsertRowsOK DEF Named, Columns
<1>7. CASE Upsert(p)
  <2>1. CallsOK'
    BY <1>0, <1>7, GotoOK DEF Upsert, Named
  <2> QED BY <1>0, <1>6, <1>7, <2>1, CacheStays, RestStays DEF Upsert
<1>8. CASE Fail(p)
  <2>1. CallsOK' /\ CacheOK' /\ JobOK'
    BY <1>0, <1>8, ReturnOK, CacheStays, RestStays DEF Fail
  <2>2. RowsOK' /\ HistoryOK'
    BY <1>0, <1>1, <1>6, <1>8, RowsStay DEF Fail, HistoryOK
  <2> QED BY <2>1, <2>2
<1>9. CASE WriteCache(p)
  <2>1. CallsOK' /\ RowsOK' /\ JobOK' /\ HistoryOK'
    BY <1>0, <1>9, ReturnOK, RowsStay, RestStays DEF WriteCache
  <2>2. CacheOK'
    BY <1>0, <1>1, <1>2, <1>9, UpdateCacheIs DEF WriteCache
  <2> QED BY <2>1, <2>2
<1> QED BY <1>3, <1>4, <1>5, <1>7, <1>8, <1>9 DEF Step

\* The first rows, in their order.
LEMMA RefreshedOK ==
  ASSUME RowsOK
  PROVE  GetUsersNeedingRefresh \in Seq(Users)
<1> DEFINE n == IF stale < RefreshLimit THEN stale ELSE RefreshLimit
<1>1. Len(order) \in Nat /\ \A i \in 1..Len(order) : order[i] \in Users
  BY LenProperties, ElementOfSeq DEF RowsOK
<1>2. n \in 0..Len(order) /\ 1 \in Int
  BY <1>1, UserServiceAssumption DEF RowsOK
<1>3. \A i \in 1..n : order[i] \in Users
  BY <1>1, <1>2
<1>4. SubSeq(order, 1, n) \in Seq(Users)
  <2> HIDE DEF n
  <2> QED BY <1>2, <1>3, SubSeqProperties DEF RowsOK
<1> QED BY <1>4 DEF GetUsersNeedingRefresh

\* All the others.
LEMMA OtherTyped ==
  ASSUME IInv, Typed, [Next]_vars, ~(\E p \in Processes : Step(p)), ~(\E p \in Callers : GetUser(p))
  PROVE  RowsOK' /\ CacheOK' /\ CallsOK' /\ JobOK' /\ HistoryOK'
<1>0. /\ Columns /\ RowsOK /\ CacheOK /\ CallsOK /\ JobOK /\ HistoryOK
      /\ "job" \in Processes /\ NoName \in 0..NoName
      /\ {"read", "fetch", "upsert", "cacheRow", "cacheNew"} \subseteq Places
  BY UserServiceAssumption DEF Typed, Processes, NoName, Places
<1>1. CASE UNCHANGED vars
  BY <1>0, <1>1, RowsStay, CacheStays, RestStays DEF vars
<1>2. CASE RefreshStaleUsers
  <2>1. JobOK'
    BY <1>0, <1>2, RefreshedOK, EmptySeq DEF RefreshStaleUsers, JobOK
  <2> QED BY <1>0, <1>2, <2>1, RowsStay, CacheStays, RestStays DEF RefreshStaleUsers
<1>3. CASE RefreshNext
  <2>1. Head(todo) \in Users /\ Tail(todo) \in Seq(Users)
    BY <1>0, <1>3, HeadTailProperties DEF RefreshNext, JobOK
  <2>2. CallsOK'
    BY <1>0, <1>3, <2>1, SetOK DEF RefreshNext
  <2> QED BY <1>0, <1>3, <2>1, <2>2, RowsStay, CacheStays, RestStays DEF RefreshNext, JobOK
<1>4. CASE CleanupUserCache
  <2>1. CacheOK'
    BY <1>0, <1>4, CleanupIs DEF CleanupUserCache
  <2> QED BY <1>0, <1>4, <2>1, RowsStay, RestStays DEF CleanupUserCache, JobOK
<1>5. ASSUME NEW a \in activities, RecordUserActivity(a)
      PROVE  RowsOK' /\ CacheOK' /\ CallsOK' /\ JobOK' /\ HistoryOK'
  <2>1. a.user \in Users
    BY <1>0 DEF Columns
  <2>2. RowsOK'
    BY <1>0, <1>5, <2>1, ActivityRowsOK, RowsStay DEF RecordUserActivity
  <2> QED BY <1>0, <1>5, <2>2, CacheStays, RestStays DEF RecordUserActivity
<1>6. ASSUME NEW u \in Known, MessageCreate(u) \/ Rename(u)
      PROVE  RowsOK' /\ CacheOK' /\ CallsOK' /\ JobOK' /\ HistoryOK'
  BY <1>0, <1>6, RowsStay, CacheStays, RestStays DEF MessageCreate, Rename
<1>7. CASE AgeRow
  <2>1. RowsOK'
    <3>1. Len(order) \in Nat
      BY <1>0, LenProperties DEF RowsOK
    <3> QED BY <1>0, <1>7, <3>1 DEF AgeRow, RowsOK, Rows, NoName
  <2> QED BY <1>0, <1>7, <2>1, CacheStays, RestStays DEF AgeRow
<1>8. CASE AgeEntry
  <2>1. CacheOK'
    <3>1. Len(cache) \in Nat
      BY <1>0, LenProperties DEF CacheOK
    <3> QED BY <1>0, <1>8, <3>1 DEF AgeEntry, CacheOK
  <2> QED BY <1>0, <1>8, <2>1, RowsStay, RestStays DEF AgeEntry
<1> QED BY <1>1, <1>2, <1>3, <1>4, <1>5, <1>6, <1>7, <1>8 DEF Next

\* Every step keeps the types.
LEMMA StepTyped == IInv /\ Typed /\ [Next]_vars => Typed'
<1> SUFFICES ASSUME IInv, Typed, [Next]_vars PROVE Typed'
  OBVIOUS
<1>1. IInv'
  BY StepIInv
<1>2. Callers \subseteq Processes
  BY DEF Processes
<1>3. RowsOK' /\ CacheOK' /\ CallsOK' /\ JobOK' /\ HistoryOK'
  BY <1>2, ProcessTyped, OtherTyped
<1> QED BY <1>1, <1>3 DEF IInv, Typed

\* They hold in every behaviour.
LEMMA TypedHolds == Spec => []Typed
  BY InitTyped, StepTyped, IInvHolds, PTL DEF Spec
-----------------------------------------------------------------------------
(***************************************************************************)
(* The cache and the table agree on names.                                 *)
(***************************************************************************)

\* A call that is about to cache the name of a user has the one in the row, ...
Backed(u) ==
    \A p \in Processes :
        calls[p].user = u /\ calls[p].at \in {"cacheRow", "cacheNew"} => calls[p].name = username[u]

\* ... and the entry of the user has it too, if no call is about to replace the entry.
Followed(u) ==
    \/ \E p \in Processes : calls[p].user = u /\ calls[p].at = "cacheNew"
    \/ \A i \in DOMAIN cache : cache[i].user = u => cache[i].name = username[u]

\* The agreement of every user without a history.
Agreed == \A u \in Users \ (overlapped \cup unreported) : Backed(u) /\ Followed(u)

\* A step that leaves the row of a user alone, and of the cache what was there.
LEMMA AgreedStays ==
  ASSUME Agreed, username' = username, Among(cache', cache),
         overlapped \subseteq overlapped', unreported \subseteq unreported',
         \A p \in Processes :
             \/ calls'[p] = calls[p]
             \/ /\ calls[p].at # "cacheNew"
                /\ \/ calls'[p].at \notin {"cacheRow", "cacheNew"}
                   \/ /\ calls'[p].at = "cacheRow"
                      /\ calls'[p].name = username[calls'[p].user]
  PROVE  Agreed'
<1> SUFFICES ASSUME NEW u \in Users \ (overlapped' \cup unreported') PROVE Backed(u)' /\ Followed(u)'
  BY DEF Agreed
<1>1. Backed(u) /\ Followed(u)
  BY DEF Agreed
<1>2. Backed(u)'
  BY <1>1 DEF Backed
<1>3. CASE \E p \in Processes : calls[p].user = u /\ calls[p].at = "cacheNew"
  BY <1>2, <1>3 DEF Followed
<1>4. CASE \A i \in DOMAIN cache : cache[i].user = u => cache[i].name = username[u]
  BY <1>2, <1>4 DEF Followed, Among
<1> QED BY <1>1, <1>3, <1>4 DEF Followed

\* The row of a user is written: either the call goes on to cache the name, or it does not
\* know of the write.
LEMMA AgreedUpsert ==
  ASSUME IInv, Agreed, NEW p \in Processes, calls[p].at = "upsert",
         calls[p].user \in Users, username \in [Users -> 0..NoName],
         UpsertUser(calls[p].user, calls[p].name),
         UNCHANGED <<cache, overlapped>>, unreported \subseteq unreported',
         \A q \in Processes \ {p} : calls'[q] = calls[q],
         \/ /\ calls'[p].at = "cacheNew" /\ calls'[p].user = calls[p].user
            /\ calls'[p].name = calls[p].name
         \/ calls'[p].at = "idle" /\ calls[p].user \in unreported'
  PROVE  Agreed'
<1> DEFINE v == calls[p].user
<1> SUFFICES ASSUME NEW u \in Users \ (overlapped' \cup unreported') PROVE Backed(u)' /\ Followed(u)'
  BY DEF Agreed
<1>1. Backed(u) /\ Followed(u) /\ u \in Users \ overlapped
  BY DEF Agreed
<1>2. \A w \in Users : username'[w] = IF w = v THEN calls[p].name ELSE username[w]
  BY DEF UpsertUser
<1>3. CASE u = v
  <2>1. calls'[p].at = "cacheNew" /\ calls'[p].user = u /\ calls'[p].name = username'[u]
    BY <1>2, <1>3
  <2>2. ASSUME NEW q \in Processes \ {p}, calls'[q].user = u, calls'[q].at \in {"cacheRow", "cacheNew"}
        PROVE  FALSE
    <3>1. Holds(q, u) /\ Holds(p, u)
      BY <1>3, <2>2 DEF Holds
    <3> QED BY <1>1, <2>2, <3>1 DEF IInv, Alone
  <2> QED BY <2>1, <2>2 DEF Backed, Followed
<1>4. CASE u # v
  <2>1. username'[u] = username[u]
    BY <1>2, <1>4
  <2>2. Backed(u)'
    BY <1>1, <1>4, <2>1 DEF Backed
  <2>3. Followed(u)'
    BY <1>1, <1>4, <2>1 DEF Followed
  <2> QED BY <2>2, <2>3
<1> QED BY <1>3, <1>4

\* A name is cached.
LEMMA AgreedWrite ==
  ASSUME Agreed, NEW p \in Processes, calls[p].at \in {"cacheRow", "cacheNew"},
         calls[p].user \in Users, Replaced(cache', cache, calls[p].user, calls[p].name),
         UNCHANGED <<username, overlapped, unreported>>,
         calls'[p].at = "idle", \A q \in Processes \ {p} : calls'[q] = calls[q]
  PROVE  Agreed'
<1> SUFFICES ASSUME NEW u \in Users \ (overlapped' \cup unreported') PROVE Backed(u)' /\ Followed(u)'
  BY DEF Agreed
<1>1. Backed(u) /\ Followed(u)
  BY DEF Agreed
<1>2. Backed(u)'
  BY <1>1 DEF Backed
<1>3. CASE u = calls[p].user
  <2>1. calls[p].name = username[u]
    BY <1>1, <1>3 DEF Backed
  <2> QED BY <1>2, <1>3, <2>1 DEF Followed, Replaced
<1>4. CASE u # calls[p].user
  <2>1. CASE \E q \in Processes : calls[q].user = u /\ calls[q].at = "cacheNew"
    BY <1>2, <1>4, <2>1 DEF Followed
  <2>2. CASE \A i \in DOMAIN cache : cache[i].user = u => cache[i].name = username[u]
    BY <1>2, <1>4, <2>2 DEF Followed, Replaced
  <2> QED BY <1>1, <2>1, <2>2 DEF Followed
<1> QED BY <1>3, <1>4

\* The steps of a process.
LEMMA ProcessAgreed ==
  ASSUME IInv, Typed, Agreed, NEW p \in Processes, Step(p) \/ GetUser(p)
  PROVE  Agreed'
<1> USE DEF discordVars, rowVars, cacheVars, jobVars, historyVars
<1>0. /\ CallsAreCalls /\ username \in [Users -> 0..NoName] /\ CacheOK
      /\ calls[p].at # "idle" => calls[p].user \in Users
      /\ calls[p].at \in {"cacheRow", "upsert", "cacheNew"} => calls[p].name \in 0..MaxRenames
      /\ Among(cache, cache)
  BY UserServiceAssumption DEF IInv, Typed, Columns, CallsOK, CallRecords, Named, NoName, Among
<1>1. ASSUME Return(p)
      PROVE  calls'[p].at = "idle" /\ \A q \in Processes \ {p} : calls'[q] = calls[q]
  BY <1>0, <1>1, ReturnIs
<1>2. ASSUME NEW n, NEW place, Take(p, n, place)
      PROVE  /\ calls'[p].at = place /\ calls'[p].user = calls[p].user /\ calls'[p].name = n
             /\ \A q \in Processes \ {p} : calls'[q] = calls[q]
             /\ overlapped \subseteq overlapped' /\ unreported' = unreported
  <2> DEFINE c == [at |-> place, user |-> calls[p].user, name |-> n]
  <2>1. /\ calls' = [calls EXCEPT ![p] = c]
        /\ overlapped \subseteq overlapped' /\ unreported' = unreported
    BY <1>2 DEF Take
  <2>2. IsCall(c) /\ c.at = place /\ c.user = calls[p].user /\ c.name = n
    BY DEF IsCall
  <2> HIDE DEF c
  <2> QED BY <1>0, <2>1, <2>2, OtherCalls
<1>3. CASE GetUser(p)
  <2>1. PICK u \in Users : calls' = [calls EXCEPT ![p] = [at |-> "read", user |-> u, name |-> NoName]]
    BY <1>3 DEF GetUser
  <2>2. calls'[p].at = "read" /\ calls[p].at = "idle" /\ \A q \in Processes \ {p} : calls'[q] = calls[q]
    <3> DEFINE c == [at |-> "read", user |-> u, name |-> NoName]
    <3>1. IsCall(c) /\ c.at = "read"
      BY DEF IsCall
    <3> HIDE DEF c
    <3>2. calls' = [calls EXCEPT ![p] = c]
      BY <2>1 DEF c
    <3> QED BY <1>0, <1>3, <3>1, <3>2, OtherCalls DEF GetUser
  <2>3. UNCHANGED <<username, cache, overlapped, unreported>>
    BY <1>3 DEF GetUser
  <2> QED BY <1>0, <2>2, <2>3, AgreedStays
<1>4. CASE ReadRow(p)
  <2>1. /\ calls[p].at = "read" /\ UNCHANGED <<username, cache>>
        /\ \/ Take(p, username[calls[p].user], "cacheRow")
           \/ Goto(p, "fetch") /\ UNCHANGED historyVars
    BY <1>4 DEF ReadRow
  <2>2. CASE Take(p, username[calls[p].user], "cacheRow")
    <3>1. /\ calls'[p].at = "cacheRow" /\ calls'[p].name = username[calls'[p].user]
          /\ \A q \in Processes \ {p} : calls'[q] = calls[q]
          /\ overlapped \subseteq overlapped' /\ unreported' = unreported
      BY <1>2, <2>2
    <3> QED BY <1>0, <2>1, <3>1, AgreedStays
  <2>3. CASE Goto(p, "fetch") /\ UNCHANGED historyVars
    <3>1. calls'[p].at = "fetch" /\ \A q \in Processes \ {p} : calls'[q] = calls[q]
      BY <1>0, <2>3, GotoIs
    <3> QED BY <1>0, <2>1, <2>3, <3>1, AgreedStays
  <2> QED BY <2>1, <2>2, <2>3
<1>5. CASE Fetch(p)
  <2>1. calls[p].at = "fetch" /\ UNCHANGED <<username, cache>> /\ Take(p, name[calls[p].user], "upsert")
    BY <1>5 DEF Fetch
  <2>2. /\ calls'[p].at = "upsert" /\ \A q \in Processes \ {p} : calls'[q] = calls[q]
        /\ overlapped \subseteq overlapped' /\ unreported' = unreported
    BY <1>2, <2>1
  <2> QED BY <1>0, <2>1, <2>2, AgreedStays
<1>6. CASE Upsert(p)
  <2>1. /\ calls[p].at = "upsert" /\ UpsertUser(calls[p].user, calls[p].name) /\ Goto(p, "cacheNew")
        /\ UNCHANGED <<cache, overlapped, unreported>>
    BY <1>6 DEF Upsert
  <2>2. /\ calls'[p].at = "cacheNew" /\ calls'[p].user = calls[p].user
        /\ \A q \in Processes \ {p} : calls'[q] = calls[q]
    BY <1>0, <2>1, GotoIs
  <2>3. calls'[p].name = calls[p].name
    BY <1>0, <2>1 DEF Goto, CallsAreCalls
  <2> QED BY <1>0, <2>1, <2>2, <2>3, AgreedUpsert
<1>7. CASE Fail(p)
  <2>1. /\ calls[p].at \in {"fetch", "upsert"} /\ Return(p) /\ UNCHANGED <<cache, overlapped>>
        /\ \/ UNCHANGED <<username, unreported>>
           \/ /\ calls[p].at = "upsert" /\ UpsertUser(calls[p].user, calls[p].name)
              /\ unreported' = unreported \cup {calls[p].user}
    BY <1>7 DEF Fail
  <2>2. calls'[p].at = "idle" /\ \A q \in Processes \ {p} : calls'[q] = calls[q]
    BY <1>1, <2>1
  <2>3. CASE UNCHANGED <<username, unreported>>
    BY <1>0, <2>1, <2>2, <2>3, AgreedStays
  <2>4. CASE /\ calls[p].at = "upsert" /\ UpsertUser(calls[p].user, calls[p].name)
             /\ unreported' = unreported \cup {calls[p].user}
    <3>1. calls[p].user \in unreported' /\ unreported \subseteq unreported'
      BY <2>4
    <3> QED BY <1>0, <2>1, <2>2, <2>4, <3>1, AgreedUpsert
  <2> QED BY <2>1, <2>3, <2>4
<1>8. CASE WriteCache(p)
  <2>1. /\ calls[p].at \in {"cacheRow", "cacheNew"} /\ UpdateCache(calls[p].user, calls[p].name)
        /\ Return(p) /\ UNCHANGED <<username, overlapped, unreported>>
    BY <1>8 DEF WriteCache
  <2>2. Replaced(cache', cache, calls[p].user, calls[p].name)
    BY <1>0, <2>1, UpdateCacheIs
  <2>3. calls'[p].at = "idle" /\ \A q \in Processes \ {p} : calls'[q] = calls[q]
    BY <1>1, <2>1
  <2> QED BY <1>0, <2>1, <2>2, <2>3, AgreedWrite
<1> QED BY <1>3, <1>4, <1>5, <1>6, <1>7, <1>8 DEF Step

\* All the others: they write no name, neither to the table nor into the cache.
LEMMA OtherAgreed ==
  ASSUME IInv, Typed, Agreed, [Next]_vars, ~(\E p \in Processes : Step(p)), ~(\E p \in Callers : GetUser(p))
  PROVE  Agreed'
<1> USE DEF discordVars, rowVars, cacheVars, jobVars, historyVars
<1>1. username' = username
  BY OtherStep
<1>2. UNCHANGED <<overlapped, unreported>> /\ (Among(cache', cache) \/ CleanupUserCache)
  BY DEF Next, vars, Among, RefreshStaleUsers, RefreshNext, CleanupUserCache, RecordUserActivity,
         MessageCreate, Rename, AgeRow, AgeEntry
<1>3. Among(cache', cache)
  BY <1>2, CleanupIs DEF CleanupUserCache, Typed
<1>4. UNCHANGED calls \/ RefreshNext
  BY DEF Next, vars, RefreshStaleUsers, CleanupUserCache, RecordUserActivity,
         MessageCreate, Rename, AgeRow, AgeEntry
<1>5. CASE RefreshNext
  <2> DEFINE c == [at |-> "fetch", user |-> Head(todo), name |-> NoName]
  <2>1. calls["job"].at = "idle" /\ calls' = [calls EXCEPT !["job"] = c] /\ "job" \in Processes
    BY <1>5 DEF RefreshNext, Processes
  <2>2. IsCall(c) /\ c.at = "fetch"
    BY DEF IsCall
  <2> HIDE DEF c
  <2>3. calls'["job"].at = "fetch" /\ \A q \in Processes \ {"job"} : calls'[q] = calls[q]
    BY <2>1, <2>2, OtherCalls DEF IInv
  <2> QED BY <1>1, <1>2, <1>3, <2>1, <2>3, AgreedStays
<1> QED BY <1>1, <1>2, <1>3, <1>4, <1>5, AgreedStays

\* Initially the cache is empty, and no call has a name.
LEMMA InitAgreed == Init => Agreed
<1> SUFFICES ASSUME Init PROVE Agreed
  OBVIOUS
<1>1. \A p \in Processes : calls[p].at = "idle"
  BY DEF Init, Idle
<1>2. DOMAIN cache = {}
  BY EmptySeq DEF Init
<1> QED BY <1>1, <1>2 DEF Agreed, Backed, Followed

\* The agreement holds in every behaviour: it needs the types, and that no two calls have
\* a name for a user at a time.
LEMMA AgreedHolds == Spec => []Agreed
<1>1. IInv /\ Typed /\ Agreed /\ [Next]_vars => Agreed'
  <2> SUFFICES ASSUME IInv, Typed, Agreed, [Next]_vars PROVE Agreed'
    OBVIOUS
  <2>1. Callers \subseteq Processes
    BY DEF Processes
  <2> QED BY <2>1, ProcessAgreed, OtherAgreed
<1> QED BY <1>1, InitAgreed, IInvHolds, TypedHolds, PTL DEF Spec

\* The state keeps its types: in particular there is one row for each user who has a name
\* in the table, and no place of a sequence is ever left empty (UpsertUser, updateCache).
THEOREM TypeCorrect == Spec => []TypeOK
  BY TypedHolds, TypedIsTypeOK, PTL

\* The cache never holds more than maxCacheSize entries, and never two of a user, however
\* calls interleave (updateCache, evictOldestEntry).
THEOREM CacheStaysBounded == Spec => []CacheBounded
  BY TypedHolds, TypedIsTypeOK, PTL

\* The cache has the name of the row for every user, except between the upsert and the
\* write to the cache, after calls overlapped for the user, or after an upsert took effect
\* and returned an error (GetUser, fetchAndUpdateUser).
THEOREM CacheAgrees == Spec => []CacheFollowsRow
<1>1. Typed /\ Agreed => CacheFollowsRow
  <2> SUFFICES ASSUME Typed, Agreed, NEW i \in DOMAIN cache
               PROVE  LET u == cache[i].user
                      IN  \/ cache[i].name = username[u]
                          \/ \E p \in Processes : calls[p].user = u /\ calls[p].at = "cacheNew"
                          \/ u \in overlapped \cup unreported
    BY DEF CacheFollowsRow
  <2>1. cache[i].user \in Users
    <3>1. cache \in Seq(Entries) /\ i \in 1..Len(cache)
      BY LenProperties DEF Typed, CacheOK
    <3>2. cache[i] \in Entries
      BY <3>1, ElementOfSeq
    <3> QED BY <3>2 DEF Entries
  <2> QED BY <2>1 DEF Agreed, Followed
<1> QED BY <1>1, TypedHolds, AgreedHolds, PTL
=============================================================================
