----------------------- MODULE MessagePipelineProofs -----------------------
(***************************************************************************)
(* Theorems about MessagePipeline for any deliveries, batch size, limit of *)
(* inserters and threshold of the breaker.                                 *)
(*                                                                         *)
(* The inductive invariant has three parts beside the types: LockInv, who  *)
(* holds bufferLock where in flushLocked while Stop is how far; Owned, a   *)
(* buffered message is in one place at most; and Counted, the counters     *)
(* agree with the goroutines.  Counted needs Owned, since two inserters    *)
(* with the same batch would be one element of the set, and the types of   *)
(* the counters need Counted, since they are also counted down.            *)
(*                                                                         *)
(* Above it, BreakerExplained: what the breaker's counters say when it is  *)
(* shared by all the inserters, whose number Counted bounds, and by the    *)
(* flusher, which asks it and reports nothing.                             *)
(***************************************************************************)
EXTENDS MessagePipeline, FiniteSetTheorems, TLAPS

LockInv ==
    /\ lock = "free" <=> flushAt = "idle"
    /\ batch = {} <=> flushAt = "idle"
    /\ lock = "stop" => stop = "closed" /\ flushAt = "shutdown"
    /\ stop \notin {"no", "closed"} => flushAt \in {"idle", "shutdown"}

Held == buffer \cup batch

Owned ==
    /\ buffer \cap batch = {}
    /\ \A m \in Held : handler[m] = "buffered"
    /\ \A i \in inserts : /\ i.batch # {}
                          /\ i.batch \cap Held = {}
                          /\ \A m \in i.batch : handler[m] = "buffered"
    /\ \A i, j \in inserts : i # j => i.batch \cap j.batch = {}

Counted ==
    /\ IsFiniteSet(inserts)
    /\ GoroutinesTracked
    /\ flushAt = "spawn" => activeInserts < MaxGoroutines

IInv == TypeOK /\ LockInv /\ Owned /\ Counted

\* The invariant holds initially.
LEMMA InitIInv == Init => IInv
<1> SUFFICES ASSUME Init PROVE IInv
  OBVIOUS
<1>1. TypeOK
  <2>1. BreakerTypeOK
    BY DEF Init, BreakerInit, BreakerTypeOK
  <2> QED BY <2>1
          DEF Init, TypeOK, Metrics, FlushAt, StopAt, TimerAt
<1>2. LockInv /\ Owned
  BY DEF Init, LockInv, Owned, Held
<1>3. IsFiniteSet({}) /\ Cardinality({}) = 0
  BY FS_EmptySet
<1>4. Counted
  BY <1>3, PipelineAssumption
  DEF Init, Counted, GoroutinesTracked, SlotsCounted, WaitGroupCounted, LimitKept, At
<1> QED BY <1>1, <1>2, <1>4 DEF IInv
-----------------------------------------------------------------------------
\* Whoever holds the lock is not the name of another holder.
LEMMA HoldersApart == \A m \in Msgs : m \notin {"free", "timer", "stop"}
  BY PipelineAssumption

\* Every step keeps what is said of the lock.
LEMMA StepLock == IInv /\ [Next]_vars => LockInv'
<1> SUFFICES ASSUME TypeOK, LockInv, [Next]_vars PROVE LockInv'
  BY DEF IInv
<1> USE HoldersApart DEF LockInv, TypeOK, Alive, ShuttingDown
<1>1. ASSUME NEW m \in Msgs, Refuse(m) \/ Accept(m) PROVE LockInv'
  BY <1>1 DEF Refuse, Accept, flushVars
<1>2. ASSUME NEW m \in Msgs, AppendMessage(m) PROVE LockInv'
  BY <1>2 DEF AppendMessage, AppendWhen, Cut, flushVars
<1>3. CASE Flush
  <2>1. CASE CheckShutdown
    BY <1>3, <2>1 DEF CheckShutdown, DropBatch, GoOn, Unlock
  <2>2. CASE CheckBreaker
    BY <2>2 DEF CheckBreaker, GoOn
  <2>3. CASE CheckTimeout
    BY <2>3 DEF CheckTimeout, DropBatch, GoOn, Unlock
  <2>4. CASE CheckLimit
    BY <2>4 DEF CheckLimit, CheckLimitWhen, DropBatch, GoOn, Unlock
  <2>5. CASE Spawn
    BY <2>5 DEF Spawn, Unlock
  <2> QED BY <1>3, <2>1, <2>2, <2>3, <2>4, <2>5 DEF Flush
<1>4. CASE TimerFires \/ TimerFlushes \/ Rearm
  BY <1>4 DEF TimerFires, TimerFlushes, Rearm, RearmAs, Cut, flushVars
<1>5. ASSUME NEW i \in inserts, InsertStep(i) PROVE LockInv'
  BY <1>5 DEF InsertStep, flushVars
<1>6. CASE RefreshStep
  BY <1>6 DEF RefreshStep, flushVars
<1>7. CASE StopStep
  <2>1. CASE StopFlushes
    BY <2>1 DEF StopFlushes, Cut, flushVars
  <2>2. CASE CloseShutdownCh \/ Exit \/ (StopProceeds /\ ~StopFlushes)
    BY <2>2 DEF CloseShutdownCh, StopProceeds, StopTimer, CloseSession, WaiterSignals,
                SelectDone, SelectTimeout, ClosePool, Exit, flushVars
  <2> QED BY <1>7, <2>1, <2>2 DEF StopStep
<1>8. CASE ResetTimeoutElapses
  BY <1>8 DEF ResetTimeoutElapses, flushVars
<1>9. CASE Exited \/ UNCHANGED vars
  BY <1>9 DEF Exited, vars
<1> QED BY <1>1, <1>2, <1>3, <1>4, <1>5, <1>6, <1>7, <1>8, <1>9 DEF Next
-----------------------------------------------------------------------------
\* A step of an inserter moves it to another place, or ends it.
LEMMA InsertMoves ==
  ASSUME TypeOK, NEW i \in inserts, InsertStep(i)
  PROVE  \/ \E place \in InserterAt :
              /\ Move(i, place)
              /\ wg' = wg
              /\ \/ i.at # "exiting" /\ place # "exiting" /\ activeInserts' = activeInserts
                 \/ i.at = "done" /\ place = "exiting" /\ activeInserts' = activeInserts - 1
         \/ /\ i.at = "exiting"
            /\ inserts' = inserts \ {i}
            /\ wg' = wg - 1
            /\ activeInserts' = activeInserts
<1>1. CASE InsertReadsBreaker(i)
  BY <1>1 DEF InsertReadsBreaker, InserterAt
<1>2. CASE InsertTestsTimeout(i)
  BY <1>2 DEF InsertTestsTimeout, TestTimeoutReleasing, InserterAt, TypeOK
<1>3. CASE Begin(i)
  BY <1>3 DEF Begin, InserterAt
<1>4. CASE InsertMessages(i)
  BY <1>4 DEF InsertMessages, InserterAt
<1>5. CASE Commit(i)
  BY <1>5 DEF Commit, InserterAt
<1>6. CASE CommitFails(i)
  BY <1>6 DEF CommitFails, InserterAt
<1>7. CASE CountProcessed(i)
  BY <1>7 DEF CountProcessed, InserterAt
<1>8. CASE RecordResult(i)
  BY <1>8 DEF RecordResult, InserterAt
<1>9. CASE ReleaseSlot(i)
  BY <1>9 DEF ReleaseSlot, InserterAt
<1>10. CASE InsertExits(i)
  BY <1>10 DEF InsertExits
<1> QED BY <1>1, <1>2, <1>3, <1>4, <1>5, <1>6, <1>7, <1>8, <1>9, <1>10 DEF InsertStep

\* The moved inserter is a new element of the set: no other has its batch.
LEMMA MovedApart ==
  ASSUME TypeOK, Owned, NEW i \in inserts, NEW place \in InserterAt
  PROVE  /\ [i EXCEPT !.at = place] \in [batch : SUBSET Msgs, at : InserterAt]
         /\ [i EXCEPT !.at = place].batch = i.batch
         /\ [i EXCEPT !.at = place].at = place
         /\ [i EXCEPT !.at = place] \notin inserts \ {i}
<1>1. i \in [batch : SUBSET Msgs, at : InserterAt]
  BY DEF TypeOK
<1>2. /\ [i EXCEPT !.at = place] \in [batch : SUBSET Msgs, at : InserterAt]
      /\ [i EXCEPT !.at = place].batch = i.batch
      /\ [i EXCEPT !.at = place].at = place
  BY <1>1
<1>3. ASSUME NEW j \in inserts \ {i} PROVE [i EXCEPT !.at = place] # j
  <2>1. i.batch # {} /\ i.batch \cap j.batch = {}
    BY <1>3 DEF Owned
  <2> QED BY <1>2, <2>1
<1> QED BY <1>2, <1>3

\* Every step keeps batches non-empty and disjoint.
LEMMA StepOwned == IInv /\ [Next]_vars => Owned'
<1> SUFFICES ASSUME IInv, [Next]_vars PROVE Owned'
  OBVIOUS
<1> USE DEF IInv
<1>1. ASSUME NEW m \in Msgs, Refuse(m) \/ Accept(m) PROVE Owned'
  BY <1>1 DEF Refuse, Accept, flushVars, trackVars, Owned, Held, TypeOK
<1>2. ASSUME NEW m \in Msgs, AppendMessage(m) PROVE Owned'
  <2>1. /\ handler[m] = "waiting" /\ handler' = [handler EXCEPT ![m] = "buffered"]
        /\ inserts' = inserts /\ batch = {}
        /\ \/ batch' = buffer \cup {m} /\ buffer' = {}
           \/ buffer' = buffer \cup {m} /\ batch' = batch
    BY <1>2 DEF AppendMessage, AppendWhen, Cut, flushVars, trackVars, LockInv
  <2>2. Held' = buffer \cup {m} /\ buffer' \cap batch' = {}
    BY <2>1 DEF Held
  <2>3. \A i \in inserts : m \notin i.batch
    BY <2>1 DEF Owned
  <2>4. \A k \in Msgs : handler[k] = "buffered" => handler'[k] = "buffered"
    BY <2>1 DEF TypeOK
  <2>5. Held \subseteq Msgs /\ Held = buffer /\ \A i \in inserts : i.batch \subseteq Msgs
    BY <2>1 DEF TypeOK, Held
  <2>6. \A k \in Held' : handler'[k] = "buffered"
    BY <2>1, <2>2, <2>4, <2>5 DEF Owned, TypeOK
  <2>7. \A i \in inserts : i.batch \cap Held' = {} /\ \A k \in i.batch : handler'[k] = "buffered"
    BY <2>2, <2>3, <2>4, <2>5 DEF Owned
  <2> QED BY <2>1, <2>2, <2>6, <2>7 DEF Owned
<1>3. CASE Flush
  <2>1. CASE Spawn
    <3>1. /\ inserts' = inserts \cup {[batch |-> batch, at |-> "entered"]}
          /\ batch # {} /\ batch' = {} /\ buffer' = buffer /\ handler' = handler
      BY <2>1 DEF Spawn, Unlock, queueVars, LockInv
    <3> DEFINE new == [batch |-> batch, at |-> "entered"]
    <3>2. new.batch = batch
      OBVIOUS
    <3> HIDE DEF new
    <3> QED BY <3>1, <3>2 DEF Owned, Held, new
  <2>2. CASE ~Spawn
    <3>1. /\ inserts' = inserts /\ buffer' = buffer /\ handler' = handler
          /\ batch' \in {batch, {}}
      BY <1>3, <2>2 DEF Flush, CheckShutdown, CheckBreaker, CheckTimeout, CheckLimit,
                        CheckLimitWhen, DropBatch, GoOn, Unlock, queueVars, trackVars
    <3> QED BY <3>1 DEF Owned, Held
  <2> QED BY <2>1, <2>2
<1>4. CASE TimerFires \/ TimerFlushes \/ Rearm \/ StopStep
  <2>1. /\ handler' = handler /\ inserts' = inserts
        /\ \/ buffer' = buffer /\ batch' = batch
           \/ lock = "free" /\ batch' = buffer /\ buffer' = {}
    BY <1>4 DEF TimerFires, TimerFlushes, Rearm, RearmAs, Cut, queueVars, flushVars, trackVars,
                StopStep, CloseShutdownCh, StopProceeds, StopFlushes, StopTimer, CloseSession,
                WaiterSignals, SelectDone, SelectTimeout, ClosePool, Exit
  <2>2. lock = "free" => batch = {}
    BY DEF LockInv
  <2> QED BY <2>1, <2>2 DEF Owned, Held
<1>5. ASSUME NEW i \in inserts, InsertStep(i) PROVE Owned'
  <2>1. handler' = handler /\ buffer' = buffer /\ batch' = batch
    BY <1>5 DEF InsertStep, queueVars, flushVars
  <2>2. CASE inserts' = inserts \ {i}
    BY <2>1, <2>2 DEF Owned, Held
  <2>3. ASSUME NEW place \in InserterAt, Move(i, place) PROVE Owned'
    <3> DEFINE moved == [i EXCEPT !.at = place]
    <3>1. moved.batch = i.batch /\ inserts' = (inserts \ {i}) \cup {moved}
      BY <2>3, MovedApart DEF Move
    <3> HIDE DEF moved
    <3> QED BY <2>1, <3>1 DEF Owned, Held
  <2> QED BY <1>5, <2>2, <2>3, InsertMoves
<1>6. CASE RefreshStep \/ ResetTimeoutElapses \/ Exited \/ UNCHANGED vars
  BY <1>6 DEF RefreshStep, ResetTimeoutElapses, Exited, vars, queueVars, flushVars, trackVars,
              Owned, Held
<1> QED BY <1>1, <1>2, <1>3, <1>4, <1>5, <1>6 DEF Next
-----------------------------------------------------------------------------
\* A set keeps its size when an element of it is replaced by another.
LEMMA Replaced ==
  ASSUME NEW S, IsFiniteSet(S), NEW x \in S, NEW y, y \notin S \ {x}
  PROVE  /\ IsFiniteSet((S \ {x}) \cup {y})
         /\ Cardinality((S \ {x}) \cup {y}) = Cardinality(S)
<1> DEFINE rest == S \ {x}
<1>1. IsFiniteSet(rest) /\ Cardinality(rest) = Cardinality(S) - 1
  BY FS_RemoveElement
<1>2. Cardinality(S) \in Nat /\ y \notin rest
  BY FS_CardinalityType
<1> HIDE DEF rest
<1>3. IsFiniteSet(rest \cup {y}) /\ Cardinality(rest \cup {y}) = Cardinality(rest) + 1
  BY <1>1, <1>2, FS_AddElement
<1>4. Cardinality(rest \cup {y}) = Cardinality(S)
  BY <1>1, <1>2, <1>3
<1> QED BY <1>3, <1>4 DEF rest

\* The counters, in terms of the set of inserters.
LEMMA StepCounted == IInv /\ [Next]_vars => Counted'
<1> SUFFICES ASSUME IInv, [Next]_vars PROVE Counted'
  OBVIOUS
<1> USE DEF IInv
<1> DEFINE Live(S) == {i \in S : i.at # "exiting"}
           Job(r) == IF r = "exited" THEN 0 ELSE 1
<1>a. /\ IsFiniteSet(inserts) /\ activeInserts = Cardinality(Live(inserts))
      /\ wg = Cardinality(inserts) + Job(refresh) /\ activeInserts <= MaxGoroutines
      /\ flushAt = "spawn" => activeInserts < MaxGoroutines
  <2>1. inserts \ At({"exiting"}) = Live(inserts)
    BY DEF At
  <2> QED BY <2>1 DEF Counted, GoroutinesTracked, SlotsCounted, WaitGroupCounted, LimitKept
<1>b. ASSUME /\ IsFiniteSet(inserts') /\ activeInserts' = Cardinality(Live(inserts'))
             /\ wg' = Cardinality(inserts') + Job(refresh') /\ activeInserts' <= MaxGoroutines
             /\ flushAt' = "spawn" => activeInserts' < MaxGoroutines
      PROVE  Counted'
  <2>1. (inserts \ At({"exiting"}))' = Live(inserts')
    BY DEF At
  <2> QED BY <1>b, <2>1
          DEF Counted, GoroutinesTracked, SlotsCounted, WaitGroupCounted, LimitKept
<1>c. IsFiniteSet(Live(inserts)) /\ Cardinality(Live(inserts)) \in Nat /\ Cardinality(inserts) \in Nat
  BY <1>a, FS_Subset, FS_CardinalityType
<1>d. MaxGoroutines \in Nat
  BY PipelineAssumption
<1>1. ASSUME NEW m \in Msgs, Refuse(m) \/ Accept(m) PROVE Counted'
  BY <1>1, <1>a, <1>b DEF Refuse, Accept, flushVars, trackVars
<1>2. ASSUME NEW m \in Msgs, AppendMessage(m) PROVE Counted'
  BY <1>2, <1>a, <1>b DEF AppendMessage, AppendWhen, Cut, flushVars, trackVars
<1>3. CASE Flush
  <2>1. CASE Spawn
    <3> DEFINE new == [batch |-> batch, at |-> "entered"]
    <3>1. /\ inserts' = inserts \cup {new} /\ activeInserts' = activeInserts + 1
          /\ wg' = wg + 1 /\ refresh' = refresh /\ flushAt = "spawn" /\ flushAt' = "idle"
      BY <2>1 DEF Spawn, Unlock
    <3>2. new.batch = batch /\ new.at = "entered"
      OBVIOUS
    <3>3. new \notin inserts
      <4>1. batch # {}
        BY <3>1 DEF LockInv
      <4> QED BY <3>2, <4>1 DEF Owned, Held
    <3> HIDE DEF new
    <3>4. Live(inserts') = Live(inserts) \cup {new} /\ new \notin Live(inserts)
      BY <3>1, <3>2, <3>3
    <3>5. IsFiniteSet(inserts') /\ Cardinality(inserts') = Cardinality(inserts) + 1
      BY <1>a, <3>1, <3>3, FS_AddElement
    <3>6. Cardinality(Live(inserts')) = Cardinality(Live(inserts)) + 1
      BY <1>c, <3>4, FS_AddElement
    <3>7. wg' = Cardinality(inserts') + Job(refresh')
      BY <1>a, <1>c, <3>1, <3>5
    <3>8. activeInserts' <= MaxGoroutines
      BY <1>a, <1>c, <1>d, <3>1
    <3> QED BY <1>a, <1>b, <3>1, <3>5, <3>6, <3>7, <3>8
  <2>2. CASE ~Spawn
    <3>1. /\ inserts' = inserts /\ activeInserts' = activeInserts /\ wg' = wg
          /\ refresh' = refresh
          /\ flushAt' = "spawn" => activeInserts < MaxGoroutines
      BY <1>3, <2>2, <1>a, <1>c, <1>d
      DEF Flush, CheckShutdown, CheckBreaker, CheckTimeout, CheckLimit,
          CheckLimitWhen, DropBatch, GoOn, Unlock, trackVars
    <3> QED BY <3>1, <1>a, <1>b
  <2> QED BY <2>1, <2>2
<1>4. CASE TimerFires \/ TimerFlushes \/ Rearm \/ StopStep
  <2>1. /\ inserts' = inserts /\ activeInserts' = activeInserts /\ wg' = wg
        /\ refresh' = refresh /\ (flushAt' = flushAt \/ flushAt' = "shutdown")
    BY <1>4 DEF TimerFires, TimerFlushes, Rearm, RearmAs, Cut, flushVars, trackVars,
                StopStep, CloseShutdownCh, StopProceeds, StopFlushes, StopTimer, CloseSession,
                WaiterSignals, SelectDone, SelectTimeout, ClosePool, Exit
  <2> QED BY <2>1, <1>a, <1>b
<1>5. ASSUME NEW i \in inserts, InsertStep(i) PROVE Counted'
  <2>1. refresh' = refresh /\ flushAt' = flushAt
    BY <1>5 DEF InsertStep, flushVars
  <2>2. CASE /\ i.at = "exiting" /\ inserts' = inserts \ {i}
             /\ wg' = wg - 1 /\ activeInserts' = activeInserts
    <3>1. IsFiniteSet(inserts') /\ Cardinality(inserts') = Cardinality(inserts) - 1
      BY <1>a, <2>2, FS_RemoveElement
    <3>2. Live(inserts') = Live(inserts)
      BY <2>2
    <3>3. wg' = Cardinality(inserts') + Job(refresh')
      BY <1>a, <1>c, <2>1, <2>2, <3>1
    <3> QED BY <1>a, <1>b, <2>1, <2>2, <3>1, <3>2, <3>3
  <2>3. ASSUME NEW place \in InserterAt, Move(i, place), wg' = wg,
               \/ i.at # "exiting" /\ place # "exiting" /\ activeInserts' = activeInserts
               \/ i.at = "done" /\ place = "exiting" /\ activeInserts' = activeInserts - 1
        PROVE  Counted'
    <3> DEFINE moved == [i EXCEPT !.at = place]
    <3>1. /\ inserts' = (inserts \ {i}) \cup {moved}
          /\ moved.at = place /\ moved \notin inserts \ {i}
      BY <2>3, MovedApart DEF Move
    <3> HIDE DEF moved
    <3>3. IsFiniteSet(inserts') /\ Cardinality(inserts') = Cardinality(inserts)
      BY <1>a, <3>1, Replaced
    <3>4. i \in Live(inserts)
      BY <2>3
    <3>5. /\ IsFiniteSet(Live(inserts) \ {i})
          /\ Cardinality(Live(inserts) \ {i}) = Cardinality(Live(inserts)) - 1
      BY <1>c, <3>4, FS_RemoveElement
    <3>6. activeInserts' = Cardinality(Live(inserts'))
      <4>1. CASE place # "exiting"
        <5>1. Live(inserts') = (Live(inserts) \ {i}) \cup {moved} /\ moved \notin Live(inserts) \ {i}
          BY <3>1, <4>1
        <5>2. Cardinality(Live(inserts')) = Cardinality(Live(inserts))
          <6> HIDE DEF Live
          <6> QED BY <1>c, <3>4, <5>1, Replaced
        <5> QED BY <1>a, <2>3, <4>1, <5>2
      <4>2. CASE place = "exiting"
        <5>1. Live(inserts') = Live(inserts) \ {i}
          BY <3>1, <4>2
        <5> QED BY <1>a, <2>3, <3>5, <4>2, <5>1
      <4> QED BY <4>1, <4>2
    <3>7. activeInserts' <= activeInserts
      BY <1>a, <1>c, <2>3
    <3>8. activeInserts' \in Int /\ activeInserts \in Int
      BY <1>a, <1>c, <2>3
    <3>9. activeInserts' <= MaxGoroutines /\ (flushAt' = "spawn" => activeInserts' < MaxGoroutines)
      BY <1>a, <1>d, <2>1, <3>7, <3>8
    <3> QED BY <1>a, <1>b, <2>1, <2>3, <3>3, <3>6, <3>9
  <2> QED BY <1>5, <2>2, <2>3, InsertMoves
<1>6. CASE RefreshStep
  <2>1. inserts' = inserts /\ activeInserts' = activeInserts /\ flushAt' = flushAt
    BY <1>6 DEF RefreshStep, flushVars
  <2>2. \/ wg' = wg /\ Job(refresh') = Job(refresh)
        \/ wg' = wg - 1 /\ Job(refresh) = 1 /\ Job(refresh') = 0
    BY <1>6 DEF RefreshStep, RefreshTick, RefreshQueries, RefreshAnswered, RefreshDone, RefreshExits
  <2>3. wg' = Cardinality(inserts') + Job(refresh')
    BY <1>a, <1>c, <2>1, <2>2
  <2> QED BY <1>a, <1>b, <2>1, <2>3
<1>7. CASE ResetTimeoutElapses \/ Exited \/ UNCHANGED vars
  BY <1>7, <1>a, <1>b DEF ResetTimeoutElapses, Exited, vars, flushVars, trackVars
<1> QED BY <1>1, <1>2, <1>3, <1>4, <1>5, <1>6, <1>7 DEF Next
-----------------------------------------------------------------------------
\* The message counters only grow, by the size of a batch at most.
LEMMA StepMetrics == IInv /\ [Next]_vars => metrics' \in Metrics
<1> SUFFICES ASSUME IInv, [Next]_vars PROVE metrics' \in Metrics
  OBVIOUS
<1>0. metrics \in Metrics
  BY DEF IInv, TypeOK
<1>c. ASSUME NEW n \in Nat, NEW counter \in {"received", "dropped", "processed"},
             Count(counter, n)
      PROVE  metrics' \in Metrics
  BY <1>0, <1>c DEF Count, Metrics
<1>s. ASSUME NEW B \in SUBSET Msgs PROVE Cardinality(B) \in Nat
  BY PipelineAssumption, FS_Subset, FS_CardinalityType
<1>d. Cardinality(batch) \in Nat
  BY <1>s DEF IInv, TypeOK
<1>1. ASSUME NEW m \in Msgs, Refuse(m) PROVE metrics' \in Metrics
  <2>1. PICK limited \in {0, 1} :
          metrics' = [metrics EXCEPT !.received = @ + 1, !.rateLimited = @ + limited]
    BY <1>1 DEF Refuse
  <2>2. metrics.received + 1 \in Nat /\ metrics.rateLimited + limited \in Nat
    BY <1>0 DEF Metrics
  <2> QED BY <1>0, <2>1, <2>2 DEF Metrics
<1>2. ASSUME NEW m \in Msgs, Accept(m) PROVE metrics' \in Metrics
  BY <1>2, <1>c DEF Accept
<1>3. ASSUME NEW m \in Msgs, AppendMessage(m) PROVE metrics' \in Metrics
  BY <1>0, <1>3 DEF AppendMessage, AppendWhen
<1>4. CASE Flush
  <2>1. metrics' = metrics \/ Count("dropped", Cardinality(batch))
    BY <1>4 DEF Flush, CheckShutdown, CheckBreaker, CheckTimeout, CheckLimit, CheckLimitWhen,
                Spawn, DropBatch, GoOn
  <2> QED BY <1>0, <1>c, <1>d, <2>1
<1>5. ASSUME NEW i \in inserts, InsertStep(i) PROVE metrics' \in Metrics
  <2>1. metrics' = metrics \/ Count("processed", Cardinality(i.batch))
    BY <1>5 DEF InsertStep, InsertReadsBreaker, InsertTestsTimeout, TestTimeoutReleasing, Begin,
                InsertMessages, Commit, CommitFails, CountProcessed, RecordResult,
                ReleaseSlot, InsertExits
  <2>2. Cardinality(i.batch) \in Nat
    BY <1>s DEF IInv, TypeOK
  <2> QED BY <1>0, <1>c, <2>1, <2>2
<1>6. CASE \/ TimerFires \/ TimerFlushes \/ Rearm \/ RefreshStep \/ StopStep
           \/ ResetTimeoutElapses \/ Exited \/ UNCHANGED vars
  BY <1>0, <1>6 DEF TimerFires, TimerFlushes, Rearm, RearmAs, RefreshStep, StopStep,
                    ResetTimeoutElapses, Exited, vars
<1> QED BY <1>1, <1>2, <1>3, <1>4, <1>5, <1>6 DEF Next

\* The critical sections of the breaker, and time passing, keep it well typed.
LEMMA BreakerSectionsType ==
  ASSUME BreakerTypeOK,
         TransitionToHalfOpen \/ RecordFailure \/ RecordSuccess \/ Cool \/ UNCHANGED breakerVars
  PROVE  BreakerTypeOK'
<1> USE MaxFailuresAssumption DEF BreakerTypeOK, breakerVars
<1>1. CASE TransitionToHalfOpen \/ Cool \/ UNCHANGED breakerVars
  <2>1. CASE TransitionToHalfOpen
    BY <2>1 DEF TransitionToHalfOpen, TransitionWith
  <2>2. CASE Cool
    BY <2>2 DEF Cool
  <2>3. CASE UNCHANGED breakerVars
    BY <2>3
  <2> QED BY <1>1, <2>1, <2>2, <2>3
<1>2. CASE RecordFailure
  <2>1. state' \in {"Closed", "Open", "HalfOpen"} /\ failures' \in Nat
    BY <1>2 DEF RecordFailure, FailureWith
  <2>2. halfOpenSuccess' \in Nat /\ cooled' \in BOOLEAN
    BY <1>2 DEF RecordFailure, FailureWith
  <2> QED BY <2>1, <2>2
<1>3. CASE RecordSuccess
  <2>1. HalfOpenMax \in Nat
    BY DEF HalfOpenMax
  <2> QED BY <1>3, <2>1 DEF RecordSuccess, SuccessWith
<1> QED BY <1>1, <1>2, <1>3

\* Every step keeps the types of the breaker.
LEMMA StepBreaker == IInv /\ [Next]_vars => BreakerTypeOK'
<1> SUFFICES ASSUME IInv, [Next]_vars PROVE BreakerTypeOK'
  OBVIOUS
<1>0. BreakerTypeOK
  BY DEF IInv, TypeOK
<1>1. ASSUME NEW i \in inserts, InsertStep(i) PROVE BreakerTypeOK'
  <2>1. TransitionToHalfOpen \/ RecordFailure \/ RecordSuccess \/ UNCHANGED breakerVars
    BY <1>1 DEF InsertStep, InsertReadsBreaker, InsertTestsTimeout, TestTimeoutReleasing, Begin,
                InsertMessages, Commit, CommitFails, CountProcessed, RecordResult,
                ReleaseSlot, InsertExits
  <2> QED BY <1>0, <2>1, BreakerSectionsType
<1>2. CASE Flush
  <2>1. TransitionToHalfOpen \/ UNCHANGED breakerVars
    BY <1>2 DEF Flush, CheckShutdown, CheckBreaker, CheckTimeout, CheckLimit, CheckLimitWhen,
                Spawn
  <2> QED BY <1>0, <2>1, BreakerSectionsType
<1>3. CASE ~Flush /\ ~(\E i \in inserts : InsertStep(i))
  <2>1. Cool \/ UNCHANGED breakerVars
    BY <1>3 DEF Next, Refuse, Accept, AppendMessage, AppendWhen, TimerFires, TimerFlushes, Rearm,
                RearmAs, RefreshStep, StopStep, ResetTimeoutElapses, Exited, vars, breakerVars
  <2> QED BY <1>0, <2>1, BreakerSectionsType
<1> QED BY <1>1, <1>2, <1>3

\* Every step keeps the type of the inserters.
LEMMA StepInserts == IInv /\ [Next]_vars => inserts' \in SUBSET [batch : SUBSET Msgs, at : InserterAt]
<1> SUFFICES ASSUME IInv, [Next]_vars
             PROVE  inserts' \subseteq [batch : SUBSET Msgs, at : InserterAt]
  OBVIOUS
<1>0. inserts \subseteq [batch : SUBSET Msgs, at : InserterAt] /\ batch \subseteq Msgs
  BY DEF IInv, TypeOK
<1>1. ASSUME NEW i \in inserts, InsertStep(i)
      PROVE  inserts' \subseteq [batch : SUBSET Msgs, at : InserterAt]
  <2>1. inserts' = inserts \ {i} \/ \E place \in InserterAt : Move(i, place)
    BY <1>1, InsertMoves DEF IInv
  <2>2. ASSUME NEW place \in InserterAt, Move(i, place)
        PROVE  inserts' \subseteq [batch : SUBSET Msgs, at : InserterAt]
    BY <1>0, <2>2, MovedApart DEF Move, IInv
  <2> QED BY <1>0, <2>1, <2>2
<1>2. CASE Spawn
  <2>1. inserts' = inserts \cup {[batch |-> batch, at |-> "entered"]}
    BY <1>2 DEF Spawn
  <2> QED BY <1>0, <2>1 DEF InserterAt
<1>3. CASE ~Spawn /\ ~(\E i \in inserts : InsertStep(i))
  <2>1. inserts' = inserts
    BY <1>3 DEF Next, Refuse, Accept, AppendMessage, AppendWhen, Flush, CheckShutdown,
                CheckBreaker, CheckTimeout, CheckLimit, CheckLimitWhen, DropBatch, GoOn,
                TimerFires, TimerFlushes, Rearm, RearmAs, RefreshStep, StopStep,
                ResetTimeoutElapses, Exited, vars, trackVars
  <2> QED BY <1>0, <2>1
<1> QED BY <1>1, <1>2, <1>3

\* Every step keeps the types.
LEMMA StepTypeOK == IInv /\ [Next]_vars => TypeOK'
<1> SUFFICES ASSUME IInv, [Next]_vars PROVE TypeOK'
  OBVIOUS
<1>1. BreakerTypeOK' /\ metrics' \in Metrics
      /\ inserts' \in SUBSET [batch : SUBSET Msgs, at : InserterAt]
  BY StepBreaker, StepMetrics, StepInserts
<1>2. activeInserts' \in Nat /\ wg' \in Nat
  <2>1. IsFiniteSet(inserts') /\ activeInserts' = Cardinality((inserts \ At({"exiting"}))')
        /\ wg' = Cardinality(inserts') + (IF refresh' = "exited" THEN 0 ELSE 1)
    BY StepCounted DEF Counted, GoroutinesTracked, SlotsCounted, WaitGroupCounted
  <2>2. IsFiniteSet((inserts \ At({"exiting"}))')
    BY <2>1, FS_Subset
  <2>3. Cardinality(inserts') \in Nat /\ Cardinality((inserts \ At({"exiting"}))') \in Nat
    BY <2>1, <2>2, FS_CardinalityType
  <2> QED BY <2>1, <2>3
<1>3. handler' \in [Msgs -> {"none", "refused", "waiting", "buffered"}]
  BY DEF IInv, TypeOK, Next, Refuse, Accept, AppendMessage, AppendWhen, Flush, CheckShutdown,
         CheckBreaker, CheckTimeout, CheckLimit, CheckLimitWhen, Spawn, TimerFires, TimerFlushes,
         Rearm, RearmAs, InsertStep, RefreshStep, StopStep, ResetTimeoutElapses, Exited, vars,
         queueVars
<1>4. buffer' \in SUBSET Msgs /\ batch' \in SUBSET Msgs
  BY DEF IInv, TypeOK, Next, Refuse, Accept, AppendMessage, AppendWhen, Flush, CheckShutdown,
         CheckBreaker, CheckTimeout, CheckLimit, CheckLimitWhen, Spawn, DropBatch, GoOn, Unlock,
         Cut, TimerFires, TimerFlushes, Rearm, RearmAs, InsertStep, RefreshStep, StopStep,
         CloseShutdownCh, StopProceeds, StopFlushes, StopTimer, CloseSession, WaiterSignals,
         SelectDone, SelectTimeout, ClosePool, Exit, ResetTimeoutElapses, Exited, vars,
         queueVars, flushVars
<1>5. lock' \in Msgs \cup {"free", "timer", "stop"} /\ flushAt' \in FlushAt
  BY DEF IInv, TypeOK, FlushAt, Next, Refuse, Accept, AppendMessage, AppendWhen, Flush,
         CheckShutdown, CheckBreaker, CheckTimeout, CheckLimit, CheckLimitWhen, Spawn, DropBatch,
         GoOn, Unlock, Cut, TimerFires, TimerFlushes, Rearm, RearmAs, InsertStep, RefreshStep,
         StopStep, CloseShutdownCh, StopProceeds, StopFlushes, StopTimer, CloseSession,
         WaiterSignals, SelectDone, SelectTimeout, ClosePool, Exit, ResetTimeoutElapses, Exited,
         vars, flushVars
<1>6. refresh' \in {"idle", "busy", "querying", "exited"}
  BY DEF IInv, TypeOK, Next, Refuse, Accept, AppendMessage, AppendWhen, Flush, CheckShutdown,
         CheckBreaker, CheckTimeout, CheckLimit, CheckLimitWhen, Spawn, TimerFires, TimerFlushes,
         Rearm, RearmAs, InsertStep, RefreshStep, RefreshTick, RefreshQueries, RefreshAnswered, RefreshDone, RefreshExits,
         StopStep, ResetTimeoutElapses, Exited, vars
<1>7. timer' \in TimerAt /\ stop' \in StopAt
  <2>1. CASE StopStep
    <3>1. CASE StopTimer
      BY <3>1 DEF StopTimer, IInv, TypeOK, TimerAt, StopAt
    <3>2. CASE ~StopTimer
      BY <2>1, <3>2 DEF StopStep, CloseShutdownCh, StopProceeds, StopFlushes, CloseSession,
                        WaiterSignals, SelectDone, SelectTimeout, ClosePool, Exit,
                        IInv, TypeOK, StopAt
    <3> QED BY <3>1, <3>2
  <2>2. CASE Flush
    BY <2>2 DEF Flush, CheckShutdown, CheckBreaker, CheckTimeout, CheckLimit, CheckLimitWhen,
                Spawn, DropBatch, GoOn, Unlock, IInv, TypeOK, TimerAt, StopAt
  <2>3. CASE ~StopStep /\ ~Flush
    BY <2>3 DEF IInv, TypeOK, TimerAt, StopAt, Next, Refuse, Accept, AppendMessage, AppendWhen,
                TimerFires, TimerFlushes, Rearm, RearmAs, InsertStep, RefreshStep,
                ResetTimeoutElapses, Exited, vars
  <2> QED BY <2>1, <2>2, <2>3
<1>8. stored' \in SUBSET Msgs /\ failed' \in SUBSET Msgs
  BY DEF IInv, TypeOK, Next, Refuse, Accept, AppendMessage, AppendWhen, Flush, CheckShutdown,
         CheckBreaker, CheckTimeout, CheckLimit, CheckLimitWhen, Spawn, TimerFires, TimerFlushes,
         Rearm, RearmAs, InsertStep, InsertReadsBreaker, InsertTestsTimeout,
         TestTimeoutReleasing, Begin, InsertMessages, Commit, CommitFails, CountProcessed,
         RecordResult, ReleaseSlot, InsertExits, RefreshStep, StopStep, ResetTimeoutElapses,
         Exited, vars
<1> QED BY <1>1, <1>2, <1>3, <1>4, <1>5, <1>6, <1>7, <1>8 DEF TypeOK

\* The invariant holds in every behaviour.
LEMMA IInvHolds == Spec => []IInv
<1>1. IInv /\ [Next]_vars => IInv'
  BY StepTypeOK, StepLock, StepOwned, StepCounted DEF IInv
<1> QED BY InitIInv, <1>1, PTL DEF Spec

\* Type correctness of the pipeline; that activeInserts and the WaitGroup never go
\* below zero is part of it.
THEOREM TypeCorrect == Spec => []TypeOK
<1>1. IInv => TypeOK
  BY DEF IInv
<1> QED BY <1>1, IInvHolds, PTL

\* activeInserts and the WaitGroup count the inserters, and the limit on inserters
\* is kept, for any number of deliveries.
THEOREM TrackingCorrect == Spec => []GoroutinesTracked
<1>1. IInv => GoroutinesTracked
  BY DEF IInv, Counted
<1> QED BY <1>1, IInvHolds, PTL

\* No step adds to the WaitGroup once Stop has flushed, and none takes it below zero.
LEMMA WaitGroupShrinks ==
  ASSUME IInv, [Next]_vars, stop \notin {"no", "closed"}
  PROVE  wg' = wg \/ wg' = wg - 1
<1>1. ~Spawn
  BY DEF IInv, LockInv, Spawn
<1>2. ASSUME NEW i \in inserts, InsertStep(i) PROVE wg' = wg \/ wg' = wg - 1
  BY <1>2, InsertMoves DEF IInv
<1>3. CASE ~(\E i \in inserts : InsertStep(i))
  BY <1>1, <1>3
  DEF Next, Refuse, Accept, AppendMessage, AppendWhen, Flush, CheckShutdown,
      CheckBreaker, CheckTimeout, CheckLimit, CheckLimitWhen, DropBatch, GoOn,
      TimerFires, TimerFlushes, Rearm, RearmAs, RefreshStep, RefreshTick, RefreshQueries, RefreshAnswered, RefreshDone,
      RefreshExits, StopStep, ResetTimeoutElapses, Exited, vars, trackVars
<1> QED BY <1>2, <1>3

\* No inserter joins the WaitGroup after the flush of Stop.
THEOREM NoLateSpawn == Spec => NoSpawnAfterStopFlushed
<1>1. IInv /\ [Next]_vars => [stop \notin {"no", "closed"} => wg' <= wg]_vars
  BY WaitGroupShrinks DEF IInv, TypeOK
<1> QED BY <1>1, IInvHolds, PTL DEF Spec, NoSpawnAfterStopFlushed

WaitedInv == stop \in {"done", "drained"} => wg = 0

\* WaitedInv holds in every behaviour.
LEMMA WaitedHolds == Spec => []WaitedInv
<1>1. Init => WaitedInv
  BY DEF Init, WaitedInv
<1>2. IInv /\ WaitedInv /\ IInv' /\ [Next]_vars => WaitedInv'
  <2> SUFFICES ASSUME IInv, WaitedInv, IInv', [Next]_vars, stop' \in {"done", "drained"}
               PROVE  wg' = 0
    BY DEF WaitedInv
  <2>1. wg \in Nat /\ wg' \in Nat
    BY DEF IInv, TypeOK
  <2>2. CASE stop \in {"done", "drained"}
    BY <2>1, <2>2, WaitGroupShrinks DEF WaitedInv
  <2>3. CASE stop \notin {"done", "drained"}
    <3>1. StopStep
      BY <2>3 DEF Next, Refuse, Accept, AppendMessage, AppendWhen, Flush, CheckShutdown,
                  CheckBreaker, CheckTimeout, CheckLimit, CheckLimitWhen, Spawn, DropBatch, GoOn,
                  Unlock, TimerFires, TimerFlushes, Rearm, RearmAs, InsertStep, RefreshStep,
                  ResetTimeoutElapses, Exited, vars
    <3>2. WaiterSignals
      BY <2>3, <3>1 DEF StopStep, CloseShutdownCh, StopProceeds, StopFlushes, StopTimer,
                        CloseSession, SelectDone, SelectTimeout, ClosePool, Exit
    <3> QED BY <3>1, <3>2 DEF StopStep, WaiterSignals, trackVars
  <2> QED BY <2>2, <2>3
<1> QED BY <1>1, <1>2, IInvHolds, PTL DEF Spec

\* A Stop that returns without its timeout leaves no inserter and no refresh job, and
\* nothing undecided but what never left the buffer.
THEOREM DrainedCorrect == Spec => []DrainedMeansQuiet
<1>1. IInv /\ WaitedInv => DrainedMeansQuiet
  <2> SUFFICES ASSUME IInv, WaitedInv, stop = "drained"
               PROVE  /\ inserts = {} /\ activeInserts = 0 /\ refresh = "exited"
                      /\ With("pending") \subseteq
                            {m \in Msgs : handler[m] = "waiting"} \cup buffer \cup batch
    BY DEF DrainedMeansQuiet
  <2>1. /\ IsFiniteSet(inserts) /\ Cardinality(inserts) \in Nat
        /\ 0 = Cardinality(inserts) + (IF refresh = "exited" THEN 0 ELSE 1)
    BY FS_CardinalityType
    DEF IInv, WaitedInv, Counted, GoroutinesTracked, WaitGroupCounted
  <2>2. Cardinality(inserts) = 0 /\ refresh = "exited"
    BY <2>1
  <2>3. inserts = {}
    BY <2>1, <2>2, FS_EmptySet
  <2>4. activeInserts = 0
    BY <2>3, FS_EmptySet DEF IInv, Counted, GoroutinesTracked, SlotsCounted
  <2>5. InFlight = {}
    BY <2>3 DEF InFlight
  <2>6. ASSUME NEW m \in Msgs, Outcome[m] = "pending",
               handler[m] # "waiting", m \notin buffer \cup batch
        PROVE  FALSE
    BY <2>5, <2>6 DEF Outcome
  <2> QED BY <2>2, <2>3, <2>4, <2>6 DEF With
<1> QED BY <1>1, IInvHolds, WaitedHolds, PTL
-----------------------------------------------------------------------------
\* A batch is cut off a buffer that was not full, with at most one message more.
LEMMA StepBounded == IInv /\ BatchesBounded /\ [Next]_vars => BatchesBounded'
<1> SUFFICES ASSUME IInv, BatchesBounded, [Next]_vars PROVE BatchesBounded'
  OBVIOUS
<1>0. /\ IsFiniteSet(buffer) /\ Cardinality(buffer) \in Nat /\ Cardinality({}) = 0
      /\ BatchSize \in Nat \ {0}
  BY PipelineAssumption, FS_Subset, FS_CardinalityType, FS_EmptySet DEF IInv, TypeOK
<1>1. ASSUME NEW m \in Msgs, AppendMessage(m) PROVE BatchesBounded'
  <2>1. Cardinality(buffer \cup {m}) \in Nat /\ Cardinality(buffer \cup {m}) <= Cardinality(buffer) + 1
    <3>1. m \notin buffer
      BY <1>1 DEF AppendMessage, AppendWhen, IInv, Owned, Held
    <3>2. Cardinality(buffer \cup {m}) = Cardinality(buffer) + 1
      BY <1>0, <3>1, FS_AddElement
    <3> QED BY <1>0, <3>2
  <2>2. inserts' = inserts
    BY <1>1 DEF AppendMessage, AppendWhen, trackVars
  <2>3. \/ batch' = buffer \cup {m} /\ buffer' = {}
        \/ /\ buffer' = buffer \cup {m} /\ batch' = batch
           /\ ~(Cardinality(buffer \cup {m}) >= BatchSize)
    BY <1>1 DEF AppendMessage, AppendWhen, Cut, flushVars
  <2> QED BY <1>0, <2>1, <2>2, <2>3 DEF BatchesBounded
<1>2. CASE TimerFires \/ TimerFlushes \/ Rearm \/ StopStep
  <2>1. /\ inserts' = inserts
        /\ \/ buffer' = buffer /\ batch' = batch
           \/ batch' = buffer /\ buffer' = {}
    BY <1>2 DEF TimerFires, TimerFlushes, Rearm, RearmAs, Cut, queueVars, flushVars, trackVars,
                StopStep, CloseShutdownCh, StopProceeds, StopFlushes, StopTimer, CloseSession,
                WaiterSignals, SelectDone, SelectTimeout, ClosePool, Exit
  <2> QED BY <1>0, <2>1 DEF BatchesBounded
<1>3. CASE Flush
  <2>1. /\ buffer' = buffer /\ batch' \in {batch, {}}
        /\ inserts' \in {inserts, inserts \cup {[batch |-> batch, at |-> "entered"]}}
    BY <1>3 DEF Flush, CheckShutdown, CheckBreaker, CheckTimeout, CheckLimit, CheckLimitWhen,
                Spawn, DropBatch, GoOn, Unlock, queueVars, trackVars
  <2> QED BY <1>0, <2>1 DEF BatchesBounded
<1>4. ASSUME NEW i \in inserts, InsertStep(i) PROVE BatchesBounded'
  <2>1. buffer' = buffer /\ batch' = batch
    BY <1>4 DEF InsertStep, queueVars, flushVars
  <2>2. inserts' = inserts \ {i} \/ \E place \in InserterAt : Move(i, place)
    BY <1>4, InsertMoves DEF IInv
  <2>3. ASSUME NEW place \in InserterAt, Move(i, place)
        PROVE  \A j \in inserts' : Cardinality(j.batch) <= BatchSize
    <3> DEFINE moved == [i EXCEPT !.at = place]
    <3>1. moved.batch = i.batch /\ inserts' = (inserts \ {i}) \cup {moved}
      BY <2>3, MovedApart DEF Move, IInv
    <3> HIDE DEF moved
    <3> QED BY <3>1 DEF BatchesBounded
  <2> QED BY <2>1, <2>2, <2>3 DEF BatchesBounded
<1>5. CASE (\E m \in Msgs : Refuse(m) \/ Accept(m)) \/ RefreshStep \/ ResetTimeoutElapses
           \/ Exited \/ UNCHANGED vars
  BY <1>5 DEF Refuse, Accept, RefreshStep, ResetTimeoutElapses, Exited, vars, queueVars,
              flushVars, trackVars, BatchesBounded
<1> QED BY <1>1, <1>2, <1>3, <1>4, <1>5 DEF Next

\* The buffer and every batch stay within the batch size, whoever flushes when.
THEOREM BatchesStayBounded == Spec => []BatchesBounded
<1>1. Init => BatchesBounded
  BY PipelineAssumption, FS_EmptySet DEF Init, BatchesBounded
<1> QED BY <1>1, StepBounded, IInvHolds, PTL DEF Spec
-----------------------------------------------------------------------------
\* The inserters whose call the breaker has admitted and not yet heard the result of.
Runners == At({"admitted", "inTx", "inserted", "aborted", "committed", "succeeded", "failed"})

\* The breaker of the pipeline: its counters explain its state, although the flusher asks it
\* too and never reports a result, and late failures push the counter over the threshold by
\* fewer than the number of inserters.
BreakerExplained ==
    LET limit == MaxFailures + MaxGoroutines - 1
    IN  /\ state = "Closed" => failures < MaxFailures
        /\ state = "Open" => failures >= MaxFailures
        /\ state = "HalfOpen" => halfOpenSuccess < HalfOpenMax \/ halfOpenSuccess = 0
        /\ failures <= limit
        /\ state = "Open" => failures + Cardinality(Runners) <= limit

\* No more calls run than there are slots.
LEMMA RunnersFew ==
  ASSUME IInv
  PROVE  /\ IsFiniteSet(Runners) /\ Cardinality(Runners) \in Nat
         /\ Cardinality(Runners) <= MaxGoroutines /\ MaxGoroutines \in Nat
<1> DEFINE live == inserts \ At({"exiting"})
<1>1. IsFiniteSet(inserts) /\ activeInserts = Cardinality(live) /\ activeInserts <= MaxGoroutines
  BY DEF IInv, Counted, GoroutinesTracked, SlotsCounted, LimitKept
<1>2. Runners \subseteq live /\ live \subseteq inserts
  BY DEF Runners, At
<1> HIDE DEF live
<1>3. IsFiniteSet(live) /\ Cardinality(live) \in Nat
  BY <1>1, <1>2, FS_Subset, FS_CardinalityType
<1>4. IsFiniteSet(Runners) /\ Cardinality(Runners) <= Cardinality(live) /\ Cardinality(Runners) \in Nat
  BY <1>2, <1>3, FS_Subset, FS_CardinalityType
<1> QED BY <1>1, <1>3, <1>4, PipelineAssumption

\* How a step of an inserter changes the number of running calls.
LEMMA RunnersMove ==
  ASSUME IInv, NEW i \in inserts, NEW place \in InserterAt, Move(i, place)
  PROVE  /\ (i \in Runners <=> place \in {"admitted", "inTx", "inserted", "aborted", "committed",
                                          "succeeded", "failed"})
               => Cardinality(Runners') = Cardinality(Runners)
         /\ i \in Runners /\ place = "done" => Cardinality(Runners') = Cardinality(Runners) - 1
<1> DEFINE running == {"admitted", "inTx", "inserted", "aborted", "committed", "succeeded", "failed"}
           moved == [i EXCEPT !.at = place]
<1>1. inserts' = (inserts \ {i}) \cup {moved} /\ moved.at = place /\ moved \notin inserts \ {i}
  BY MovedApart DEF Move, IInv
<1> HIDE DEF moved
<1>2. /\ Runners = {j \in inserts : j.at \in running}
      /\ Runners' = {j \in inserts' : j.at \in running}
  BY DEF Runners, At
<1>3. IsFiniteSet(Runners)
  BY RunnersFew
<1>4. CASE i \in Runners /\ place \in running
  <2>1. Runners' = (Runners \ {i}) \cup {moved} /\ moved \notin Runners \ {i}
    BY <1>1, <1>2, <1>4
  <2> QED BY <1>3, <1>4, <2>1, Replaced
<1>5. CASE i \notin Runners /\ place \notin running
  <2>1. Runners' = Runners
    BY <1>1, <1>2, <1>5
  <2> QED BY <1>5, <2>1
<1>6. CASE i \in Runners /\ place \notin running
  <2>1. Runners' = Runners \ {i}
    BY <1>1, <1>2, <1>6
  <2> QED BY <1>3, <1>6, <2>1, FS_RemoveElement
<1> QED BY <1>4, <1>5, <1>6

\* Every step of an inserter keeps the breaker explained.
LEMMA InsertExplained ==
  ASSUME IInv, BreakerExplained, NEW i \in inserts, InsertStep(i)
  PROVE  BreakerExplained'
<1> DEFINE n == Cardinality(Runners)
<1>0. /\ n \in Nat /\ n <= MaxGoroutines /\ MaxGoroutines \in Nat \ {0} /\ MaxFailures \in Nat \ {0}
      /\ BreakerTypeOK
  BY RunnersFew, PipelineAssumption, MaxFailuresAssumption DEF IInv, TypeOK
<1>1. ASSUME UNCHANGED breakerVars, Cardinality(Runners') = Cardinality(Runners)
      PROVE  BreakerExplained'
  BY <1>1 DEF BreakerExplained, breakerVars, HalfOpenMax
<1>2. CASE InsertReadsBreaker(i)
  <2>1. /\ i \notin Runners /\ UNCHANGED breakerVars
        /\ \/ state # "Open" /\ Move(i, "admitted")
           \/ Move(i, "sawOpen")
    BY <1>2 DEF InsertReadsBreaker, AdmittedByState, Runners, At
  <2>2. CASE state # "Open"
    BY <1>0, <2>1, <2>2 DEF BreakerExplained, breakerVars, HalfOpenMax
  <2>3. CASE Move(i, "sawOpen")
    <3>1. Cardinality(Runners') = Cardinality(Runners)
      BY <2>1, <2>3, RunnersMove DEF InserterAt
    <3> QED BY <1>1, <2>1, <3>1
  <2> QED BY <2>1, <2>2, <2>3
<1>3. CASE InsertTestsTimeout(i)
  <2>1. i \notin Runners /\ TransitionToHalfOpen /\ (~AdmittedByTimeout => Move(i, "done"))
    BY <1>3 DEF InsertTestsTimeout, TestTimeoutReleasing, Runners, At
  <2>2. CASE AdmittedByTimeout
    BY <1>0, <2>1, <2>2 DEF TransitionToHalfOpen, TransitionWith, BreakerExplained
  <2>3. CASE ~AdmittedByTimeout
    <3>1. Cardinality(Runners') = Cardinality(Runners)
      BY <2>1, <2>3, RunnersMove DEF InserterAt
    <3> QED BY <1>1, <2>1, <2>3, <3>1 DEF TransitionToHalfOpen, TransitionWith
  <2> QED BY <2>2, <2>3
<1>4. CASE Begin(i) \/ InsertMessages(i) \/ Commit(i) \/ CommitFails(i) \/ CountProcessed(i)
  <2>1. /\ i \in Runners /\ UNCHANGED breakerVars
        /\ \E place \in {"inTx", "inserted", "aborted", "committed", "succeeded", "failed"} : Move(i, place)
    BY <1>4 DEF Begin, InsertMessages, Commit, CommitFails, CountProcessed, Runners, At
  <2>2. Cardinality(Runners') = Cardinality(Runners)
    BY <2>1, RunnersMove DEF InserterAt
  <2> QED BY <1>1, <2>1, <2>2
<1>5. CASE RecordResult(i)
  <2>1. /\ i \in Runners /\ Move(i, "done")
        /\ RecordFailure \/ RecordSuccess
    BY <1>5 DEF RecordResult, Runners, At
  <2>2. Cardinality(Runners') = n - 1
    BY <2>1, RunnersMove DEF InserterAt
  <2>3. Cardinality(Runners') \in Nat
    <3>1. n # 0
      BY <2>1, RunnersFew, FS_EmptySet
    <3> QED BY <1>0, <2>2, <3>1
  <2> HIDE DEF n
  <2>4. CASE RecordFailure
    <3>1. CASE state = "Closed"
      BY <1>0, <2>2, <2>3, <2>4, <3>1 DEF RecordFailure, FailureWith, BreakerExplained, BreakerTypeOK
    <3>2. CASE state = "HalfOpen"
      BY <1>0, <2>2, <2>3, <2>4, <3>2 DEF RecordFailure, FailureWith, BreakerExplained, BreakerTypeOK
    <3>3. CASE state = "Open"
      BY <1>0, <2>2, <2>3, <2>4, <3>3 DEF RecordFailure, FailureWith, BreakerExplained, BreakerTypeOK, n
    <3> QED BY <1>0, <3>1, <3>2, <3>3 DEF BreakerTypeOK
  <2>5. CASE RecordSuccess
    <3>1. HalfOpenMax' = HalfOpenMax /\ HalfOpenMax \in Nat
      BY <1>0 DEF HalfOpenMax
    <3> HIDE DEF HalfOpenMax
    <3>2. CASE state = "Closed"
      BY <1>0, <2>5, <3>1, <3>2 DEF RecordSuccess, SuccessWith, BreakerExplained, BreakerTypeOK
    <3>3. CASE state = "HalfOpen"
      BY <1>0, <2>5, <3>1, <3>3 DEF RecordSuccess, SuccessWith, BreakerExplained, BreakerTypeOK
    <3>4. CASE state = "Open"
      BY <1>0, <2>2, <2>5, <3>1, <3>4 DEF RecordSuccess, SuccessWith, BreakerExplained, BreakerTypeOK, n
    <3> QED BY <1>0, <3>2, <3>3, <3>4 DEF BreakerTypeOK
  <2> QED BY <2>1, <2>4, <2>5
<1>6. CASE ReleaseSlot(i)
  <2>1. i \notin Runners /\ Move(i, "exiting") /\ UNCHANGED breakerVars
    BY <1>6 DEF ReleaseSlot, Runners, At
  <2>2. Cardinality(Runners') = Cardinality(Runners)
    BY <2>1, RunnersMove DEF InserterAt
  <2> QED BY <1>1, <2>1, <2>2
<1>7. CASE InsertExits(i)
  <2>1. Runners' = Runners /\ UNCHANGED breakerVars
    BY <1>7 DEF InsertExits, Runners, At
  <2> QED BY <1>1, <2>1
<1> QED BY <1>2, <1>3, <1>4, <1>5, <1>6, <1>7 DEF InsertStep

\* The others: the flusher can make the breaker half-open, and the timeout runs out.
LEMMA OthersExplained ==
  ASSUME IInv, BreakerExplained, [Next]_vars, ~(\E i \in inserts : InsertStep(i))
  PROVE  BreakerExplained'
<1>0. /\ Cardinality(Runners) \in Nat /\ MaxGoroutines \in Nat \ {0} /\ MaxFailures \in Nat \ {0}
  BY RunnersFew, PipelineAssumption, MaxFailuresAssumption
<1>1. Runners' = Runners
  <2>1. CASE Spawn
    <3> DEFINE new == [batch |-> batch, at |-> "entered"]
    <3>1. inserts' = inserts \cup {new} /\ new.at = "entered"
      BY <2>1 DEF Spawn
    <3> HIDE DEF new
    <3> QED BY <3>1 DEF Runners, At
  <2>2. CASE ~Spawn
    <3>1. inserts' = inserts
      BY <2>2
      DEF Next, Refuse, Accept, AppendMessage, AppendWhen, Flush, CheckShutdown,
          CheckBreaker, CheckTimeout, CheckLimit, CheckLimitWhen, DropBatch, GoOn,
          TimerFires, TimerFlushes, Rearm, RearmAs, RefreshStep, StopStep,
          ResetTimeoutElapses, Exited, vars, trackVars
    <3> QED BY <3>1 DEF Runners, At
  <2> QED BY <2>1, <2>2
<1>2. TransitionToHalfOpen \/ Cool \/ UNCHANGED breakerVars
  BY DEF Next, Refuse, Accept, AppendMessage, AppendWhen, Flush, CheckShutdown, CheckBreaker,
         CheckTimeout, CheckLimit, CheckLimitWhen, Spawn, TimerFires, TimerFlushes, Rearm,
         RearmAs, RefreshStep, StopStep, ResetTimeoutElapses, Exited, vars, breakerVars
<1>3. CASE UNCHANGED breakerVars \/ Cool
  BY <1>1, <1>3 DEF Cool, breakerVars, BreakerExplained, HalfOpenMax
<1>4. CASE TransitionToHalfOpen /\ ~UNCHANGED breakerVars
  BY <1>0, <1>4 DEF TransitionToHalfOpen, TransitionWith, BreakerExplained
<1> QED BY <1>2, <1>3, <1>4

\* For any number of inserters: an open breaker has seen the failures that open it, a closed one
\* fewer, and calls that were admitted before it opened push the counter at most one less than
\* the number of slots over the threshold (recordFailure, insertBatchInternal).
THEOREM BreakerCorrect == Spec => []BreakerExplained
<1>1. Init => BreakerExplained
  BY MaxFailuresAssumption, PipelineAssumption DEF Init, BreakerInit, BreakerExplained
<1>2. IInv /\ BreakerExplained /\ [Next]_vars => BreakerExplained'
  BY InsertExplained, OthersExplained
<1> QED BY <1>1, <1>2, IInvHolds, PTL DEF Spec
=============================================================================
