------------------------ MODULE MessageLedgerProofs ------------------------
(***************************************************************************)
(* The pipeline implements the ledger, for any deliveries, batch size,     *)
(* limit of inserters and threshold of the breaker, and its counters       *)
(* account for what has become of the messages.                            *)
(*                                                                         *)
(* Settled says where the database has got with the messages that are      *)
(* under way.  With it OutcomeExplained reads the outcome of a message off *)
(* the place it is in, Means reduces every step to what it does to         *)
(* outcomes, rows and counters, and the theorems about them follow from    *)
(* Means alone.  What the ledger means for a single message follows from   *)
(* the ledger; that a batch is never divided needs Ended beside Settled,   *)
(* for the inserters whose call to the database is over.                   *)
(***************************************************************************)
EXTENDS MessagePipelineProofs

Waiting == {m \in Msgs : handler[m] = "waiting"}

\* No message is settled in the database while it is still under way, and the batches
\* that have been committed are there.
Settled ==
    /\ Held \cap (stored \cup failed) = {}
    /\ \A m \in stored \cup failed : handler[m] = "buffered"
    /\ \A i \in inserts :
          /\ i.at \in Undecided => i.batch \cap (stored \cup failed) = {}
          /\ i.at \in {"committed", "succeeded"} => i.batch \subseteq stored \ failed

\* The outcome of a message, case by case.
OutcomeExplained ==
    /\ Outcome \in [Msgs -> Ledger!Outcomes]
    /\ \A m \in Msgs :
          /\ Outcome[m] = "none" <=> handler[m] = "none"
          /\ Outcome[m] = "refused" <=> handler[m] = "refused"
          /\ Outcome[m] = "failed" <=> m \in failed
          /\ Outcome[m] = "stored" <=> m \in stored \ failed
          /\ Outcome[m] = "pending" <=> m \in Waiting \cup Held \cup InFlight
          /\ Outcome[m] = "dropped" <=> /\ handler[m] = "buffered"
                                        /\ m \notin stored \cup failed \cup Held \cup InFlight

\* That is what the definition says, as long as the invariants hold, now and after a step.
LEMMA OutcomeCases == IInv /\ Settled => OutcomeExplained
<1> SUFFICES ASSUME IInv, Settled, NEW m \in Msgs
             PROVE  /\ Outcome[m] = "none" <=> handler[m] = "none"
                    /\ Outcome[m] = "refused" <=> handler[m] = "refused"
                    /\ Outcome[m] = "failed" <=> m \in failed
                    /\ Outcome[m] = "stored" <=> m \in stored \ failed
                    /\ Outcome[m] = "pending" <=> m \in Waiting \cup Held \cup InFlight
                    /\ Outcome[m] = "dropped" <=>
                          /\ handler[m] = "buffered"
                          /\ m \notin stored \cup failed \cup Held \cup InFlight
  BY DEF OutcomeExplained, Outcome, Ledger!Outcomes
<1>1. handler[m] \in {"none", "refused", "waiting", "buffered"}
  BY DEF IInv, TypeOK
<1>2. m \in stored \cup failed => handler[m] = "buffered" /\ m \notin Held \cup InFlight
  <2>1. m \in stored \cup failed => m \notin InFlight
    BY DEF Settled, InFlight
  <2> QED BY <2>1 DEF Settled
<1>3. m \in Held \cup InFlight => handler[m] = "buffered"
  BY DEF IInv, Owned, InFlight
<1>4. m \in Waiting <=> handler[m] = "waiting"
  BY DEF Waiting
<1>5. Outcome[m] = CASE handler[m] = "none" -> "none"
                     [] handler[m] = "refused" -> "refused"
                     [] m \in failed -> "failed"
                     [] m \in stored \ failed -> "stored"
                     [] handler[m] = "waiting" \/ m \in Held \cup InFlight -> "pending"
                     [] OTHER -> "dropped"
  BY DEF Outcome, Held
<1>6. \/ handler[m] = "none" /\ Outcome[m] = "none"
      \/ handler[m] = "refused" /\ Outcome[m] = "refused"
      \/ handler[m] = "buffered" /\ m \in failed /\ Outcome[m] = "failed"
      \/ handler[m] = "buffered" /\ m \in stored \ failed /\ Outcome[m] = "stored"
      \/ m \in Waiting \cup Held \cup InFlight /\ m \notin stored \cup failed
         /\ handler[m] \in {"waiting", "buffered"} /\ Outcome[m] = "pending"
      \/ handler[m] = "buffered" /\ m \notin stored \cup failed \cup Held \cup InFlight
         /\ Outcome[m] = "dropped"
  BY <1>1, <1>2, <1>3, <1>4, <1>5
<1> QED BY <1>2, <1>3, <1>4, <1>6

\* OutcomeCases in the next state.
LEMMA OutcomeCasesNext == IInv' /\ Settled' => OutcomeExplained'
  BY OutcomeCases, PTL


\* The messages of the inserters in some places.
Batches(P) == UNION {i.batch : i \in At(P)}

\* What a step of an inserter does to them.
LEMMA MoveBatches ==
  ASSUME IInv, NEW P, NEW i \in inserts, NEW place \in InserterAt, Move(i, place)
  PROVE  /\ Batches(P)' = IF place \in P THEN Batches(P) \cup i.batch ELSE Batches(P) \ i.batch
         /\ i.at \in P => i.batch \subseteq Batches(P)
         /\ i.at \notin P => i.batch \cap Batches(P) = {}
<1> DEFINE moved == [i EXCEPT !.at = place]
<1>1. /\ moved.batch = i.batch /\ moved.at = place
      /\ inserts' = (inserts \ {i}) \cup {moved}
  BY MovedApart DEF Move, IInv
<1> HIDE DEF moved
<1>2. \A j \in inserts \ {i} : i.batch \cap j.batch = {}
  BY DEF IInv, Owned
<1>3. \A x : x \in Batches(P)' <=> \E j \in inserts' : j.at \in P /\ x \in j.batch
  BY DEF Batches, At
<1>4. \A x : x \in Batches(P) <=> \E j \in inserts : j.at \in P /\ x \in j.batch
  BY DEF Batches, At
<1>5. CASE place \in P
  BY <1>1, <1>2, <1>3, <1>4, <1>5
<1>6. CASE place \notin P
  BY <1>1, <1>2, <1>3, <1>4, <1>6
<1> QED BY <1>2, <1>4, <1>5, <1>6

\* An inserter that ends was in none of the places.
LEMMA ExitBatches ==
  ASSUME IInv, NEW P, NEW i \in inserts, inserts' = inserts \ {i}, i.at \notin P
  PROVE  Batches(P)' = Batches(P)
  BY DEF Batches, At

\* The messages in flight are those of the undecided inserters.
LEMMA InFlightBatches == InFlight = Batches(Undecided)
  BY DEF InFlight, Batches, At

\* InFlightBatches in the next state.
LEMMA InFlightBatchesNext == InFlight' = Batches(Undecided)'
  BY DEF InFlight, Batches, At, Undecided
-----------------------------------------------------------------------------
\* What a step of an inserter that goes on does to the messages of its batch: nothing,
\* or they are counted, given up, or stored.
InsertQuiet(i, place) ==
    /\ i.at \in Undecided <=> place \in Undecided
    /\ i.at # "committed" /\ place \notin {"committed", "succeeded"}
    /\ UNCHANGED <<stored, failed, metrics>>

InsertCounts(i, place) ==
    /\ i.at = "committed" /\ place = "succeeded"
    /\ Count("processed", Cardinality(i.batch))
    /\ UNCHANGED <<stored, failed>>

InsertGivesUp(i, place) ==
    /\ i.at \in Undecided /\ place \notin Undecided \cup {"committed", "succeeded"}
    /\ failed' = failed \cup i.batch
    /\ stored' \in {stored, stored \cup i.batch}
    /\ UNCHANGED metrics

InsertStores(i, place) ==
    /\ i.at \in Undecided /\ place = "committed"
    /\ stored' = stored \cup i.batch
    /\ UNCHANGED <<failed, metrics>>

\* There is nothing else.
LEMMA InsertEffect ==
  ASSUME IInv, NEW i \in inserts, InsertStep(i)
  PROVE  \/ i.at = "exiting" /\ inserts' = inserts \ {i} /\ UNCHANGED <<stored, failed, metrics>>
         \/ \E place \in InserterAt :
              /\ Move(i, place)
              /\ \/ InsertQuiet(i, place) \/ InsertCounts(i, place)
                 \/ InsertGivesUp(i, place) \/ InsertStores(i, place)
<1> USE DEF InserterAt, Undecided
<1>1. CASE InsertReadsBreaker(i)
  BY <1>1 DEF InsertReadsBreaker, InsertQuiet
<1>2. CASE InsertTestsTimeout(i)
  BY <1>2 DEF InsertTestsTimeout, TestTimeoutReleasing, InsertQuiet, InsertGivesUp
<1>3. CASE Begin(i)
  BY <1>3 DEF Begin, InsertQuiet, InsertGivesUp
<1>4. CASE InsertMessages(i)
  BY <1>4 DEF InsertMessages, InsertQuiet
<1>5. CASE Commit(i)
  BY <1>5 DEF Commit, InsertStores
<1>6. CASE CommitFails(i)
  BY <1>6 DEF CommitFails, InsertGivesUp
<1>7. CASE CountProcessed(i)
  BY <1>7 DEF CountProcessed, InsertCounts
<1>8. CASE RecordResult(i)
  BY <1>8 DEF RecordResult, InsertQuiet
<1>9. CASE ReleaseSlot(i)
  BY <1>9 DEF ReleaseSlot, InsertQuiet
<1>10. CASE InsertExits(i)
  BY <1>10 DEF InsertExits
<1> QED BY <1>1, <1>2, <1>3, <1>4, <1>5, <1>6, <1>7, <1>8, <1>9, <1>10 DEF InsertStep

\* An inserter changes stored and failed by its batch, when it decides it.
LEMMA StepSettled == IInv /\ Settled /\ [Next]_vars => Settled'
<1> SUFFICES ASSUME IInv, Settled, [Next]_vars PROVE Settled'
  OBVIOUS
<1>1. ASSUME NEW m \in Msgs, Refuse(m) \/ Accept(m) PROVE Settled'
  BY <1>1 DEF Refuse, Accept, Settled, Held, Undecided, flushVars, trackVars, IInv, TypeOK
<1>2. ASSUME NEW m \in Msgs, AppendMessage(m) PROVE Settled'
  BY <1>2 DEF AppendMessage, AppendWhen, Cut, Settled, Held, Undecided, flushVars, trackVars,
              IInv, TypeOK, LockInv
<1>3. CASE Flush
  <2>1. CASE Spawn
    <3> DEFINE new == [batch |-> batch, at |-> "entered"]
    <3>1. /\ inserts' = inserts \cup {new} /\ batch' = {} /\ buffer' = buffer
          /\ handler' = handler /\ stored' = stored /\ failed' = failed
      BY <2>1 DEF Spawn, Unlock, queueVars
    <3>2. new.batch = batch /\ new.at = "entered"
      OBVIOUS
    <3> HIDE DEF new
    <3> QED BY <3>1, <3>2 DEF Settled, Held, Undecided
  <2>2. CASE ~Spawn
    <3>1. /\ inserts' = inserts /\ buffer' = buffer /\ batch' \in {batch, {}}
          /\ handler' = handler /\ stored' = stored /\ failed' = failed
      BY <1>3, <2>2 DEF Flush, CheckShutdown, CheckBreaker, CheckTimeout, CheckLimit,
                        CheckLimitWhen, DropBatch, GoOn, Unlock, queueVars, trackVars
    <3> QED BY <3>1 DEF Settled, Held, Undecided
  <2> QED BY <2>1, <2>2
<1>4. CASE TimerFires \/ TimerFlushes \/ Rearm \/ StopStep
  <2>1. /\ handler' = handler /\ inserts' = inserts /\ stored' = stored /\ failed' = failed
        /\ \/ buffer' = buffer /\ batch' = batch
           \/ batch' = buffer /\ buffer' = {}
    BY <1>4 DEF TimerFires, TimerFlushes, Rearm, RearmAs, Cut, queueVars, flushVars, trackVars,
                StopStep, CloseShutdownCh, StopProceeds, StopFlushes, StopTimer, CloseSession,
                WaiterSignals, SelectDone, SelectTimeout, ClosePool, Exit
  <2> QED BY <2>1 DEF Settled, Held, Undecided
<1>5. ASSUME NEW i \in inserts, InsertStep(i) PROVE Settled'
  <2>1. /\ handler' = handler /\ buffer' = buffer /\ batch' = batch
    BY <1>5 DEF InsertStep, queueVars, flushVars
  <2>2. CASE i.at = "exiting" /\ inserts' = inserts \ {i} /\ UNCHANGED <<stored, failed, metrics>>
    BY <2>1, <2>2 DEF Settled, Held, Undecided
  <2>3. ASSUME NEW place \in InserterAt, Move(i, place),
               \/ InsertQuiet(i, place) \/ InsertCounts(i, place)
               \/ InsertGivesUp(i, place) \/ InsertStores(i, place)
        PROVE  Settled'
    <3> DEFINE moved == [i EXCEPT !.at = place]
    <3>1. /\ moved.batch = i.batch /\ moved.at = place
          /\ inserts' = (inserts \ {i}) \cup {moved}
      BY <2>3, MovedApart DEF Move, IInv
    <3> HIDE DEF moved
    <3>2. /\ \A j \in inserts \ {i} : i.batch \cap j.batch = {}
          /\ i.batch \cap Held = {}
          /\ \A m \in i.batch : handler[m] = "buffered"
      BY DEF IInv, Owned
    <3>3. Held' = Held
      BY <2>1 DEF Held
    <3>4. /\ stored \subseteq stored' /\ stored' \subseteq stored \cup i.batch
          /\ failed \subseteq failed' /\ failed' \subseteq failed \cup i.batch
      BY <2>3 DEF InsertQuiet, InsertCounts, InsertGivesUp, InsertStores
    <3>5. /\ place \in Undecided => i.batch \cap (stored' \cup failed') = {}
          /\ place \in {"committed", "succeeded"} => i.batch \subseteq stored' \ failed'
      BY <2>3 DEF InsertQuiet, InsertCounts, InsertGivesUp, InsertStores, Settled, Undecided
    <3>6. Held' \cap (stored' \cup failed') = {} /\ \A m \in stored' \cup failed' : handler'[m] = "buffered"
      BY <2>1, <3>2, <3>3, <3>4 DEF Settled
    <3>7. ASSUME NEW j \in inserts \ {i}
          PROVE  /\ j.at \in Undecided => j.batch \cap (stored' \cup failed') = {}
                 /\ j.at \in {"committed", "succeeded"} => j.batch \subseteq stored' \ failed'
      BY <3>2, <3>4 DEF Settled
    <3>8. \A j \in inserts' :
             /\ j.at \in Undecided' => j.batch \cap (stored' \cup failed') = {}
             /\ j.at \in {"committed", "succeeded"} => j.batch \subseteq stored' \ failed'
      BY <3>1, <3>5, <3>7 DEF Undecided
    <3> QED BY <3>6, <3>8 DEF Settled
  <2> QED BY <1>5, <2>2, <2>3, InsertEffect
<1>6. CASE RefreshStep \/ ResetTimeoutElapses \/ Exited \/ UNCHANGED vars
  BY <1>6 DEF RefreshStep, ResetTimeoutElapses, Exited, vars, queueVars, flushVars, trackVars,
              Settled, Held, Undecided
<1> QED BY <1>1, <1>2, <1>3, <1>4, <1>5, <1>6 DEF Next
-----------------------------------------------------------------------------
Committed == Batches({"committed"})

Decided(B, result) ==
    /\ B \in SUBSET Ledger!Pending
    /\ Outcome' = [m \in Msgs |-> IF m \in B THEN result ELSE Outcome[m]]

\* What a step means for the ledger and for the counters: nothing, a message is taken
\* or refused, or a batch is counted, dropped, given up, or stored.
Idles ==
    /\ UNCHANGED <<Outcome, stored, metrics>>
    /\ Committed' = Committed

Takes(m, result) ==
    /\ Outcome[m] = "none"
    /\ Outcome' = [k \in Msgs |-> IF k = m THEN result ELSE Outcome[k]]
    /\ metrics'.received = metrics.received + 1
    /\ UNCHANGED <<stored, metrics.dropped, metrics.processed>>
    /\ Committed' = Committed

Drops ==
    /\ Decided(batch, "dropped")
    /\ Count("dropped", Cardinality(batch))
    /\ batch # {} /\ UNCHANGED stored
    /\ Committed' = Committed

Counts(i) ==
    /\ UNCHANGED <<Outcome, stored>>
    /\ Count("processed", Cardinality(i.batch))
    /\ i.batch \subseteq Committed /\ Committed' = Committed \ i.batch

GivesUp(i) ==
    /\ Decided(i.batch, "failed")
    /\ stored' \in {stored, stored \cup i.batch}
    /\ UNCHANGED metrics /\ Committed' = Committed

Stores(i) ==
    /\ Decided(i.batch, "stored")
    /\ stored' = stored \cup i.batch
    /\ UNCHANGED metrics
    /\ i.batch \cap Committed = {} /\ Committed' = Committed \cup i.batch

Means ==
    \/ Idles
    \/ \E m \in Msgs, result \in {"pending", "refused"} : Takes(m, result)
    \/ Drops
    \/ \E i \in inserts : i.batch # {} /\ (Counts(i) \/ GivesUp(i) \/ Stores(i))

\* Every step has one of these meanings.
LEMMA StepMeans == IInv /\ Settled /\ IInv' /\ Settled' /\ [Next]_vars => Means
<1> SUFFICES ASSUME IInv, Settled, IInv', Settled', [Next]_vars PROVE Means
  OBVIOUS
<1>a. OutcomeExplained /\ OutcomeExplained'
  BY OutcomeCases, OutcomeCasesNext
\* It is enough to say which outcomes change.
<1>b. ASSUME NEW B \in SUBSET Msgs, NEW result \in Ledger!Outcomes,
             \A m \in B : Outcome'[m] = result, \A m \in Msgs \ B : Outcome'[m] = Outcome[m]
      PROVE  Outcome' = [m \in Msgs |-> IF m \in B THEN result ELSE Outcome[m]]
  BY <1>a, <1>b DEF OutcomeExplained
<1>c. ASSUME \A m \in Msgs : Outcome'[m] = Outcome[m] PROVE Outcome' = Outcome
  BY <1>a, <1>c DEF OutcomeExplained
<1>d. ASSUME handler' = handler, Held' = Held, InFlight' = InFlight, stored' = stored, failed' = failed
      PROVE  Outcome' = Outcome
  BY <1>d DEF Outcome, Held
<1>e. ASSUME inserts' = inserts PROVE InFlight' = InFlight /\ Committed' = Committed
  BY <1>e DEF InFlight, Undecided, Committed, Batches, At
<1>1. ASSUME NEW m \in Msgs, Refuse(m) \/ Accept(m) PROVE Means
  <2>1. /\ handler[m] = "none" /\ inserts' = inserts /\ Held' = Held
        /\ stored' = stored /\ failed' = failed
        /\ handler' = [handler EXCEPT ![m] = "refused"] \/ handler' = [handler EXCEPT ![m] = "waiting"]
    BY <1>1 DEF Refuse, Accept, flushVars, trackVars, Held
  <2>2. handler \in [Msgs -> {"none", "refused", "waiting", "buffered"}] /\ metrics \in Metrics
    BY DEF IInv, TypeOK
  <2>3. /\ metrics'.received = metrics.received + 1
        /\ metrics'.dropped = metrics.dropped /\ metrics'.processed = metrics.processed
    BY <1>1, <2>2 DEF Refuse, Accept, Count, Metrics
  <2>4. Outcome[m] = "none" /\ Outcome'[m] \in {"pending", "refused"}
    BY <1>a, <2>1, <2>2 DEF OutcomeExplained, Waiting
  <2>5. ASSUME NEW k \in Msgs \ {m} PROVE Outcome'[k] = Outcome[k]
    <3>1. handler'[k] = handler[k]
      BY <2>1, <2>2
    <3> QED BY <1>e, <2>1, <3>1 DEF Outcome, Held
  <2>6. Outcome' = [k \in Msgs |-> IF k = m THEN Outcome'[m] ELSE Outcome[k]]
    BY <1>a, <2>5 DEF OutcomeExplained
  <2>7. Takes(m, Outcome'[m])
    BY <1>e, <2>1, <2>3, <2>4, <2>6 DEF Takes
  <2> QED BY <2>4, <2>7 DEF Means
<1>2. ASSUME NEW m \in Msgs, AppendMessage(m) PROVE Means
  <2>1. /\ handler[m] = "waiting" /\ handler' = [handler EXCEPT ![m] = "buffered"]
        /\ inserts' = inserts /\ stored' = stored /\ failed' = failed /\ metrics' = metrics
        /\ Held' = Held \cup {m}
    BY <1>2 DEF AppendMessage, AppendWhen, Cut, flushVars, trackVars, Held, IInv, LockInv
  <2>2. handler \in [Msgs -> {"none", "refused", "waiting", "buffered"}]
    BY DEF IInv, TypeOK
  <2>3. Outcome[m] = "pending" /\ Outcome'[m] = "pending"
    BY <1>a, <2>1, <2>2 DEF OutcomeExplained, Waiting
  <2>4. ASSUME NEW k \in Msgs \ {m} PROVE Outcome'[k] = Outcome[k]
    <3>1. handler'[k] = handler[k] /\ (k \in Held' <=> k \in Held)
      BY <2>1, <2>2
    <3> QED BY <1>e, <2>1, <3>1 DEF Outcome, Held
  <2>5. Outcome' = Outcome
    BY <1>c, <2>3, <2>4
  <2> QED BY <1>e, <2>1, <2>5 DEF Means, Idles
<1>3. CASE Flush
  <2>1. /\ handler' = handler /\ buffer' = buffer /\ stored' = stored /\ failed' = failed
    BY <1>3 DEF Flush, CheckShutdown, CheckBreaker, CheckTimeout, CheckLimit, CheckLimitWhen,
                DropBatch, GoOn, Spawn, Unlock, queueVars
  <2>2. batch # {} /\ buffer \cap batch = {} /\ batch \subseteq Msgs /\ Ledger!Pending = {m \in Msgs : Outcome[m] = "pending"}
    BY <1>3 DEF Flush, CheckShutdown, CheckBreaker, CheckTimeout, CheckLimit, CheckLimitWhen,
                Spawn, IInv, LockInv, Owned, TypeOK, Ledger!Pending
  <2>3. CASE Spawn
    <3> DEFINE new == [batch |-> batch, at |-> "entered"]
    <3>1. inserts' = inserts \cup {new} /\ batch' = {} /\ metrics' = metrics
      BY <2>3 DEF Spawn, Unlock
    <3>2. new.batch = batch /\ new.at = "entered"
      OBVIOUS
    <3> HIDE DEF new
    <3>3. InFlight' = InFlight \cup batch
      BY <3>1, <3>2 DEF InFlight, Undecided
    <3>4. Committed' = Committed
      BY <3>1, <3>2 DEF Committed, Batches, At
    <3>5. Held' \cup InFlight' = Held \cup InFlight
      BY <2>1, <3>1, <3>3 DEF Held
    <3>6. ASSUME NEW m \in Msgs PROVE Outcome'[m] = Outcome[m]
      <4>1. m \in buffer' \cup batch' \cup InFlight' <=> m \in buffer \cup batch \cup InFlight
        BY <3>5 DEF Held
      <4> QED BY <2>1, <4>1 DEF Outcome
    <3>7. Outcome' = Outcome
      BY <1>c, <3>6
    <3> QED BY <2>1, <3>1, <3>4, <3>7 DEF Means, Idles
  <2>4. CASE ~Spawn /\ batch' = batch /\ inserts' = inserts /\ metrics' = metrics
    <3>1. Held' = Held
      BY <2>1, <2>4 DEF Held
    <3> QED BY <1>d, <1>e, <2>1, <2>4, <3>1 DEF Means, Idles
  <2>5. CASE batch' = {} /\ inserts' = inserts /\ Count("dropped", Cardinality(batch))
    <3>1. batch \cap (stored \cup failed \cup InFlight) = {} /\ batch \subseteq Held
      BY <1>a, <2>2 DEF Settled, IInv, Owned, Held, InFlight
    <3>2. ASSUME NEW m \in batch
          PROVE  Outcome[m] = "pending" /\ Outcome'[m] = "dropped"
      <4>1. handler[m] = "buffered" /\ m \notin Held' /\ m \in Held
        BY <2>1, <2>2, <2>5, <3>1 DEF IInv, Owned, Held
      <4> QED BY <1>a, <1>e, <2>1, <2>2, <2>5, <3>1, <4>1 DEF OutcomeExplained
    <3>3. ASSUME NEW m \in Msgs \ batch PROVE Outcome'[m] = Outcome[m]
      <4>1. m \in buffer' \cup batch' \cup InFlight' <=> m \in buffer \cup batch \cup InFlight
        BY <1>e, <2>1, <2>5
      <4> QED BY <2>1, <4>1 DEF Outcome
    <3>4. Decided(batch, "dropped")
      BY <1>b, <2>2, <3>2, <3>3 DEF Decided, Ledger!Outcomes
    <3> QED BY <1>e, <2>1, <2>2, <2>5, <3>4 DEF Means, Drops
  <2> QED BY <1>3, <2>3, <2>4, <2>5
          DEF Flush, CheckShutdown, CheckBreaker, CheckTimeout, CheckLimit, CheckLimitWhen,
              DropBatch, GoOn, Unlock, trackVars
<1>4. CASE TimerFires \/ TimerFlushes \/ Rearm \/ StopStep
  <2>1. /\ handler' = handler /\ inserts' = inserts /\ stored' = stored /\ failed' = failed
        /\ metrics' = metrics
        /\ \/ buffer' = buffer /\ batch' = batch
           \/ lock = "free" /\ batch' = buffer /\ buffer' = {}
    BY <1>4 DEF TimerFires, TimerFlushes, Rearm, RearmAs, Cut, queueVars, flushVars, trackVars,
                StopStep, CloseShutdownCh, StopProceeds, StopFlushes, StopTimer, CloseSession,
                WaiterSignals, SelectDone, SelectTimeout, ClosePool, Exit
  <2>2. Held' = Held
    BY <2>1 DEF Held, IInv, LockInv
  <2> QED BY <1>d, <1>e, <2>1, <2>2 DEF Means, Idles
<1>5. ASSUME NEW i \in inserts, InsertStep(i) PROVE Means
  <2>1. /\ handler' = handler /\ Held' = Held
    BY <1>5 DEF InsertStep, queueVars, flushVars, Held
  <2>2. CASE i.at = "exiting" /\ inserts' = inserts \ {i} /\ UNCHANGED <<stored, failed, metrics>>
    <3>1. Committed' = Committed /\ Batches(Undecided)' = Batches(Undecided)
      BY <2>2, ExitBatches DEF Committed, Undecided
    <3>2. InFlight' = InFlight
      BY <3>1, InFlightBatches, InFlightBatchesNext
    <3> QED BY <1>d, <2>1, <2>2, <3>1, <3>2 DEF Means, Idles
  <2>3. ASSUME NEW place \in InserterAt, Move(i, place),
               \/ InsertQuiet(i, place) \/ InsertCounts(i, place)
               \/ InsertGivesUp(i, place) \/ InsertStores(i, place)
        PROVE  Means
    <3>1. /\ Batches(Undecided)' = IF place \in Undecided THEN Batches(Undecided) \cup i.batch
                                   ELSE Batches(Undecided) \ i.batch
          /\ i.at \in Undecided => i.batch \subseteq Batches(Undecided)
          /\ i.at \notin Undecided => i.batch \cap Batches(Undecided) = {}
      BY <2>3, MoveBatches
    <3>2. /\ Committed' = IF place = "committed" THEN Committed \cup i.batch
                          ELSE Committed \ i.batch
          /\ i.at = "committed" => i.batch \subseteq Committed
          /\ i.at # "committed" => i.batch \cap Committed = {}
      <4>1. /\ Batches({"committed"})' = IF place \in {"committed"}
                                         THEN Batches({"committed"}) \cup i.batch
                                         ELSE Batches({"committed"}) \ i.batch
            /\ i.at \in {"committed"} => i.batch \subseteq Batches({"committed"})
            /\ i.at \notin {"committed"} => i.batch \cap Batches({"committed"}) = {}
        BY <2>3, MoveBatches
      <4> QED BY <4>1 DEF Committed
    <3>3. InFlight = Batches(Undecided) /\ InFlight' = Batches(Undecided)'
      BY InFlightBatches, InFlightBatchesNext
    <3>4. i.batch \subseteq Msgs /\ i.batch # {} /\ Ledger!Pending = {m \in Msgs : Outcome[m] = "pending"}
      BY DEF IInv, TypeOK, Owned, Ledger!Pending
    <3>5. CASE InsertQuiet(i, place)
      <4>1. InFlight' = InFlight /\ Committed' = Committed
        BY <3>1, <3>2, <3>3, <3>5 DEF InsertQuiet
      <4> QED BY <1>d, <2>1, <3>5, <4>1 DEF Means, Idles, InsertQuiet
    <3>6. CASE InsertCounts(i, place)
      <4>1. InFlight' = InFlight /\ i.batch \subseteq Committed /\ Committed' = Committed \ i.batch
        BY <3>1, <3>2, <3>3, <3>6 DEF InsertCounts, Undecided
      <4>2. Outcome' = Outcome /\ stored' = stored
        BY <1>d, <2>1, <3>6, <4>1 DEF InsertCounts
      <4>3. Counts(i)
        BY <3>6, <4>1, <4>2 DEF Counts, InsertCounts
      <4> QED BY <3>4, <4>3 DEF Means
    <3>7. ASSUME i.at \in Undecided, place \notin Undecided
          PROVE  /\ \A m \in i.batch : Outcome[m] = "pending"
                 /\ InFlight' = InFlight \ i.batch
      BY <1>a, <3>1, <3>3, <3>4, <3>7 DEF OutcomeExplained
    <3>8. ASSUME i.at \in Undecided, place \notin Undecided,
                 stored' \in {stored, stored \cup i.batch}, failed' \in {failed, failed \cup i.batch},
                 NEW m \in Msgs \ i.batch
          PROVE  Outcome'[m] = Outcome[m]
      <4>1. m \in buffer' \cup batch' \cup InFlight' <=> m \in buffer \cup batch \cup InFlight
        BY <2>1, <3>7, <3>8 DEF Held
      <4>2. (m \in stored' <=> m \in stored) /\ (m \in failed' <=> m \in failed)
        BY <3>8
      <4> QED BY <2>1, <4>1, <4>2 DEF Outcome
    <3>9. CASE InsertGivesUp(i, place)
      <4>1. \A m \in i.batch : Outcome'[m] = "failed"
        BY <1>a, <3>4, <3>9 DEF OutcomeExplained, InsertGivesUp
      <4>2. Decided(i.batch, "failed")
        BY <1>b, <3>4, <3>7, <3>8, <3>9, <4>1 DEF Decided, InsertGivesUp, Ledger!Outcomes
      <4>3. Committed' = Committed
        BY <3>2, <3>9 DEF InsertGivesUp, Undecided
      <4>4. GivesUp(i)
        BY <3>9, <4>2, <4>3 DEF GivesUp, InsertGivesUp
      <4> QED BY <3>4, <4>4 DEF Means
    <3>10. CASE InsertStores(i, place)
      <4>1. i.at \in Undecided /\ place \notin Undecided /\ i.at # "committed"
        BY <3>10 DEF InsertStores, Undecided
      <4>2. \A m \in i.batch : m \in stored' \ failed'
        BY <3>10, <4>1 DEF InsertStores, Settled
      <4>3. \A m \in i.batch : Outcome'[m] = "stored"
        BY <1>a, <3>4, <4>2 DEF OutcomeExplained
      <4>4. Decided(i.batch, "stored")
        BY <1>b, <3>4, <3>7, <3>8, <3>10, <4>1, <4>3 DEF Decided, InsertStores, Ledger!Outcomes
      <4>5. i.batch \cap Committed = {} /\ Committed' = Committed \cup i.batch
        BY <3>2, <3>10, <4>1 DEF InsertStores
      <4>6. Stores(i)
        BY <3>10, <4>4, <4>5 DEF Stores, InsertStores
      <4> QED BY <3>4, <4>6 DEF Means
    <3> QED BY <2>3, <3>5, <3>6, <3>9, <3>10
  <2> QED BY <1>5, <2>2, <2>3, InsertEffect
<1>6. CASE RefreshStep \/ ResetTimeoutElapses \/ Exited \/ UNCHANGED vars
  <2>1. /\ handler' = handler /\ Held' = Held /\ inserts' = inserts
        /\ stored' = stored /\ failed' = failed /\ metrics' = metrics
    BY <1>6 DEF RefreshStep, ResetTimeoutElapses, Exited, vars, queueVars, flushVars, trackVars, Held
  <2> QED BY <1>d, <1>e, <2>1 DEF Means, Idles
<1> QED BY <1>1, <1>2, <1>3, <1>4, <1>5, <1>6 DEF Next
-----------------------------------------------------------------------------
\* Nothing has become of any message at first.
LEMMA InitSettled == Init => Settled /\ OutcomeExplained /\ \A m \in Msgs : Outcome[m] = "none"
<1> SUFFICES ASSUME Init PROVE Settled /\ OutcomeExplained /\ \A m \in Msgs : Outcome[m] = "none"
  OBVIOUS
<1>1. Settled
  BY DEF Init, Settled, Held
<1>2. OutcomeExplained
  BY <1>1, InitIInv, OutcomeCases
<1>3. \A m \in Msgs : handler[m] = "none"
  BY DEF Init
<1> QED BY <1>1, <1>2, <1>3 DEF OutcomeExplained

\* The database is where Settled says in every reachable state.
LEMMA SettledHolds == Spec => []Settled
<1> QED BY InitSettled, StepSettled, IInvHolds, PTL DEF Spec

\* Every step of the pipeline is a step of the ledger or changes nothing in it.
LEMMA MeansLedgerStep == Means => [Ledger!LedgerNext]_(Ledger!ledgerVars)
<1> SUFFICES ASSUME Means PROVE Ledger!LedgerNext \/ UNCHANGED Ledger!ledgerVars
  OBVIOUS
<1>1. CASE Idles
  BY <1>1 DEF Idles, Ledger!ledgerVars
<1>2. ASSUME NEW m \in Msgs, NEW result \in {"pending", "refused"}, Takes(m, result)
      PROVE  Ledger!LedgerNext
  <2>1. Ledger!Decide({m}, result)
    BY <1>2 DEF Takes, Ledger!Decide
  <2> QED BY <1>2, <2>1 DEF Takes, Ledger!LedgerTake, Ledger!LedgerNext
<1>3. CASE Drops
  BY <1>3 DEF Drops, Decided, Ledger!LedgerDrop, Ledger!Decide, Ledger!LedgerNext
<1>4. ASSUME NEW i \in inserts, i.batch # {}, Counts(i) \/ GivesUp(i) \/ Stores(i)
      PROVE  Ledger!LedgerNext \/ UNCHANGED Ledger!ledgerVars
  <2>1. CASE Counts(i)
    BY <2>1 DEF Counts, Ledger!ledgerVars
  <2>2. CASE GivesUp(i)
    <3>1. Ledger!LedgerGiveUp(i.batch) /\ i.batch \in SUBSET Ledger!Pending
      BY <1>4, <2>2 DEF GivesUp, Decided, Ledger!LedgerGiveUp, Ledger!Decide
    <3> QED BY <3>1 DEF Ledger!LedgerNext
  <2>3. CASE Stores(i)
    <3>1. Ledger!LedgerStore(i.batch) /\ i.batch \in SUBSET Ledger!Pending
      BY <1>4, <2>3 DEF Stores, Decided, Ledger!LedgerStore, Ledger!Decide
    <3> QED BY <3>1 DEF Ledger!LedgerNext
  <2> QED BY <1>4, <2>1, <2>2, <2>3
<1> QED BY <1>1, <1>2, <1>3, <1>4 DEF Means

\* The pipeline implements the ledger: no message is decided twice, put into two batches,
\* or stored after it was dropped, and a batch is decided as a whole.
THEOREM LedgerKept == Spec => KeepsLedger
<1>1. Init => Ledger!LedgerInit
  <2> SUFFICES ASSUME Init PROVE Ledger!LedgerInit
    OBVIOUS
  <2>1. Outcome = [m \in Msgs |-> "none"]
    BY InitSettled DEF OutcomeExplained
  <2> QED BY <2>1 DEF Init, Ledger!LedgerInit
<1>2. IInv /\ Settled /\ IInv' /\ Settled' /\ [Next]_vars => [Ledger!LedgerNext]_(Ledger!ledgerVars)
  BY StepMeans, MeansLedgerStep
<1> QED BY <1>1, <1>2, IInvHolds, SettledHolds, PTL DEF Spec, KeepsLedger, Ledger!LedgerSpec

\* A message counted as stored has its row, and a dropped, refused or pending one has
\* none (insertBatchInternal, flushLocked).
THEOREM RowsCorrect == Spec => []Ledger!RowsMatchOutcomes
<1>1. IInv /\ Settled => Ledger!RowsMatchOutcomes
  <2> SUFFICES ASSUME IInv, Settled PROVE Ledger!RowsMatchOutcomes
    OBVIOUS
  <2>1. OutcomeExplained /\ stored \subseteq Msgs
    BY OutcomeCases DEF IInv, TypeOK
  <2> QED BY <2>1 DEF OutcomeExplained, Ledger!RowsMatchOutcomes
<1> QED BY <1>1, IInvHolds, SettledHolds, PTL
-----------------------------------------------------------------------------
\* Two sets of messages without a common one.
LEMMA SizeOfUnion ==
  ASSUME NEW S \in SUBSET Msgs, NEW T \in SUBSET Msgs
  PROVE  /\ Cardinality(S) \in Nat
         /\ S \cap T = {} => Cardinality(S \cup T) = Cardinality(S) + Cardinality(T)
         /\ T \subseteq S => Cardinality(S) = Cardinality(S \ T) + Cardinality(T)
<1>1. IsFiniteSet(S) /\ IsFiniteSet(T) /\ Cardinality(S) \in Nat /\ Cardinality(T) \in Nat
  BY PipelineAssumption, FS_Subset, FS_CardinalityType
<1>2. ASSUME S \cap T = {} PROVE Cardinality(S \cup T) = Cardinality(S) + Cardinality(T)
  <2>1. Cardinality(S \cup T) = Cardinality(S) + Cardinality(T) - Cardinality(S \cap T)
    BY <1>1, FS_Union
  <2>2. Cardinality(S \cap T) = 0
    BY <1>2, FS_EmptySet
  <2> QED BY <1>1, <2>1, <2>2
<1>3. ASSUME T \subseteq S PROVE Cardinality(S) = Cardinality(S \ T) + Cardinality(T)
  <2>1. S \cap T = T
    BY <1>3
  <2>2. Cardinality(S \ T) = Cardinality(S) - Cardinality(T)
    BY <1>1, <2>1, FS_Difference
  <2> QED BY <1>1, <2>2
<1> QED BY <1>1, <1>2, <1>3

\* The counters follow each meaning.
LEMMA StepAccount ==
  ASSUME IInv, Settled, MetricsAccount, Means, IInv'
  PROVE  MetricsAccount'
<1> USE DEF IInv, TypeOK
<1>1. /\ metrics.received = Cardinality(Msgs \ With("none"))
      /\ metrics.dropped = Cardinality(With("dropped"))
      /\ metrics.processed + Cardinality(Committed) = Cardinality(With("stored"))
  BY DEF MetricsAccount, Committed, Batches
<1>2. ASSUME /\ metrics'.received = Cardinality(Msgs \ With("none")')
             /\ metrics'.dropped = Cardinality(With("dropped")')
             /\ metrics'.processed + Cardinality(Committed') = Cardinality(With("stored")')
      PROVE  MetricsAccount'
  BY <1>2 DEF MetricsAccount, Committed, Batches
<1>3. /\ metrics \in Metrics
      /\ \A result : With(result) = {m \in Msgs : Outcome[m] = result}
      /\ \A result : With(result)' = {m \in Msgs : Outcome'[m] = result}
      /\ Committed \subseteq Msgs
  BY DEF With, Committed, Batches, At
<1>4. CASE Idles
  <2>1. With("none")' = With("none") /\ With("dropped")' = With("dropped") /\ With("stored")' = With("stored")
    BY <1>3, <1>4 DEF Idles
  <2> QED BY <1>1, <1>2, <1>4, <2>1 DEF Idles
<1>5. ASSUME NEW m \in Msgs, NEW result \in {"pending", "refused"}, Takes(m, result)
      PROVE  MetricsAccount'
  <2>1. /\ Outcome[m] = "none" /\ Outcome'[m] = result
        /\ \A k \in Msgs \ {m} : Outcome'[k] = Outcome[k]
    BY <1>5 DEF Takes
  <2>2. With("dropped")' = With("dropped") /\ With("stored")' = With("stored")
    BY <1>3, <2>1
  <2>3. Msgs \ With("none")' = (Msgs \ With("none")) \cup {m} /\ m \notin Msgs \ With("none")
    BY <1>3, <2>1
  <2>4. Cardinality(Msgs \ With("none")') = Cardinality(Msgs \ With("none")) + 1
    <3> DEFINE S == Msgs \ With("none")
    <3>1. IsFiniteSet(S)
      BY PipelineAssumption, FS_Subset
    <3>2. Msgs \ With("none")' = S \cup {m} /\ m \notin S
      BY <2>3
    <3> HIDE DEF S
    <3>3. Cardinality(S \cup {m}) = Cardinality(S) + 1
      BY <3>1, <3>2, FS_AddElement
    <3> QED BY <3>2, <3>3 DEF S
  <2> QED BY <1>1, <1>2, <1>5, <2>2, <2>4 DEF Takes
<1>6. CASE Drops
  <2>1. /\ batch \subseteq Msgs
        /\ \A m \in batch : Outcome[m] = "pending" /\ Outcome'[m] = "dropped"
        /\ \A m \in Msgs \ batch : Outcome'[m] = Outcome[m]
    BY <1>6 DEF Drops, Decided, Ledger!Pending
  <2>2. With("none")' = With("none") /\ With("stored")' = With("stored")
    <3>1. \A m \in Msgs : /\ Outcome'[m] = "none" <=> Outcome[m] = "none"
                          /\ Outcome'[m] = "stored" <=> Outcome[m] = "stored"
      BY <2>1
    <3> QED BY <1>3, <3>1
  <2>3. With("dropped")' = With("dropped") \cup batch /\ With("dropped") \cap batch = {}
    BY <1>3, <2>1
  <2>4. Cardinality(With("dropped")') = Cardinality(With("dropped")) + Cardinality(batch)
    <3>1. With("dropped") \in SUBSET Msgs /\ batch \in SUBSET Msgs
      BY <1>3, <2>1
    <3>2. Cardinality(With("dropped") \cup batch) = Cardinality(With("dropped")) + Cardinality(batch)
      BY <2>3, <3>1, SizeOfUnion
    <3> QED BY <2>3, <3>2
  <2>5. /\ metrics'.received = metrics.received /\ metrics'.processed = metrics.processed
        /\ metrics'.dropped = metrics.dropped + Cardinality(batch)
    BY <1>3, <1>6 DEF Drops, Count, Metrics
  <2> QED BY <1>1, <1>2, <1>6, <2>2, <2>4, <2>5 DEF Drops
<1>7. ASSUME NEW i \in inserts, i.batch # {}, Counts(i) PROVE MetricsAccount'
  <2>1. With("none")' = With("none") /\ With("dropped")' = With("dropped") /\ With("stored")' = With("stored")
    BY <1>3, <1>7 DEF Counts
  <2>2. i.batch \subseteq Committed /\ Committed' = Committed \ i.batch
    BY <1>7 DEF Counts
  <2>3. /\ Cardinality(Committed) = Cardinality(Committed') + Cardinality(i.batch)
        /\ Cardinality(Committed) \in Nat
    BY <1>3, <2>2, SizeOfUnion
  <2>4. Cardinality(i.batch) \in Nat /\ Cardinality(Committed') \in Nat
    BY <1>3, <2>2, SizeOfUnion
  <2>5. /\ metrics'.received = metrics.received /\ metrics'.dropped = metrics.dropped
        /\ metrics'.processed = metrics.processed + Cardinality(i.batch)
        /\ metrics.processed \in Nat
    BY <1>3, <1>7 DEF Counts, Count, Metrics
  <2>6. metrics'.processed + Cardinality(Committed') = metrics.processed + Cardinality(Committed)
    BY <2>3, <2>4, <2>5
  <2> QED BY <1>1, <1>2, <2>1, <2>5, <2>6
<1>8. ASSUME NEW i \in inserts, i.batch # {}, GivesUp(i) PROVE MetricsAccount'
  <2>1. /\ i.batch \subseteq Msgs
        /\ \A m \in i.batch : Outcome[m] = "pending" /\ Outcome'[m] = "failed"
        /\ \A m \in Msgs \ i.batch : Outcome'[m] = Outcome[m]
    BY <1>8 DEF GivesUp, Decided, Ledger!Pending
  <2>2. With("none")' = With("none") /\ With("dropped")' = With("dropped") /\ With("stored")' = With("stored")
    BY <1>3, <2>1
  <2> QED BY <1>1, <1>2, <1>8, <2>2 DEF GivesUp
<1>9. ASSUME NEW i \in inserts, i.batch # {}, Stores(i) PROVE MetricsAccount'
  <2>1. /\ i.batch \subseteq Msgs
        /\ \A m \in i.batch : Outcome[m] = "pending" /\ Outcome'[m] = "stored"
        /\ \A m \in Msgs \ i.batch : Outcome'[m] = Outcome[m]
    BY <1>9 DEF Stores, Decided, Ledger!Pending
  <2>2. With("none")' = With("none") /\ With("dropped")' = With("dropped")
    BY <1>3, <2>1
  <2>3. With("stored")' = With("stored") \cup i.batch /\ With("stored") \cap i.batch = {}
    BY <1>3, <2>1
  <2>4. Cardinality(With("stored")') = Cardinality(With("stored")) + Cardinality(i.batch)
    <3>1. With("stored") \in SUBSET Msgs /\ i.batch \in SUBSET Msgs
      BY <1>3, <2>1
    <3>2. Cardinality(With("stored") \cup i.batch) = Cardinality(With("stored")) + Cardinality(i.batch)
      BY <2>3, <3>1, SizeOfUnion
    <3> QED BY <2>3, <3>2
  <2>5. Cardinality(Committed') = Cardinality(Committed) + Cardinality(i.batch)
    BY <1>3, <1>9, <2>1, SizeOfUnion DEF Stores
  <2>6. /\ Cardinality(Committed) \in Nat /\ Cardinality(i.batch) \in Nat
        /\ metrics.processed \in Nat /\ metrics' = metrics
    BY <1>3, <1>9, <2>1, SizeOfUnion DEF Stores, Metrics
  <2>7. metrics'.processed + Cardinality(Committed') = Cardinality(With("stored")')
    BY <1>1, <2>4, <2>5, <2>6
  <2> QED BY <1>1, <1>2, <2>2, <2>6, <2>7
<1> HIDE DEF IInv, TypeOK
<1>10. CASE \E i \in inserts : i.batch # {} /\ (Counts(i) \/ GivesUp(i) \/ Stores(i))
  BY <1>7, <1>8, <1>9, <1>10
<1> QED BY <1>4, <1>5, <1>6, <1>10 DEF Means

\* The counters account for every message once, for any number of them.
THEOREM MetricsCorrect == Spec => []MetricsAccount
<1>1. Init => MetricsAccount
  <2> SUFFICES ASSUME Init PROVE MetricsAccount
    OBVIOUS
  <2>1. /\ metrics.received = 0 /\ metrics.dropped = 0 /\ metrics.processed = 0
        /\ inserts = {}
    BY DEF Init
  <2>2. \A m \in Msgs : Outcome[m] = "none"
    BY InitSettled
  <2>3. Msgs \ With("none") = {} /\ With("dropped") = {} /\ With("stored") = {}
    BY <2>2 DEF With
  <2>4. UNION {i.batch : i \in At({"committed"})} = {}
    BY <2>1 DEF At
  <2>5. Cardinality({}) = 0
    BY FS_EmptySet
  <2>6. /\ metrics.received = Cardinality(Msgs \ With("none"))
        /\ metrics.dropped = Cardinality(With("dropped"))
    BY <2>1, <2>3, <2>5
  <2>7. metrics.processed + Cardinality(UNION {i.batch : i \in At({"committed"})})
           = Cardinality(With("stored"))
    <3> DEFINE C == UNION {i.batch : i \in At({"committed"})}
    <3>1. C = {}
      BY <2>4
    <3> HIDE DEF C
    <3>2. metrics.processed + Cardinality(C) = Cardinality(With("stored"))
      BY <2>1, <2>3, <2>5, <3>1
    <3> QED BY <3>2 DEF C
  <2> QED BY <2>6, <2>7 DEF MetricsAccount
<1>2. IInv /\ Settled /\ MetricsAccount /\ IInv' /\ Settled' /\ [Next]_vars => MetricsAccount'
  BY StepMeans, StepAccount
<1> QED BY <1>1, <1>2, IInvHolds, SettledHolds, PTL DEF Spec
-----------------------------------------------------------------------------
(***************************************************************************)
(* What follows for a single message, and for a batch.                     *)
(***************************************************************************)

\* A message goes from none to refused or pending, from pending to one of the three
\* decisions, and nowhere from there; a row that has been written stays.
DecisionsStand ==
    [][/\ \A m \in Msgs :
             /\ Outcome[m] \in {"refused", "stored", "dropped", "failed"} => Outcome'[m] = Outcome[m]
             /\ Outcome[m] = "pending" => Outcome'[m] \in {"pending", "stored", "dropped", "failed"}
             /\ Outcome[m] = "none" => Outcome'[m] \in {"none", "refused", "pending"}
       /\ stored \subseteq stored']_vars

\* The outcome of a message is final: this is what the ledger is for, and it follows
\* from the ledger alone (messageCreate, flushLocked, insertBatch).
THEOREM DecisionsAreFinal == Spec => DecisionsStand
<1> DEFINE Stands == \A m \in Msgs :
             /\ Outcome[m] \in {"refused", "stored", "dropped", "failed"} => Outcome'[m] = Outcome[m]
             /\ Outcome[m] = "pending" => Outcome'[m] \in {"pending", "stored", "dropped", "failed"}
             /\ Outcome[m] = "none" => Outcome'[m] \in {"none", "refused", "pending"}
<1>1. ASSUME OutcomeExplained, [Ledger!LedgerNext]_(Ledger!ledgerVars)
      PROVE  Stands /\ stored \subseteq stored'
  <2>1. ASSUME NEW m \in Msgs, Ledger!LedgerTake(m) PROVE Stands /\ stored \subseteq stored'
    <3>1. PICK result \in {"pending", "refused"} : Ledger!Decide({m}, result)
      BY <2>1 DEF Ledger!LedgerTake
    <3>2. \A k \in Msgs : Outcome'[k] = IF k = m THEN result ELSE Outcome[k]
      BY <3>1 DEF Ledger!Decide
    <3> QED BY <2>1, <3>2 DEF Ledger!LedgerTake
  <2>2. ASSUME NEW B \in SUBSET Ledger!Pending,
               Ledger!LedgerStore(B) \/ Ledger!LedgerDrop(B) \/ Ledger!LedgerGiveUp(B)
        PROVE  Stands /\ stored \subseteq stored'
    <3>1. PICK result \in {"stored", "dropped", "failed"} : Ledger!Decide(B, result)
      BY <2>2 DEF Ledger!LedgerStore, Ledger!LedgerDrop, Ledger!LedgerGiveUp
    <3>2. \A k \in Msgs : Outcome'[k] = IF k \in B THEN result ELSE Outcome[k]
      BY <3>1 DEF Ledger!Decide
    <3>3. \A k \in B : k \in Msgs /\ Outcome[k] = "pending"
      BY DEF Ledger!Pending
    <3>4. stored \subseteq stored'
      BY <2>2 DEF Ledger!LedgerStore, Ledger!LedgerDrop, Ledger!LedgerGiveUp
    <3> QED BY <3>2, <3>3, <3>4
  <2>3. CASE UNCHANGED Ledger!ledgerVars
    BY <1>1, <2>3 DEF OutcomeExplained, Ledger!Outcomes, Ledger!ledgerVars
  <2> QED BY <1>1, <2>1, <2>2, <2>3 DEF Ledger!LedgerNext
<1>2. IInv /\ Settled /\ IInv' /\ Settled' /\ [Next]_vars => Stands /\ stored \subseteq stored'
  BY <1>1, StepMeans, MeansLedgerStep, OutcomeCases
<1> QED BY <1>2, IInvHolds, SettledHolds, PTL DEF Spec, DecisionsStand

\* Where the database has got with the batches of the inserters whose call is over.
Ended ==
    \A i \in inserts :
        /\ i.at = "failed" => i.batch \subseteq failed
        /\ i.at \in {"done", "exiting"} => i.batch \subseteq failed \/ i.batch \subseteq stored \ failed

\* A batch has one outcome: what is in the buffer or with the flusher is pending, and
\* the messages an inserter was given have been decided together or not at all.
BatchesWhole ==
    /\ \A m \in Held : Outcome[m] = "pending"
    /\ \A i \in inserts :
          \E result \in {"pending", "stored", "failed"} : \A m \in i.batch : Outcome[m] = result

\* What an inserter's step does to its batch when its call to the database is over or
\* ends with the step.
LEMMA InsertEnds ==
  ASSUME IInv, Settled, Ended, NEW i \in inserts, InsertStep(i), i.at # "exiting"
  PROVE  \E place \in InserterAt :
            /\ Move(i, place)
            /\ place = "failed" => i.batch \subseteq failed'
            /\ place \in {"done", "exiting"} =>
                  i.batch \subseteq failed' \/ i.batch \subseteq stored' \ failed'
<1> USE DEF InserterAt
<1>1. CASE InsertReadsBreaker(i)
  BY <1>1 DEF InsertReadsBreaker
<1>2. CASE InsertTestsTimeout(i)
  BY <1>2 DEF InsertTestsTimeout, TestTimeoutReleasing
<1>3. CASE Begin(i) \/ InsertMessages(i) \/ Commit(i) \/ CommitFails(i) \/ CountProcessed(i)
  BY <1>3 DEF Begin, InsertMessages, Commit, CommitFails, CountProcessed
<1>4. CASE RecordResult(i)
  BY <1>4 DEF RecordResult, Settled, Ended
<1>5. CASE ReleaseSlot(i)
  BY <1>5 DEF ReleaseSlot, Ended
<1>6. CASE InsertExits(i)
  BY <1>6 DEF InsertExits
<1> QED BY <1>1, <1>2, <1>3, <1>4, <1>5, <1>6 DEF InsertStep

\* Only inserters write rows, and only those of their own batch.
LEMMA StepEnded == IInv /\ Settled /\ Ended /\ [Next]_vars => Ended'
<1> SUFFICES ASSUME IInv, Settled, Ended, [Next]_vars PROVE Ended'
  OBVIOUS
<1>1. ASSUME NEW i \in inserts, InsertStep(i) PROVE Ended'
  <2>1. CASE i.at = "exiting"
    <3>1. inserts' = inserts \ {i} /\ UNCHANGED <<stored, failed>>
      BY <1>1, <2>1, InsertEffect DEF InsertQuiet, InsertCounts, InsertGivesUp, InsertStores,
         InsertStep, InsertReadsBreaker, InsertTestsTimeout, TestTimeoutReleasing, Begin,
         InsertMessages, Commit, CommitFails, CountProcessed, RecordResult, ReleaseSlot, InsertExits
    <3> QED BY <3>1 DEF Ended
  <2>2. CASE i.at # "exiting"
    <3>1. PICK place \in InserterAt :
             /\ Move(i, place)
             /\ place = "failed" => i.batch \subseteq failed'
             /\ place \in {"done", "exiting"} =>
                   i.batch \subseteq failed' \/ i.batch \subseteq stored' \ failed'
      BY <1>1, <2>2, InsertEnds
    <3> DEFINE moved == [i EXCEPT !.at = place]
    <3>2. /\ moved.batch = i.batch /\ moved.at = place
          /\ inserts' = (inserts \ {i}) \cup {moved}
      BY <3>1, MovedApart DEF Move, IInv
    <3> HIDE DEF moved
    <3>3. \A j \in inserts \ {i} : i.batch \cap j.batch = {}
      BY DEF IInv, Owned
    <3>4. /\ stored \subseteq stored' /\ stored' \subseteq stored \cup i.batch
          /\ failed \subseteq failed' /\ failed' \subseteq failed \cup i.batch
      BY <1>1, <2>2, InsertEffect DEF InsertQuiet, InsertCounts, InsertGivesUp, InsertStores
    <3>5. ASSUME NEW j \in inserts \ {i}
          PROVE  /\ j.at = "failed" => j.batch \subseteq failed'
                 /\ j.at \in {"done", "exiting"} =>
                       j.batch \subseteq failed' \/ j.batch \subseteq stored' \ failed'
      BY <3>3, <3>4 DEF Ended
    <3> QED BY <3>1, <3>2, <3>5 DEF Ended
  <2> QED BY <2>1, <2>2
<1>2. CASE ~(\E i \in inserts : InsertStep(i))
  <2>1. CASE Spawn
    <3> DEFINE new == [batch |-> batch, at |-> "entered"]
    <3>1. inserts' = inserts \cup {new} /\ new.at = "entered" /\ UNCHANGED <<stored, failed>>
      BY <1>2, <2>1 DEF Spawn, Next, Flush, vars, CheckShutdown, CheckBreaker, CheckTimeout,
             CheckLimit, CheckLimitWhen, GoOn, DropBatch, Unlock, Refuse, Accept, AppendMessage,
             AppendWhen, TimerFires, TimerFlushes, Rearm, RearmAs, RefreshStep, StopStep,
             ResetTimeoutElapses, Exited
    <3> HIDE DEF new
    <3> QED BY <3>1 DEF Ended
  <2>2. CASE ~Spawn
    <3>1. UNCHANGED <<inserts, stored, failed>>
      BY <1>2, <2>2
      DEF Next, Refuse, Accept, AppendMessage, AppendWhen, Flush, CheckShutdown,
          CheckBreaker, CheckTimeout, CheckLimit, CheckLimitWhen, DropBatch, GoOn,
          TimerFires, TimerFlushes, Rearm, RearmAs, RefreshStep, StopStep,
          ResetTimeoutElapses, Exited, vars, trackVars
    <3> QED BY <3>1 DEF Ended
  <2> QED BY <2>1, <2>2
<1> QED BY <1>1, <1>2

\* A batch is never divided: none of its messages is stored while another is dropped or
\* given up, whatever the database, the breaker and the timeouts do (insertBatchInternal).
THEOREM BatchesStayWhole == Spec => []BatchesWhole
<1>1. Init => Ended
  BY DEF Init, Ended
<1>2. IInv /\ Settled /\ Ended => BatchesWhole
  <2> SUFFICES ASSUME IInv, Settled, Ended PROVE BatchesWhole
    OBVIOUS
  <2>1. OutcomeExplained
    BY OutcomeCases
  <2>2. Held \subseteq Msgs /\ \A i \in inserts : i.batch \subseteq Msgs /\ i.at \in InserterAt
    BY DEF IInv, TypeOK, Held
  <2>3. ASSUME NEW i \in inserts
        PROVE  \E result \in {"pending", "stored", "failed"} : \A m \in i.batch : Outcome[m] = result
    <3>1. CASE i.at \in Undecided
      <4>1. i.batch \subseteq InFlight
        BY <3>1 DEF InFlight
      <4> QED BY <2>1, <2>2, <4>1 DEF OutcomeExplained
    <3>2. CASE i.batch \subseteq failed
      BY <2>1, <2>2, <3>2 DEF OutcomeExplained
    <3>3. CASE i.batch \subseteq stored \ failed
      BY <2>1, <2>2, <3>3 DEF OutcomeExplained
    <3> QED BY <2>2, <3>1, <3>2, <3>3 DEF Settled, Ended, InserterAt, Undecided
  <2> QED BY <2>1, <2>2, <2>3 DEF OutcomeExplained, BatchesWhole
<1> QED BY <1>1, <1>2, StepEnded, IInvHolds, SettledHolds, PTL DEF Spec
-----------------------------------------------------------------------------
(***************************************************************************)
(* The backlog.                                                            *)
(***************************************************************************)

\* A non-empty set with at most n elements can be numbered with 1..n, if numbers may
\* share an element.
LEMMA Numbering ==
  ASSUME NEW S, IsFiniteSet(S), S # {}, NEW n \in Nat, Cardinality(S) <= n
  PROVE  ExistsSurjection(1..n, S)
<1> DEFINE c == Cardinality(S)
<1>1. c \in Nat /\ ExistsBijection(1..c, S) /\ c <= n
  BY FS_CardinalityType
<1> HIDE DEF c
<1>2. PICK f \in [1..c -> S] : \A x \in S : \E k \in 1..c : f[k] = x
  BY <1>1 DEF ExistsBijection, Bijection, Surjection
<1>3. PICK e \in S : TRUE
  OBVIOUS
<1> DEFINE g == [k \in 1..n |-> IF k \in 1..c THEN f[k] ELSE e]
<1>4. g \in [1..n -> S]
  BY <1>2, <1>3
<1>5. ASSUME NEW x \in S PROVE \E k \in 1..n : g[k] = x
  <2>1. PICK k \in 1..c : f[k] = x
    BY <1>2
  <2>2. k \in 1..n
    BY <1>1
  <2> QED BY <2>1, <2>2
<1> HIDE DEF g
<1> QED BY <1>4, <1>5 DEF ExistsSurjection, Surjection

\* Sets with at most n elements each have together at most n for each of them.
LEMMA UnionBound ==
  ASSUME NEW I, IsFiniteSet(I), NEW b, NEW n \in Nat,
         \A i \in I : IsFiniteSet(b[i]) /\ b[i] # {} /\ Cardinality(b[i]) <= n
  PROVE  /\ IsFiniteSet(UNION {b[i] : i \in I})
         /\ Cardinality(UNION {b[i] : i \in I}) <= Cardinality(I) * n
<1> DEFINE all == UNION {b[i] : i \in I}
           pairs == I \X (1..n)
           number == [i \in I |-> CHOOSE f : f \in Surjection(1..n, b[i])]
           element == [p \in pairs |-> number[p[1]][p[2]]]
<1>1. \A i \in I : number[i] \in Surjection(1..n, b[i])
  BY Numbering DEF ExistsSurjection
<1> HIDE DEF number
<1>2. \A i \in I : /\ \A k \in 1..n : number[i][k] \in b[i]
                   /\ \A x \in b[i] : \E k \in 1..n : number[i][k] = x
  BY <1>1 DEF Surjection
<1>3. element \in [pairs -> all]
  BY <1>2
<1>4. ASSUME NEW x \in all PROVE \E p \in pairs : element[p] = x
  <2>1. PICK i \in I : x \in b[i]
    OBVIOUS
  <2>2. PICK k \in 1..n : number[i][k] = x
    BY <1>2, <2>1
  <2>3. <<i, k>> \in pairs /\ element[<<i, k>>] = x
    BY <2>2
  <2> QED BY <2>3
<1>5. IsFiniteSet(pairs) /\ Cardinality(pairs) = Cardinality(I) * n
  <2>1. IsFiniteSet(1..n) /\ Cardinality(1..n) = n
    BY FS_Interval
  <2> QED BY <2>1, FS_Product
<1> HIDE DEF element, pairs
<1>6. element \in Surjection(pairs, all)
  BY <1>3, <1>4 DEF Surjection
<1> HIDE DEF all
<1>7. IsFiniteSet(all) /\ Cardinality(all) <= Cardinality(pairs)
  BY <1>5, <1>6, FS_Surjection
<1> QED BY <1>5, <1>7 DEF all

\* While a batch is being flushed nobody appends: the lock is held.
OneQueue == buffer = {} \/ batch = {}

\* The lock is free whenever the buffer grows or becomes a batch.
LEMMA StepOneQueue == IInv /\ OneQueue /\ [Next]_vars => OneQueue'
<1> SUFFICES ASSUME IInv, OneQueue, [Next]_vars PROVE OneQueue'
  OBVIOUS
<1>1. ASSUME NEW m \in Msgs, AppendMessage(m) PROVE OneQueue'
  BY <1>1 DEF AppendMessage, AppendWhen, Cut, flushVars, OneQueue, IInv, LockInv
<1>2. CASE Flush
  BY <1>2 DEF Flush, CheckShutdown, CheckBreaker, CheckTimeout, CheckLimit, CheckLimitWhen,
              Spawn, DropBatch, GoOn, Unlock, queueVars, OneQueue
<1>3. CASE TimerFires \/ TimerFlushes \/ Rearm \/ StopStep
  <2>1. \/ buffer' = buffer /\ batch' = batch
        \/ buffer' = {}
    BY <1>3 DEF TimerFires, TimerFlushes, Rearm, RearmAs, Cut, queueVars, flushVars, trackVars,
                StopStep, CloseShutdownCh, StopProceeds, StopFlushes, StopTimer, CloseSession,
                WaiterSignals, SelectDone, SelectTimeout, ClosePool, Exit
  <2> QED BY <2>1 DEF OneQueue
<1>4. CASE (\E i \in inserts : InsertStep(i)) \/ RefreshStep \/ ResetTimeoutElapses \/ Exited
           \/ UNCHANGED vars \/ (\E m \in Msgs : Refuse(m) \/ Accept(m))
  BY <1>4 DEF InsertStep, RefreshStep, ResetTimeoutElapses, Exited, vars, queueVars, flushVars,
              Refuse, Accept, OneQueue
<1> QED BY <1>1, <1>2, <1>3, <1>4 DEF Next

\* The undecided messages in memory are those of one batch in the buffer or with the flusher,
\* and of one batch for every slot in use: see BacklogBounded.
THEOREM BacklogStaysBounded == Spec => []BacklogBounded
<1>1. Init => OneQueue
  BY DEF Init, OneQueue
<1>2. IInv /\ Settled /\ BatchesBounded /\ OneQueue => BacklogBounded
  <2> SUFFICES ASSUME IInv, Settled, BatchesBounded, OneQueue PROVE BacklogBounded
    OBVIOUS
  <2> DEFINE workers == At(Undecided)
             live == inserts \ At({"exiting"})
             given == [i \in workers |-> i.batch]
             flight == UNION {given[i] : i \in workers}
  <2>1. Backlog \subseteq Held \cup flight
    <3>1. flight = InFlight
      BY DEF InFlight, At
    <3> QED BY <3>1, OutcomeCases DEF Backlog, OutcomeExplained, Waiting
  <2>2. IsFiniteSet(workers) /\ Cardinality(workers) \in Nat /\ Cardinality(workers) <= activeInserts
        /\ activeInserts \in Nat
    <3>1. workers \subseteq live /\ live \subseteq inserts
      BY DEF At, Undecided
    <3>2. IsFiniteSet(inserts) /\ Cardinality(live) = activeInserts
      BY DEF IInv, Counted, GoroutinesTracked, SlotsCounted
    <3> HIDE DEF workers, live
    <3>3. IsFiniteSet(live) /\ Cardinality(live) \in Nat
      BY <3>1, <3>2, FS_Subset, FS_CardinalityType
    <3>4. IsFiniteSet(workers) /\ Cardinality(workers) <= Cardinality(live) /\ Cardinality(workers) \in Nat
      BY <3>1, <3>3, FS_Subset, FS_CardinalityType
    <3> QED BY <3>2, <3>3, <3>4
  <2>3. \A i \in workers : IsFiniteSet(given[i]) /\ given[i] # {} /\ Cardinality(given[i]) <= BatchSize
    <3>1. \A i \in inserts : i.batch \subseteq Msgs /\ i.batch # {} /\ Cardinality(i.batch) <= BatchSize
      BY DEF IInv, TypeOK, Owned, BatchesBounded
    <3>2. \A i \in inserts : IsFiniteSet(i.batch)
      BY <3>1, PipelineAssumption, FS_Subset
    <3> QED BY <3>1, <3>2 DEF At
  <2>4. Held \subseteq Msgs /\ IsFiniteSet(Held) /\ Cardinality(Held) \in Nat /\ Cardinality(Held) <= BatchSize
    <3>1. Held \subseteq Msgs
      BY DEF IInv, TypeOK, Held
    <3>2. Held = buffer \/ Held = batch
      BY DEF Held, OneQueue
    <3>3. IsFiniteSet(Held) /\ Cardinality(Held) \in Nat
      BY <3>1, PipelineAssumption, FS_Subset, FS_CardinalityType
    <3> QED BY <3>1, <3>2, <3>3, PipelineAssumption DEF BatchesBounded
  <2> HIDE DEF workers, given
  <2>5. IsFiniteSet(flight) /\ Cardinality(flight) <= Cardinality(workers) * BatchSize
    BY <2>2, <2>3, UnionBound, PipelineAssumption
  <2> HIDE DEF flight
  <2>6. Cardinality(flight) \in Nat
    BY <2>5, FS_CardinalityType
  <2>7. Cardinality(Held \cup flight) <= Cardinality(Held) + Cardinality(flight)
    <3>1. Cardinality(Held \cup flight) = Cardinality(Held) + Cardinality(flight) - Cardinality(Held \cap flight)
      BY <2>4, <2>5, FS_Union
    <3>2. Cardinality(Held \cap flight) \in Nat
      BY <2>4, FS_Intersection, FS_CardinalityType
    <3> QED BY <2>4, <2>6, <3>1, <3>2
  <2>8. Cardinality(Backlog) <= Cardinality(Held \cup flight) /\ Cardinality(Backlog) \in Nat
        /\ Cardinality(Held \cup flight) \in Nat
    BY <2>1, <2>4, <2>5, FS_Union, FS_Subset, FS_CardinalityType
  <2>9. Cardinality(workers) * BatchSize + BatchSize <= BatchSize * (activeInserts + 1)
    BY <2>2, PipelineAssumption
  <2>10. Cardinality(workers) * BatchSize \in Nat /\ BatchSize * (activeInserts + 1) \in Nat /\ BatchSize \in Nat
    BY <2>2, PipelineAssumption
  <2> QED BY <2>4, <2>5, <2>6, <2>7, <2>8, <2>9, <2>10 DEF BacklogBounded
<1> QED BY <1>1, <1>2, StepOneQueue, IInvHolds, SettledHolds, BatchesStayBounded, PTL DEF Spec
=============================================================================
