-------------------------- MODULE MessagePipeline --------------------------
(***************************************************************************)
(* The message pipeline of internal/bot/bot.go, from messageCreate to the  *)
(* rows in PostgreSQL, with the flush timer, the user refresh job and      *)
(* Stop.                                                                   *)
(*                                                                         *)
(* Handlers run one goroutine per delivery.  They, the timer and Stop take *)
(* turns under bufferLock to cut a batch off the buffer and decide its     *)
(* fate; a batch that passes the checks gets an inserter goroutine of its  *)
(* own, which goes through the circuit breaker once more.  A message is    *)
(* one delivery and the buffer and the batches are sets of them: their     *)
(* order is never looked at.                                               *)
(***************************************************************************)
EXTENDS CircuitBreaker, FiniteSets

CONSTANTS
    Msgs,            \* the deliveries
    BatchSize,       \* batchSize, 100
    MaxGoroutines    \* maxGoroutines, 10

ASSUME PipelineAssumption ==
    /\ IsFiniteSet(Msgs)
    /\ BatchSize \in Nat \ {0}
    /\ MaxGoroutines \in Nat \ {0}
    /\ Msgs \cap {"free", "timer", "stop"} = {}

VARIABLES
    handler,         \* how far messageCreate is with each delivery
    metrics,         \* the message counters of pkg.Metrics
    buffer,          \* msgBuffer
    lock,            \* who holds bufferLock
    flushAt,         \* where the holder is inside flushLocked
    batch,           \* "messages" of flushLocked
    inserts,         \* the inserter goroutines, one per spawned batch
    activeInserts,
    wg,              \* the counter of the WaitGroup
    refresh,         \* the user refresh job
    timer,           \* the flush timer and its callback
    stop,            \* how far Stop, then main, has come
    stored,          \* rows of discord_messages (external)
    failed           \* history: messages of batches whose insert returned an error

queueVars == <<handler, buffer>>
flushVars == <<lock, flushAt, batch>>
trackVars == <<inserts, activeInserts, wg>>
vars == <<state, failures, halfOpenSuccess, cooled, handler, metrics, buffer, lock,
          flushAt, batch, inserts, activeInserts, wg, refresh, timer, stop, stored, failed>>

InserterAt == {"entered", "sawOpen", "admitted", "inTx", "inserted", "aborted",
               "committed", "succeeded", "failed", "done", "exiting"}
FlushAt == {"idle", "shutdown", "breaker", "timeout", "limit", "spawn"}
StopAt == {"no", "closed", "flushed", "timerStopped", "waiting", "done", "drained",
           "timedOut", "poolClosing", "exited"}
TimerAt == {"first", "armed", "fired", "flushing", "rearming", "stopped"}
Metrics == [received : Nat, rateLimited : Nat, dropped : Nat, processed : Nat]

TypeOK ==
    /\ BreakerTypeOK
    /\ handler \in [Msgs -> {"none", "refused", "waiting", "buffered"}]
    /\ metrics \in Metrics
    /\ buffer \in SUBSET Msgs
    /\ lock \in Msgs \cup {"free", "timer", "stop"}
    /\ flushAt \in FlushAt
    /\ batch \in SUBSET Msgs
    /\ inserts \in SUBSET [batch : SUBSET Msgs, at : InserterAt]
    /\ activeInserts \in Nat
    /\ wg \in Nat
    /\ refresh \in {"idle", "busy", "querying", "exited"}
    /\ timer \in TimerAt
    /\ stop \in StopAt
    /\ stored \in SUBSET Msgs
    /\ failed \in SUBSET Msgs

\* The bot as Start leaves it: connected, timer armed, refresh job running.
Init ==
    /\ BreakerInit
    /\ handler = [m \in Msgs |-> "none"]
    /\ metrics = [received |-> 0, rateLimited |-> 0, dropped |-> 0, processed |-> 0]
    /\ buffer = {}
    /\ lock = "free"
    /\ flushAt = "idle"
    /\ batch = {}
    /\ inserts = {}
    /\ activeInserts = 0
    /\ wg = 1
    /\ refresh = "idle"
    /\ timer = "first"
    /\ stop = "no"
    /\ stored = {}
    /\ failed = {}

Alive == stop # "exited"
ShuttingDown == stop # "no"                    \* shutdownCh is closed
Connected == stop \in {"no", "closed", "flushed", "timerStopped"}

Count(counter, n) == metrics' = [metrics EXCEPT ![counter] = @ + n]
-----------------------------------------------------------------------------
(***************************************************************************)
(* messageCreate.                                                          *)
(***************************************************************************)

\* Over a rate limit, or with malformed identifiers, which no counter shows.
Refuse(m) ==
    /\ Alive /\ Connected
    /\ handler[m] = "none"
    /\ handler' = [handler EXCEPT ![m] = "refused"]
    /\ \E limited \in {0, 1} :
          metrics' = [metrics EXCEPT !.received = @ + 1, !.rateLimited = @ + limited]
    /\ UNCHANGED <<breakerVars, buffer, flushVars, trackVars, refresh, timer, stop,
                   stored, failed>>

\* Past the checks: the handler starts the goroutine that records the user's activity,
\* which nothing here waits for, and goes for bufferLock.
Accept(m) ==
    /\ Alive /\ Connected
    /\ handler[m] = "none"
    /\ handler' = [handler EXCEPT ![m] = "waiting"]
    /\ Count("received", 1)
    /\ UNCHANGED <<breakerVars, buffer, flushVars, trackVars, refresh, timer, stop, stored, failed>>

\* Mutant: the buffer is copied but not reset.
CutKeepsBuffer(who, messages) ==
    /\ lock' = who
    /\ flushAt' = "shutdown"
    /\ batch' = messages
    /\ buffer' = messages

\* flushLocked begins: with the lock held, the buffer becomes the batch.
Cut(who, messages) ==
    /\ lock' = who
    /\ flushAt' = "shutdown"
    /\ batch' = messages
    /\ buffer' = {}

\* The handler appends under the lock and flushes before it lets go if "full"
\* says so of the buffer with its message in it.
AppendWhen(m, full) ==
    /\ Alive
    /\ handler[m] = "waiting"
    /\ lock = "free"
    /\ handler' = [handler EXCEPT ![m] = "buffered"]
    /\ \/ full /\ Cut(m, buffer \cup {m})
       \/ ~full /\ buffer' = buffer \cup {m} /\ UNCHANGED flushVars
    /\ UNCHANGED <<breakerVars, metrics, trackVars, refresh, timer, stop, stored, failed>>

\* Mutant: the handler appends without taking the lock, also while a batch is flushed.
AppendUnlocked(m) ==
    LET full == Cardinality(buffer \cup {m}) >= BatchSize
    IN  /\ Alive
        /\ handler[m] = "waiting"
        /\ full => lock = "free"
        /\ handler' = [handler EXCEPT ![m] = "buffered"]
        /\ \/ full /\ Cut(m, buffer \cup {m})
           \/ ~full /\ buffer' = buffer \cup {m} /\ UNCHANGED flushVars
        /\ UNCHANGED <<breakerVars, metrics, trackVars, refresh, timer, stop, stored, failed>>

\* Mutant: the flush starts one message late.
AppendFlushesLate(m) == AppendWhen(m, Cardinality(buffer \cup {m}) > BatchSize)

AppendMessage(m) == AppendWhen(m, Cardinality(buffer \cup {m}) >= BatchSize)
-----------------------------------------------------------------------------
(***************************************************************************)
(* flushLocked, run by whoever holds the lock.                             *)
(***************************************************************************)

\* Return from flushLocked and from the function that called it.
Unlock ==
    /\ lock' = "free"
    /\ flushAt' = "idle"
    /\ batch' = {}
    /\ timer' = IF lock = "timer" THEN "rearming" ELSE timer
    /\ stop' = IF lock = "stop" THEN "flushed" ELSE stop

DropBatch ==
    /\ Count("dropped", Cardinality(batch))
    /\ Unlock
    /\ UNCHANGED trackVars

GoOn(place) ==
    /\ flushAt' = place
    /\ UNCHANGED <<lock, batch, timer, stop, metrics, trackVars>>

CheckShutdown ==
    /\ Alive
    /\ flushAt = "shutdown"
    /\ IF ShuttingDown THEN DropBatch ELSE GoOn("breaker")
    /\ UNCHANGED <<breakerVars, queueVars, refresh, stored, failed>>

CheckBreaker ==
    /\ Alive
    /\ flushAt = "breaker"
    /\ GoOn(IF AdmittedByState THEN "limit" ELSE "timeout")
    /\ UNCHANGED <<breakerVars, queueVars, refresh, stored, failed>>

CheckTimeout ==
    /\ Alive
    /\ flushAt = "timeout"
    /\ TransitionToHalfOpen
    /\ IF AdmittedByTimeout THEN GoOn("limit") ELSE DropBatch
    /\ UNCHANGED <<queueVars, refresh, stored, failed>>

CheckLimitWhen(reached) ==
    /\ Alive
    /\ flushAt = "limit"
    /\ IF reached THEN DropBatch ELSE GoOn("spawn")
    /\ UNCHANGED <<breakerVars, queueVars, refresh, stored, failed>>

\* Mutant: off by one in the limit.
CheckLimitLate == CheckLimitWhen(activeInserts > MaxGoroutines)

\* Mutant: no return after the batch has been counted as dropped.
CheckLimitFallsThrough ==
    /\ Alive
    /\ flushAt = "limit"
    /\ Count("dropped", IF activeInserts >= MaxGoroutines THEN Cardinality(batch) ELSE 0)
    /\ flushAt' = "spawn"
    /\ UNCHANGED <<breakerVars, queueVars, lock, batch, trackVars, refresh, timer, stop,
                   stored, failed>>

CheckLimit == CheckLimitWhen(activeInserts >= MaxGoroutines)

Spawn ==
    /\ Alive
    /\ flushAt = "spawn"
    /\ inserts' = inserts \cup {[batch |-> batch, at |-> "entered"]}
    /\ activeInserts' = activeInserts + 1
    /\ wg' = wg + 1
    /\ Unlock
    /\ UNCHANGED <<breakerVars, queueVars, metrics, refresh, stored, failed>>

Flush == CheckShutdown \/ CheckBreaker \/ CheckTimeout \/ CheckLimit \/ Spawn
-----------------------------------------------------------------------------
(***************************************************************************)
(* The flush timer: AfterFunc, whose callback flushes and arms a new one.  *)
(***************************************************************************)
TimerFires ==
    /\ Alive
    /\ timer \in {"first", "armed"}
    /\ timer' = "fired"
    /\ UNCHANGED <<breakerVars, queueVars, metrics, flushVars, trackVars, refresh, stop,
                   stored, failed>>

TimerFlushes ==
    /\ Alive
    /\ timer = "fired"
    /\ lock = "free"
    /\ \/ /\ buffer = {}
          /\ timer' = "rearming"
          /\ UNCHANGED <<buffer, flushVars>>
       \/ /\ buffer # {}
          /\ timer' = "flushing"
          /\ Cut("timer", buffer)
    /\ UNCHANGED <<breakerVars, handler, metrics, trackVars, refresh, stop,
                   stored, failed>>

RearmAs(next) ==
    /\ Alive
    /\ timer = "rearming"
    /\ timer' = next
    /\ UNCHANGED <<breakerVars, queueVars, metrics, flushVars, trackVars, refresh, stop,
                   stored, failed>>

\* Mutant: the callback does not start the timer again.
RearmForgotten == RearmAs("stopped")

Rearm == RearmAs("armed")
-----------------------------------------------------------------------------
(***************************************************************************)
(* insertBatch and insertBatchInternal, one goroutine per spawned batch.   *)
(* PostgreSQL (external): a failed statement aborts the transaction, so    *)
(* that the statements after it fail too and the commit rolls back.  A     *)
(* commit whose answer is lost may have been carried out.                  *)
(***************************************************************************)
Move(i, place) == inserts' = (inserts \ {i}) \cup {[i EXCEPT !.at = place]}

\* The first section of CanCall, inside Call.
InsertReadsBreaker(i) ==
    /\ i.at = "entered"
    /\ Move(i, IF AdmittedByState THEN "admitted" ELSE "sawOpen")
    /\ UNCHANGED <<breakerVars, metrics, activeInserts, wg, stored, failed>>

\* The second section; a refused batch is given up and not counted as dropped.
TestTimeoutReleasing(i, slots) ==
    /\ i.at = "sawOpen"
    /\ TransitionToHalfOpen
    /\ \/ /\ AdmittedByTimeout
          /\ Move(i, "admitted")
          /\ UNCHANGED <<failed, activeInserts>>
       \/ /\ ~AdmittedByTimeout
          /\ Move(i, "done")
          /\ failed' = failed \cup i.batch
          /\ activeInserts' = activeInserts - slots
    /\ UNCHANGED <<metrics, wg, stored>>

\* Mutant: a refused batch gives its slot back on its own, and again when it ends.
InsertReleasesTwice(i) == TestTimeoutReleasing(i, 1)

InsertTestsTimeout(i) == TestTimeoutReleasing(i, 0)

Begin(i) ==
    /\ i.at = "admitted"
    /\ \/ /\ stop # "poolClosing"
          /\ Move(i, "inTx")
          /\ UNCHANGED failed
       \/ /\ Move(i, "failed")
          /\ failed' = failed \cup i.batch
    /\ UNCHANGED <<breakerVars, metrics, activeInserts, wg, stored>>

\* The loop over the messages goes on after an error; from the first failing
\* statement on, all fail.
InsertMessages(i) ==
    /\ i.at = "inTx"
    /\ Move(i, "inserted") \/ Move(i, "aborted")
    /\ UNCHANGED <<breakerVars, metrics, activeInserts, wg, stored, failed>>

Commit(i) ==
    /\ i.at = "inserted"
    /\ Move(i, "committed")
    /\ stored' = stored \cup i.batch
    /\ UNCHANGED <<breakerVars, metrics, activeInserts, wg, failed>>

CommitFails(i) ==
    /\ i.at \in {"inserted", "aborted"}
    /\ Move(i, "failed")
    /\ failed' = failed \cup i.batch
    /\ \/ UNCHANGED stored
       \/ i.at = "inserted" /\ stored' = stored \cup i.batch
    /\ UNCHANGED <<breakerVars, metrics, activeInserts, wg>>

\* MessagesProcessed and DBInsertSuccess, always incremented together.
CountProcessed(i) ==
    /\ i.at = "committed"
    /\ Move(i, "succeeded")
    /\ Count("processed", Cardinality(i.batch))
    /\ UNCHANGED <<breakerVars, activeInserts, wg, stored, failed>>

RecordResult(i) ==
    /\ \/ i.at = "failed" /\ RecordFailure
       \/ i.at = "succeeded" /\ RecordSuccess
    /\ Move(i, "done")
    /\ UNCHANGED <<metrics, activeInserts, wg, stored, failed>>

\* The deferred calls: activeInserts first, then the WaitGroup.
ReleaseSlot(i) ==
    /\ i.at = "done"
    /\ Move(i, "exiting")
    /\ activeInserts' = activeInserts - 1
    /\ UNCHANGED <<breakerVars, metrics, wg, stored, failed>>

InsertExits(i) ==
    /\ i.at = "exiting"
    /\ inserts' = inserts \ {i}
    /\ wg' = wg - 1
    /\ UNCHANGED <<breakerVars, metrics, activeInserts, stored, failed>>

InsertStep(i) ==
    /\ Alive
    /\ \/ InsertReadsBreaker(i) \/ InsertTestsTimeout(i) \/ Begin(i) \/ InsertMessages(i)
       \/ Commit(i) \/ CommitFails(i) \/ CountProcessed(i) \/ RecordResult(i)
       \/ ReleaseSlot(i) \/ InsertExits(i)
    /\ UNCHANGED <<queueVars, flushVars, refresh, timer, stop>>
-----------------------------------------------------------------------------
(***************************************************************************)
(* The user refresh job: busy from a tick to the end of the refresh and    *)
(* the cache cleanup, and only between them listening for the shutdown.    *)
(* While one of its statements runs it holds a connection of the pool.     *)
(***************************************************************************)
RefreshTick ==
    /\ refresh = "idle"
    /\ refresh' = "busy"
    /\ UNCHANGED wg

RefreshQueries ==
    /\ refresh = "busy"
    /\ stop # "poolClosing"
    /\ refresh' = "querying"
    /\ UNCHANGED wg

RefreshAnswered ==
    /\ refresh = "querying"
    /\ refresh' = "busy"
    /\ UNCHANGED wg

RefreshDone ==
    /\ refresh = "busy"
    /\ refresh' = "idle"
    /\ UNCHANGED wg

RefreshExits ==
    /\ refresh = "idle"
    /\ ShuttingDown
    /\ refresh' = "exited"
    /\ wg' = wg - 1

RefreshStep ==
    /\ Alive
    /\ RefreshTick \/ RefreshQueries \/ RefreshAnswered \/ RefreshDone \/ RefreshExits
    /\ UNCHANGED <<breakerVars, queueVars, metrics, flushVars, inserts, activeInserts, timer,
                   stop, stored, failed>>
-----------------------------------------------------------------------------
(***************************************************************************)
(* Stop, and the rest of main after it.                                    *)
(***************************************************************************)
CloseShutdownCh == stop = "no" /\ stop' = "closed" /\ UNCHANGED <<buffer, flushVars, timer>>

\* Mutant: Stop leaves out the flush, which would drop the buffer anyway.
StopSkipsFlush ==
    /\ stop = "closed"
    /\ stop' = "flushed"
    /\ UNCHANGED <<buffer, flushVars, timer>>

StopFlushes ==
    /\ stop = "closed"
    /\ lock = "free"
    /\ \/ /\ buffer = {}
          /\ stop' = "flushed"
          /\ UNCHANGED <<buffer, flushVars>>
       \/ /\ buffer # {}
          /\ Cut("stop", buffer)
          /\ UNCHANGED stop
    /\ UNCHANGED timer

\* b.flushTimer is read without a lock while the callback may write it: a stale
\* read stops a timer that has fired already.  The first timer was stored by the
\* goroutine that now runs Stop.
StopTimer ==
    /\ stop = "flushed"
    /\ stop' = "timerStopped"
    /\ timer' \in CASE timer = "first" -> {"stopped"}
                    [] timer = "armed" -> {"stopped", "armed"}
                    [] OTHER -> {timer}
    /\ UNCHANGED <<buffer, flushVars>>

CloseSession ==
    /\ stop = "timerStopped"
    /\ stop' = "waiting"
    /\ UNCHANGED <<buffer, flushVars, timer>>

\* Mutant: done is closed without waiting for the WaitGroup.
WaiterDoesNotWait ==
    /\ stop = "waiting"
    /\ stop' = "done"
    /\ UNCHANGED <<buffer, flushVars, timer>>

\* The waiter goroutine closes "done" when the WaitGroup is at zero.
WaiterSignals ==
    /\ stop = "waiting"
    /\ wg = 0
    /\ stop' = "done"
    /\ UNCHANGED <<buffer, flushVars, timer>>

SelectDone == stop = "done" /\ stop' = "drained" /\ UNCHANGED <<buffer, flushVars, timer>>

\* Mutant: Stop waits for the background tasks without a timeout.
SelectWithoutTimeout ==
    /\ stop = "done"
    /\ stop' = "timedOut"
    /\ UNCHANGED <<buffer, flushVars, timer>>

\* After 30 seconds, even if done has been closed at the same time.
SelectTimeout ==
    /\ stop \in {"waiting", "done"}
    /\ stop' = "timedOut"
    /\ UNCHANGED <<buffer, flushVars, timer>>

\* The deferred pool.Close of main (external) lets nobody have a connection any more ...
ClosePool ==
    /\ stop \in {"drained", "timedOut"}
    /\ stop' = "poolClosing"
    /\ UNCHANGED <<buffer, flushVars, timer>>

\* ... and returns when all are back: those of the inserters and of the refresh job, and
\* those of goroutines that nothing here waits for, command handlers and recorders of
\* activity.  When the last of them is done is left open; a look-up of a user by a
\* command has no deadline, so that it may be never.
Exit ==
    /\ stop = "poolClosing"
    /\ \A i \in inserts : i.at \notin {"inTx", "inserted", "aborted"}
    /\ refresh # "querying"
    /\ stop' = "exited"
    /\ UNCHANGED <<buffer, flushVars, timer>>

StopProceeds ==
    \/ StopFlushes \/ StopTimer \/ CloseSession \/ WaiterSignals \/ SelectDone
    \/ SelectTimeout \/ ClosePool

StopStep ==
    /\ CloseShutdownCh \/ StopProceeds \/ Exit
    /\ UNCHANGED <<breakerVars, handler, metrics, trackVars, refresh, stored, failed>>

ResetTimeoutElapses ==
    /\ Alive
    /\ Cool
    /\ UNCHANGED <<queueVars, metrics, flushVars, trackVars, refresh, timer, stop, stored, failed>>

\* After exit nothing happens.
Exited == ~Alive /\ UNCHANGED vars

Next ==
    \/ \E m \in Msgs : Refuse(m) \/ Accept(m) \/ AppendMessage(m)
    \/ Flush
    \/ TimerFires \/ TimerFlushes \/ Rearm
    \/ \E i \in inserts : InsertStep(i)
    \/ RefreshStep
    \/ StopStep
    \/ ResetTimeoutElapses
    \/ Exited

Spec == Init /\ [][Next]_vars

(***************************************************************************)
(* Fairness.  The goroutines of the pipeline are scheduled and time        *)
(* passes; the database answers or the context of the batch expires, so    *)
(* the inserters move on.  Those who want bufferLock get it in the end     *)
(* although others keep taking it: a sync.Mutex hands itself over to a     *)
(* waiter that has waited for a millisecond.  A handler that has been      *)
(* accepted appends; nothing obliges Discord to deliver or anyone to stop  *)
(* the bot.  Nothing obliges a refresh to end either, which may outlast    *)
(* Stop, nor main, which may wait for a connection for ever (Exit).        *)
(*                                                                         *)
(* There are finitely many appends and inserter steps in a behaviour, so   *)
(* fairness of all of them together is fairness of each.                   *)
(***************************************************************************)
Fairness ==
    /\ SF_vars(\E m \in Msgs : AppendMessage(m))
    /\ WF_vars(Flush)
    /\ WF_vars(TimerFires \/ Rearm) /\ SF_vars(TimerFlushes)
    /\ WF_vars(\E i \in inserts : InsertStep(i))
    /\ SF_vars(StopProceeds /\ StopStep)

FairSpec == Spec /\ Fairness
-----------------------------------------------------------------------------
(***************************************************************************)
(* The pipeline keeps the ledger.                                          *)
(***************************************************************************)
Undecided == {"entered", "sawOpen", "admitted", "inTx", "inserted", "aborted"}

InFlight == UNION {i.batch : i \in {j \in inserts : j.at \in Undecided}}

Outcome ==
    [m \in Msgs |->
        CASE handler[m] = "none" -> "none"
          [] handler[m] = "refused" -> "refused"
          [] m \in failed -> "failed"
          [] m \in stored \ failed -> "stored"
          [] handler[m] = "waiting" \/ m \in buffer \cup batch \cup InFlight -> "pending"
          [] OTHER -> "dropped"]

Ledger == INSTANCE MessageLedger WITH outcome <- Outcome, rows <- stored

\* Every step of the pipeline is a step of the ledger or leaves it alone: no
\* message is decided twice, put into two batches, or stored after it was
\* dropped, and a batch is decided as a whole (flushLocked, insertBatchInternal).
KeepsLedger == Ledger!LedgerSpec
-----------------------------------------------------------------------------
With(result) == {m \in Msgs : Outcome[m] = result}
At(places) == {i \in inserts : i.at \in places}

SlotsCounted == activeInserts = Cardinality(inserts \ At({"exiting"}))

WaitGroupCounted == wg = Cardinality(inserts) + (IF refresh = "exited" THEN 0 ELSE 1)

LimitKept == activeInserts <= MaxGoroutines

\* activeInserts and the WaitGroup count the goroutines they are meant to count,
\* and the limit on inserters is never exceeded although it is tested before
\* the count goes up (flushLocked) and lowered without the lock.
GoroutinesTracked == SlotsCounted /\ WaitGroupCounted /\ LimitKept

\* The buffer is cut as soon as it is full, so that it and every batch stay
\* within batchSize whoever flushes when (messageCreate, flushLocked).
BatchesBounded ==
    /\ Cardinality(buffer) < BatchSize
    /\ Cardinality(batch) <= BatchSize
    /\ \A i \in inserts : Cardinality(i.batch) <= BatchSize

\* The counters of the metrics endpoint account for every message once: those
\* dropped, and those stored as far as the inserter has got to count them.
MetricsAccount ==
    /\ metrics.received = Cardinality(Msgs \ With("none"))
    /\ metrics.dropped = Cardinality(With("dropped"))
    /\ metrics.processed + Cardinality(UNION {i.batch : i \in At({"committed"})})
         = Cardinality(With("stored"))

\* Once Stop has flushed, no further inserter is added to the WaitGroup that it
\* waits for: a flusher that had passed the shutdown check held the lock which
\* Stop's own flush had to take first.
NoSpawnAfterStopFlushed ==
    [][stop \notin {"no", "closed"} => wg' <= wg]_vars

\* When Stop returns without a timeout, no inserter is left and the refresh job
\* is over; the only messages still undecided never left the buffer.
DrainedMeansQuiet ==
    stop = "drained" =>
        /\ inserts = {} /\ activeInserts = 0
        /\ refresh = "exited"
        /\ With("pending") \subseteq {m \in Msgs : handler[m] = "waiting"} \cup buffer \cup batch

\* The messages the bot has taken into its buffer and not yet decided.
Backlog == {m \in Msgs : handler[m] = "buffered" /\ Outcome[m] = "pending"}

\* However many messages arrive and however slow the database is, those in memory and
\* undecided, which a crash would lose, are at most one batch for every slot in use and
\* one more: a handler cannot append while a batch is being flushed, and a slot is not
\* given back before its batch is decided (messageCreate, flushLocked, insertBatch).
BacklogBounded == Cardinality(Backlog) <= BatchSize * (activeInserts + 1)

\* Stop returns, although the refresh job may never end and others keep taking the lock
\* that its flush needs.  That the process then ends is not claimed: see Exit.
StopReturns == stop = "closed" ~> stop \in {"drained", "timedOut"}

\* As long as nobody stops the bot, every accepted message is decided.
EveryMessageDecided ==
    \A m \in Msgs : handler[m] = "waiting" ~> (Outcome[m] # "pending" \/ stop # "no")

\* As commented: "Flush remaining messages" (bot.go:241).  The flush of Stop
\* does not drop what is in the buffer while the breaker is closed and an
\* inserter is free.
StopFlushesRemaining ==
    [][lock = "stop" /\ state = "Closed" /\ activeInserts < MaxGoroutines =>
         metrics'.dropped = metrics.dropped]_vars
=============================================================================
