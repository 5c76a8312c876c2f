--------------------------- MODULE BreakerCallers ---------------------------
(***************************************************************************)
(* Goroutines that go through CircuitBreaker.Call concurrently.  A caller  *)
(* reads the state, if that was Open tests the timeout, runs its function  *)
(* and records the result; between any two of these the others may run.    *)
(* The calls of the bot are its batch inserts; here their number is open.  *)
(***************************************************************************)
EXTENDS CircuitBreaker, FiniteSets

CONSTANT Callers

ASSUME CallersAssumption == IsFiniteSet(Callers) /\ Callers # {}

VARIABLES
    pc,        \* where each caller is inside Call
    healthy,   \* whether the database answers (environment)
    streak,    \* history: results recorded since the last success, all failures
    goodRun,   \* history: results recorded since the last failure, all successes
    probes     \* history: running calls admitted since the breaker became half-open

historyVars == <<streak, goodRun, probes>>
vars == <<state, failures, halfOpenSuccess, cooled, pc, healthy, streak, goodRun, probes>>

\* The history counters stop at MaxFailures: nothing compares them beyond it.
Capped(n) == IF n < MaxFailures THEN n ELSE MaxFailures

TypeOK ==
    /\ BreakerTypeOK
    /\ pc \in [Callers -> {"idle", "sawOpen", "running"}]
    /\ healthy \in BOOLEAN
    /\ streak \in 0 .. MaxFailures
    /\ goodRun \in 0 .. MaxFailures
    /\ probes \in SUBSET Callers

Init ==
    /\ BreakerInit
    /\ pc = [c \in Callers |-> "idle"]
    /\ healthy = TRUE
    /\ streak = 0
    /\ goodRun = 0
    /\ probes = {}

Goto(c, place) == pc' = [pc EXCEPT ![c] = place]

\* First section of CanCall: Closed and HalfOpen admit at once.
ReadState(c) ==
    /\ pc[c] = "idle"
    /\ \/ AdmittedByState /\ Goto(c, "running")
       \/ ~AdmittedByState /\ Goto(c, "sawOpen")
    /\ probes' = IF state = "HalfOpen" THEN probes \cup {c} ELSE probes
    /\ UNCHANGED <<breakerVars, healthy, streak, goodRun>>

\* Second section of CanCall, reached only by a caller that read Open.
TestTimeout(c) ==
    /\ pc[c] = "sawOpen"
    /\ TransitionToHalfOpen
    /\ Goto(c, IF AdmittedByTimeout THEN "running" ELSE "idle")
    /\ probes' = CASE ~AdmittedByTimeout -> probes
                   [] state = "HalfOpen" -> probes \cup {c}
                   [] OTHER -> {c}
    /\ UNCHANGED <<healthy, streak, goodRun>>

\* The function has failed: RecordResult(err).
Fail(c) ==
    /\ pc[c] = "running"
    /\ ~healthy
    /\ RecordFailure
    /\ Goto(c, "idle")
    /\ streak' = Capped(streak + 1)
    /\ goodRun' = 0
    /\ probes' = probes \ {c}
    /\ UNCHANGED healthy

\* The function has succeeded: RecordResult(nil).
Succeed(c) ==
    /\ pc[c] = "running"
    /\ healthy
    /\ RecordSuccess
    /\ Goto(c, "idle")
    /\ streak' = 0
    /\ goodRun' = Capped(goodRun + 1)
    /\ probes' = probes \ {c}
    /\ UNCHANGED healthy

TimeoutElapses == Cool /\ UNCHANGED <<pc, healthy, historyVars>>

DatabaseChanges ==
    /\ healthy' = ~healthy
    /\ UNCHANGED <<breakerVars, pc, historyVars>>

CallerStep(c) == ReadState(c) \/ TestTimeout(c) \/ Fail(c) \/ Succeed(c)

Next ==
    \/ \E c \in Callers : CallerStep(c)
    \/ TimeoutElapses
    \/ DatabaseChanges

Spec == Init /\ [][Next]_vars

(***************************************************************************)
(* Calls keep coming and return (their context has a deadline), and time   *)
(* passes.                                                                 *)
(***************************************************************************)
Fairness ==
    /\ \A c \in Callers : WF_vars(CallerStep(c))
    /\ WF_vars(TimeoutElapses)

FairSpec == Spec /\ Fairness
-----------------------------------------------------------------------------
\* While the breaker is closed its failure counter is exactly the number of
\* failures since the last success, whatever late results of earlier calls came
\* in (recordFailure, recordSuccess), and is below the threshold.
ClosedCountsStreak == state = "Closed" => failures = streak /\ failures < MaxFailures

\* A half-open breaker has counted only successes that came after the last
\* failure, and fewer than it needs to close.
HalfOpenCountsGoodRun ==
    state = "HalfOpen" =>
        /\ halfOpenSuccess <= goodRun
        /\ halfOpenSuccess < HalfOpenMax \/ halfOpenSuccess = 0

\* An open breaker has reached its threshold.
OpenReachedThreshold == state = "Open" => failures >= MaxFailures

\* The counters explain the state: the part of the state every decision of the
\* breaker rests on (ClosedCountsStreak, HalfOpenCountsGoodRun, OpenReachedThreshold).
CountersExplainState ==
    ClosedCountsStreak /\ HalfOpenCountsGoodRun /\ OpenReachedThreshold

Running == {c \in Callers : pc[c] = "running"}

\* Late failures of calls admitted before the breaker opened push its counter
\* over the threshold, but each call that is still running can do so once and
\* none is admitted meanwhile (recordFailure in the Open state): the counter
\* never passes the threshold by as much as the number of callers.
FailuresBounded ==
    LET limit == MaxFailures + Cardinality(Callers) - 1
    IN  /\ failures <= limit
        /\ state = "Open" => failures + Cardinality(Running) <= limit

\* A closed breaker opens only on MaxFailures failures in a row, and an outage
\* ends only after HalfOpenMax successes in a row (or one, if that is zero).
TripsAndRecoversOnRuns ==
    [][/\ state = "Closed" /\ state' = "Open" => streak' = MaxFailures
       /\ state # "Closed" /\ state' = "Closed" =>
            goodRun' >= HalfOpenMax /\ goodRun' > 0]_vars

\* A breaker that is open is asked again: it does not stay open for good, even
\* with a database that keeps failing.
OpenIsProbed == state = "Open" ~> state = "HalfOpen"

\* Once the database stays up the breaker closes and stays closed.
Recovers == <>[]healthy => <>[](state = "Closed")

\* As documented: "Half-open state - allow limited calls" (circuitbreaker.go:89).
HalfOpenLimitsCalls ==
    state = "HalfOpen" => Cardinality(probes) <= HalfOpenMax
=============================================================================
