---------------------------- MODULE BreakerProofs ----------------------------
(***************************************************************************)
(* Theorems about BreakerCallers for any threshold and any finite set of   *)
(* callers.                                                                *)
(***************************************************************************)
EXTENDS BreakerCallers, FiniteSetTheorems, TLAPS

\* The number of probes a half-open breaker waits for is within its threshold.
LEMMA HalfOpenMaxBound == HalfOpenMax \in Nat /\ HalfOpenMax <= MaxFailures
  BY MaxFailuresAssumption DEF HalfOpenMax

\* A new breaker is well typed.
LEMMA BreakerInitType == BreakerInit => BreakerTypeOK
  BY DEF BreakerInit, BreakerTypeOK

\* Every section keeps the breaker well typed.
LEMMA BreakerSectionsType ==
  ASSUME BreakerTypeOK,
         TransitionToHalfOpen \/ RecordFailure \/ RecordSuccess \/ Cool \/ UNCHANGED breakerVars
  PROVE  BreakerTypeOK'
<1> USE MaxFailuresAssumption DEF BreakerTypeOK, breakerVars
<1>1. CASE TransitionToHalfOpen
  BY <1>1 DEF TransitionToHalfOpen, TransitionWith
<1>2. CASE RecordFailure
  <2>1. state' \in {"Closed", "Open", "HalfOpen"} /\ failures' \in Nat
    BY <1>2 DEF RecordFailure, FailureWith
  <2>2. halfOpenSuccess' \in Nat /\ cooled' \in BOOLEAN
    BY <1>2 DEF RecordFailure, FailureWith
  <2> QED BY <2>1, <2>2
<1>3. CASE RecordSuccess
  BY <1>3, HalfOpenMaxBound DEF RecordSuccess, SuccessWith
<1>4. CASE Cool
  BY <1>4 DEF Cool
<1>5. CASE UNCHANGED breakerVars
  BY <1>5
<1> QED BY <1>1, <1>2, <1>3, <1>4, <1>5
-----------------------------------------------------------------------------
\* The history counters keep their range and grow by one until they are full.
LEMMA CappedBound ==
  ASSUME NEW n \in 0 .. MaxFailures
  PROVE  /\ Capped(n + 1) \in 0 .. MaxFailures
         /\ Capped(n + 1) = n + 1 \/ Capped(n + 1) = MaxFailures
         /\ n < MaxFailures => Capped(n + 1) = n + 1
         /\ Capped(n + 1) > 0
  BY MaxFailuresAssumption DEF Capped

\* What each step does to the breaker, and that it keeps the types.
LEMMA InitTypeOK == Init => TypeOK
<1> SUFFICES ASSUME Init PROVE TypeOK
  OBVIOUS
<1>1. BreakerTypeOK
  BY BreakerInitType DEF Init
<1>2. pc \in [Callers -> {"idle", "sawOpen", "running"}] /\ probes \in SUBSET Callers
  BY DEF Init
<1>3. streak \in 0 .. MaxFailures /\ goodRun \in 0 .. MaxFailures
  BY MaxFailuresAssumption DEF Init
<1>4. healthy \in BOOLEAN
  BY DEF Init
<1> QED BY <1>1, <1>2, <1>3, <1>4 DEF TypeOK

\* Every step keeps the types.
LEMMA StepTypeOK == TypeOK /\ [Next]_vars => TypeOK'
<1> SUFFICES ASSUME TypeOK, [Next]_vars PROVE TypeOK'
  OBVIOUS
<1>1. BreakerTypeOK'
  BY BreakerSectionsType
  DEF TypeOK, vars, breakerVars, Next, CallerStep, ReadState, TestTimeout, Fail, Succeed,
      TimeoutElapses, DatabaseChanges
<1>2. pc' \in [Callers -> {"idle", "sawOpen", "running"}] /\ probes' \in SUBSET Callers
  BY DEF TypeOK, vars, historyVars, Next, CallerStep, ReadState, TestTimeout, Fail, Succeed,
         TimeoutElapses, DatabaseChanges, Goto
<1>3. streak' \in 0 .. MaxFailures /\ goodRun' \in 0 .. MaxFailures
  BY CappedBound, MaxFailuresAssumption
  DEF TypeOK, vars, historyVars, Next, CallerStep, ReadState, TestTimeout, Fail, Succeed,
      TimeoutElapses, DatabaseChanges
<1>4. healthy' \in BOOLEAN
  BY DEF TypeOK, vars, historyVars, Next, CallerStep, ReadState, TestTimeout, Fail, Succeed,
         TimeoutElapses, DatabaseChanges
<1> QED BY <1>1, <1>2, <1>3, <1>4 DEF TypeOK

\* Type correctness of the breaker and its callers.
THEOREM TypeCorrect == Spec => []TypeOK
  BY InitTypeOK, StepTypeOK, PTL DEF Spec

-----------------------------------------------------------------------------
\* CountersExplainState needs the types beside it to be inductive, nothing else.
IInv == TypeOK /\ CountersExplainState

\* The invariant holds initially.
LEMMA InitIInv == Init => IInv
<1> SUFFICES ASSUME Init PROVE CountersExplainState
  BY InitTypeOK DEF IInv
<1> QED BY MaxFailuresAssumption
        DEF Init, BreakerInit, CountersExplainState, ClosedCountsStreak,
            HalfOpenCountsGoodRun, OpenReachedThreshold

\* Every step keeps the invariant.
LEMMA StepIInv == IInv /\ [Next]_vars => IInv'
<1> SUFFICES ASSUME IInv, [Next]_vars PROVE CountersExplainState'
  BY StepTypeOK DEF IInv
<1> USE MaxFailuresAssumption, CappedBound, HalfOpenMaxBound
    DEF IInv, TypeOK, BreakerTypeOK, CountersExplainState, ClosedCountsStreak,
        HalfOpenCountsGoodRun, OpenReachedThreshold, breakerVars
<1>1. ASSUME NEW c \in Callers, ReadState(c) PROVE CountersExplainState'
  BY <1>1 DEF ReadState
<1>2. ASSUME NEW c \in Callers, TestTimeout(c) PROVE CountersExplainState'
  BY <1>2 DEF TestTimeout, TransitionToHalfOpen, TransitionWith
<1>3. ASSUME NEW c \in Callers, Fail(c) PROVE CountersExplainState'
  <2>1. ClosedCountsStreak'
    BY <1>3 DEF Fail, RecordFailure, FailureWith
  <2>2. HalfOpenCountsGoodRun'
    BY <1>3 DEF Fail, RecordFailure, FailureWith
  <2>3. (state = "Open" => failures >= MaxFailures)'
    BY <1>3 DEF Fail, RecordFailure, FailureWith
  <2> QED BY <2>1, <2>2, <2>3
<1>4. ASSUME NEW c \in Callers, Succeed(c) PROVE CountersExplainState'
  <2>1. CASE state = "HalfOpen"
    BY <1>4, <2>1 DEF Succeed, RecordSuccess, SuccessWith
  <2>2. CASE state # "HalfOpen"
    BY <1>4, <2>2 DEF Succeed, RecordSuccess, SuccessWith
  <2> QED BY <2>1, <2>2
<1>5. CASE TimeoutElapses
  BY <1>5 DEF TimeoutElapses, Cool, historyVars
<1>6. CASE DatabaseChanges
  BY <1>6 DEF DatabaseChanges, historyVars
<1>7. CASE UNCHANGED vars
  BY <1>7 DEF vars
<1> QED BY <1>1, <1>2, <1>3, <1>4, <1>5, <1>6, <1>7 DEF Next, CallerStep

\* The invariant holds in every behaviour.
LEMMA IInvHolds == Spec => []IInv
  BY InitIInv, StepIInv, PTL DEF Spec

\* In every state the breaker's counters mean what its decisions take them to
\* mean: see CountersExplainState.
THEOREM CountersCorrect == Spec => []CountersExplainState
<1>1. IInv => CountersExplainState
  BY DEF IInv
<1> QED BY <1>1, IInvHolds, PTL

\* A closed breaker trips only on MaxFailures failures in a row and an outage
\* ends only after HalfOpenMax successes in a row, whatever the interleaving.
THEOREM RunsCorrect == Spec => TripsAndRecoversOnRuns
<1> DEFINE OnRuns ==
      /\ state = "Closed" /\ state' = "Open" => streak' = MaxFailures
      /\ state # "Closed" /\ state' = "Closed" =>
           goodRun' >= HalfOpenMax /\ goodRun' > 0
<1>1. IInv /\ [Next]_vars => [OnRuns]_vars
  <2> SUFFICES ASSUME IInv, Next PROVE OnRuns
    OBVIOUS
  <2> USE MaxFailuresAssumption, CappedBound, HalfOpenMaxBound
      DEF IInv, TypeOK, BreakerTypeOK, CountersExplainState, ClosedCountsStreak,
          HalfOpenCountsGoodRun, OpenReachedThreshold, breakerVars
  <2>1. ASSUME NEW c \in Callers, ReadState(c) PROVE OnRuns
    BY <2>1 DEF ReadState
  <2>2. ASSUME NEW c \in Callers, TestTimeout(c) PROVE OnRuns
    BY <2>2 DEF TestTimeout, TransitionToHalfOpen, TransitionWith
  <2>3. ASSUME NEW c \in Callers, Fail(c) PROVE OnRuns
    BY <2>3 DEF Fail, RecordFailure, FailureWith
  <2>4. ASSUME NEW c \in Callers, Succeed(c) PROVE OnRuns
    BY <2>4 DEF Succeed, RecordSuccess, SuccessWith
  <2>5. CASE TimeoutElapses
    BY <2>5 DEF TimeoutElapses, Cool
  <2>6. CASE DatabaseChanges
    BY <2>6 DEF DatabaseChanges
  <2> QED BY <2>1, <2>2, <2>3, <2>4, <2>5, <2>6 DEF Next, CallerStep
<1> QED BY <1>1, IInvHolds, PTL DEF Spec, TripsAndRecoversOnRuns
-----------------------------------------------------------------------------
\* The running callers are finitely many, and one that returns makes them fewer by one.
LEMMA RunningFinite ==
  /\ Cardinality(Callers) \in Nat \ {0}
  /\ IsFiniteSet(Running)
  /\ Cardinality(Running) \in 0 .. Cardinality(Callers)
<1>1. Cardinality(Callers) \in Nat /\ Cardinality(Callers) # 0
  BY CallersAssumption, FS_CardinalityType, FS_EmptySet
<1>2. Running \subseteq Callers
  BY DEF Running
<1>3. IsFiniteSet(Running) /\ Cardinality(Running) <= Cardinality(Callers)
  BY <1>2, CallersAssumption, FS_Subset
<1>4. Cardinality(Running) \in Nat
  BY <1>3, FS_CardinalityType
<1> QED BY <1>1, <1>3, <1>4

\* What a call that returns takes away from those running.
LEMMA RunningReturns ==
  ASSUME TypeOK, NEW c \in Callers, pc[c] = "running", pc' = [pc EXCEPT ![c] = "idle"]
  PROVE  /\ Cardinality(Running') = Cardinality(Running) - 1
         /\ Cardinality(Running') \in 0 .. Cardinality(Callers) - 1
<1>1. Running' = Running \ {c} /\ c \in Running
  BY DEF Running, TypeOK
<1>2. Cardinality(Running') = Cardinality(Running) - 1
  BY <1>1, RunningFinite, FS_RemoveElement
<1>3. IsFiniteSet(Running') /\ Cardinality(Running') \in Nat
  BY <1>1, RunningFinite, FS_Subset, FS_CardinalityType
<1> QED BY <1>2, <1>3, RunningFinite

\* What bounds the counter of an open breaker: see FailuresBounded.
THEOREM FailuresStayBounded == Spec => []FailuresBounded
<1> USE MaxFailuresAssumption, RunningFinite DEF TypeOK, BreakerTypeOK, FailuresBounded
<1>1. Init => FailuresBounded
  BY DEF Init, BreakerInit
<1>2. IInv /\ FailuresBounded /\ [Next]_vars => FailuresBounded'
  <2> SUFFICES ASSUME IInv, FailuresBounded, [Next]_vars PROVE FailuresBounded'
    OBVIOUS
  <2> USE DEF IInv
  <2>1. ASSUME NEW c \in Callers, ReadState(c) PROVE FailuresBounded'
    <3>1. state = "Open" => Running' = Running
      BY <2>1 DEF ReadState, AdmittedByState, Goto, Running
    <3> QED BY <2>1, <3>1 DEF ReadState, breakerVars
  <2>2. ASSUME NEW c \in Callers, TestTimeout(c) PROVE FailuresBounded'
    <3>1. CASE cooled
      BY <2>2, <3>1 DEF TestTimeout, TransitionToHalfOpen, TransitionWith, AdmittedByTimeout
    <3>2. CASE ~cooled
      <4>1. Running' = Running
        BY <2>2, <3>2 DEF TestTimeout, AdmittedByTimeout, Goto, Running
      <4> QED BY <2>2, <3>2, <4>1
              DEF TestTimeout, TransitionToHalfOpen, TransitionWith, AdmittedByTimeout, breakerVars
    <3> QED BY <3>1, <3>2
  <2>3. ASSUME NEW c \in Callers, Fail(c) PROVE FailuresBounded'
    <3>1. /\ Cardinality(Running') = Cardinality(Running) - 1
          /\ Cardinality(Running') \in 0 .. Cardinality(Callers) - 1
      BY <2>3, RunningReturns DEF Fail, Goto
    <3>2. CASE state = "Closed"
      BY <2>3, <3>1, <3>2 DEF Fail, RecordFailure, FailureWith, CountersExplainState, ClosedCountsStreak
    <3>3. CASE state # "Closed"
      BY <2>3, <3>1, <3>3 DEF Fail, RecordFailure, FailureWith
    <3> QED BY <3>2, <3>3
  <2>4. ASSUME NEW c \in Callers, Succeed(c) PROVE FailuresBounded'
    <3>1. Cardinality(Running') = Cardinality(Running) - 1
      BY <2>4, RunningReturns DEF Succeed, Goto
    <3> QED BY <2>4, <3>1 DEF Succeed, RecordSuccess, SuccessWith
  <2>5. CASE TimeoutElapses
    BY <2>5 DEF TimeoutElapses, Cool, Running
  <2>6. CASE DatabaseChanges
    BY <2>6 DEF DatabaseChanges, breakerVars, Running
  <2>7. CASE UNCHANGED vars
    BY <2>7 DEF vars, Running
  <2> QED BY <2>1, <2>2, <2>3, <2>4, <2>5, <2>6, <2>7 DEF Next, CallerStep
<1> QED BY <1>1, <1>2, IInvHolds, PTL DEF Spec
=============================================================================
