--------------------------- MODULE CircuitBreaker ---------------------------
(***************************************************************************)
(* The database circuit breaker, internal/pkg/circuitbreaker.go.           *)
(*                                                                         *)
(* The module holds the breaker's fields and one operator per critical     *)
(* section of its mutex, so that a module that EXTENDS it decides who runs *)
(* the sections and in what order: BreakerCallers runs them from any       *)
(* number of goroutines, MessagePipeline from the flusher and the batch    *)
(* inserters of the bot.                                                   *)
(*                                                                         *)
(* Time is abstracted to the one comparison the code makes with it:        *)
(* "cooled" says that more than resetTimeout has passed since              *)
(* lastFailureTime.                                                        *)
(***************************************************************************)
EXTENDS Integers

CONSTANT MaxFailures     \* maxFailures, 5 for the bot's breaker

ASSUME MaxFailuresAssumption == MaxFailures \in Nat \ {0}

VARIABLES
    state,               \* "Closed", "Open" or "HalfOpen"
    failures,
    halfOpenSuccess,
    cooled               \* time.Since(lastFailureTime) > resetTimeout

breakerVars == <<state, failures, halfOpenSuccess, cooled>>

HalfOpenMax == MaxFailures \div 2

BreakerTypeOK ==
    /\ state \in {"Closed", "Open", "HalfOpen"}
    /\ failures \in Nat
    /\ halfOpenSuccess \in Nat
    /\ cooled \in BOOLEAN

\* lastFailureTime is the zero time, longer ago than any timeout.
BreakerInit ==
    /\ state = "Closed"
    /\ failures = 0
    /\ halfOpenSuccess = 0
    /\ cooled = TRUE

(***************************************************************************)
(* CanCall takes the lock twice: once to read the state, and, when it read *)
(* Open, once more to test the timeout.  The second section does not look  *)
(* at the state again, so the answer depends on the timeout alone and the  *)
(* breaker becomes half-open whatever happened to it in between.           *)
(***************************************************************************)
AdmittedByState == state # "Open"

AdmittedByTimeout == cooled

\* Mutant: the caller is let through but the state stays Open.
TransitionForgotten == UNCHANGED breakerVars

TransitionWith(successes) ==
    IF AdmittedByTimeout
    THEN /\ state' = "HalfOpen"
         /\ halfOpenSuccess' = successes
         /\ UNCHANGED <<failures, cooled>>
    ELSE UNCHANGED breakerVars

\* Mutant: the count of successes survives from the last half-open period.
TransitionKeepsSuccesses == TransitionWith(halfOpenSuccess)

TransitionToHalfOpen == TransitionWith(0)

\* A failure also restarts the timeout, in every state.
FailureWith(failuresAfterProbe) ==
    /\ cooled' = FALSE
    /\ UNCHANGED halfOpenSuccess
    /\ \/ /\ state = "Closed"
          /\ failures' = failures + 1
          /\ state' = IF failures + 1 >= MaxFailures THEN "Open" ELSE "Closed"
       \/ /\ state = "HalfOpen"
          /\ failures' = failuresAfterProbe
          /\ state' = "Open"
       \/ /\ state = "Open"
          /\ failures' = failures + 1
          /\ UNCHANGED state

\* Mutant: a failed probe adds to the counter instead of setting it.
RecordFailureAccumulates == FailureWith(failures + 1)

RecordFailure == FailureWith(MaxFailures)

\* While the breaker is open a (late) success changes nothing.
SuccessWith(failuresAfterSuccess, successes) ==
    /\ UNCHANGED cooled
    /\ \/ /\ state = "Closed"
          /\ failures' = failuresAfterSuccess
          /\ UNCHANGED <<state, halfOpenSuccess>>
       \/ /\ state = "HalfOpen"
          /\ successes < HalfOpenMax
          /\ halfOpenSuccess' = successes
          /\ UNCHANGED <<state, failures>>
       \/ /\ state = "HalfOpen"
          /\ successes >= HalfOpenMax
          /\ state' = "Closed"
          /\ failures' = 0
          /\ halfOpenSuccess' = 0
       \/ /\ state = "Open"
          /\ UNCHANGED <<state, failures, halfOpenSuccess>>

\* Mutant: a success takes one failure back instead of resetting the counter.
RecordSuccessDecrements == SuccessWith(failures - 1, halfOpenSuccess + 1)

\* Mutant: a success of a closed breaker does not reset the counter.
RecordSuccessKeepsFailures == SuccessWith(failures, halfOpenSuccess + 1)

\* Mutant: the successes of a half-open breaker are not counted up.
RecordSuccessNeverCloses == SuccessWith(0, halfOpenSuccess)

RecordSuccess == SuccessWith(0, halfOpenSuccess + 1)

\* The reset timeout runs out.
Cool ==
    /\ ~cooled
    /\ cooled' = TRUE
    /\ UNCHANGED <<state, failures, halfOpenSuccess>>
=============================================================================
