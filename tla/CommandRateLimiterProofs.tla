---------------------- MODULE CommandRateLimiterProofs ----------------------
(***************************************************************************)
(* Theorems about CommandRateLimiter for any keys, callers, cooldown and   *)
(* clock bound.                                                            *)
(***************************************************************************)
EXTENDS CommandRateLimiter, TLAPS

\* The time left is a natural number.
LEMMA RemainingType ==
  ASSUME TypeOK, NEW k \in Keys
  PROVE  TimeRemaining(k) \in Nat
  BY CommandAssumption DEF TypeOK, TimeRemaining, CooledDown, Stored, Times

\* Rounding makes a time at most half a second shorter, and never negative.
LEMMA RoundedNear ==
  ASSUME NEW remaining \in Nat
  PROVE  /\ Rounded(remaining) \in Nat
         /\ 2 * (remaining - Rounded(remaining)) <= TicksPerSecond
<1> DEFINE rest == remaining % TicksPerSecond
           even == (remaining \div TicksPerSecond) % 2 = 0
<1>1. rest \in 0 .. TicksPerSecond - 1 /\ rest <= remaining
  BY CommandAssumption
<1>2. Rounded(remaining) = IF 2 * rest < TicksPerSecond \/ (2 * rest = TicksPerSecond /\ even)
                           THEN remaining - rest ELSE remaining - rest + TicksPerSecond
  BY DEF Rounded
<1> HIDE DEF rest, even
<1> QED BY <1>1, <1>2, CommandAssumption

\* The types hold initially.
LEMMA InitTypeOK == Init => TypeOK
  BY CommandAssumption DEF Init, TypeOK, Times, Never, Nothing

\* Every step keeps the types.
LEMMA StepTypeOK == TypeOK /\ [Next]_vars => TypeOK'
<1> SUFFICES ASSUME TypeOK, [Next]_vars PROVE TypeOK'
  OBVIOUS
<1> USE CommandAssumption DEF TypeOK, Times
<1>1. ASSUME NEW c \in Callers, NEW k \in Keys, Accept(c, k) PROVE TypeOK'
  <2>1. DOMAIN lastUsed' \subseteq Keys /\ \A j \in DOMAIN lastUsed' : lastUsed'[j] \in Times
    BY <1>1 DEF Accept, Store
  <2>2. told' \in [Callers -> [key : Keys \cup {NoKey}, until : Nat]]
    BY <1>1 DEF Accept, Nothing
  <2> QED BY <1>1, <2>1, <2>2 DEF Accept
<1>2. ASSUME NEW c \in Callers, NEW k \in Keys, Refuse(c, k) PROVE TypeOK'
  BY <1>2 DEF Refuse
<1>3. ASSUME NEW c \in Callers, TellTimeRemaining(c) PROVE TypeOK'
  <2> DEFINE k == refused[c]
             left == TimeRemaining(k)
  <2>1. k \in Keys
    BY <1>3 DEF TellTimeRemaining
  <2>2. left \in Nat
    BY <2>1, RemainingType
  <2>3. Answer(k, left) \in [key : Keys \cup {NoKey}, until : Nat]
    <3> HIDE DEF left
    <3> QED BY <2>1, <2>2, RoundedNear DEF Answer
  <2>4. told' = [told EXCEPT ![c] = Answer(k, left)]
    BY <1>3 DEF TellTimeRemaining
  <2>5. told' \in [Callers -> [key : Keys \cup {NoKey}, until : Nat]]
    BY <2>3, <2>4
  <2> QED BY <1>3, <2>5 DEF TellTimeRemaining
<1>4. CASE Cleanup
  BY <1>4 DEF Cleanup, CleanupBefore
<1>5. CASE Tick
  BY <1>5 DEF Tick
<1>6. CASE UNCHANGED vars
  BY <1>6 DEF vars
<1> QED BY <1>1, <1>2, <1>3, <1>4, <1>5, <1>6 DEF Next

\* Type correctness of the command cooldown.
THEOREM TypeCorrect == Spec => []TypeOK
  BY InitTypeOK, StepTypeOK, PTL DEF Spec
-----------------------------------------------------------------------------
\* An entry is as old as the last acceptance of its key, give or take the tick
\* between the two readings of the clock; a key without one has cooled down.
EntriesMatch ==
    \A k \in Keys :
        /\ accepted[k] <= now
        /\ Stored(k) =>
              /\ accepted[k] # Never
              /\ accepted[k] <= lastUsed[k] /\ lastUsed[k] <= accepted[k] + 1
              /\ lastUsed[k] <= now
        /\ ~Stored(k) /\ accepted[k] # Never => now - accepted[k] >= Cooldown

IInv == TypeOK /\ EntriesMatch

\* The invariant holds initially.
LEMMA InitIInv == Init => IInv
<1> SUFFICES ASSUME Init PROVE EntriesMatch
  BY InitTypeOK DEF IInv
<1>1. \A k \in Keys : accepted[k] = Never /\ ~Stored(k)
  BY DEF Init, Stored
<1>2. now = 0 /\ Never <= 0
  BY DEF Init, Never
<1> QED BY <1>1, <1>2 DEF EntriesMatch

\* Every step keeps the invariant.
LEMMA StepIInv == IInv /\ [Next]_vars => IInv'
<1> SUFFICES ASSUME IInv, [Next]_vars PROVE EntriesMatch'
  BY StepTypeOK DEF IInv
<1> USE CommandAssumption DEF IInv, TypeOK, EntriesMatch, Stored, Times, Never
<1>1. ASSUME NEW c \in Callers, NEW k \in Keys, Accept(c, k) PROVE EntriesMatch'
  <2>1. now' \in 0 .. MaxTime /\ now <= now' /\ now' <= now + 1
    BY <1>1 DEF Accept
  <2>2. DOMAIN lastUsed' = DOMAIN lastUsed \cup {k}
    BY <1>1 DEF Accept, Store
  <2>3. \A j \in DOMAIN lastUsed' : lastUsed'[j] = IF j = k THEN now' ELSE lastUsed[j]
    BY <1>1 DEF Accept, Store
  <2>4. \A j \in Keys : accepted'[j] = IF j = k THEN now ELSE accepted[j]
    BY <1>1 DEF Accept
  <2> QED BY <2>1, <2>2, <2>3, <2>4
<1>2. ASSUME NEW c \in Callers, NEW k \in Keys, Refuse(c, k) PROVE EntriesMatch'
  BY <1>2 DEF Refuse
<1>3. ASSUME NEW c \in Callers, TellTimeRemaining(c) PROVE EntriesMatch'
  BY <1>3 DEF TellTimeRemaining
<1>4. CASE Cleanup
  <2>1. /\ DOMAIN lastUsed' = {j \in DOMAIN lastUsed : lastUsed[j] >= now - 2 * Cooldown}
        /\ \A j \in DOMAIN lastUsed' : lastUsed'[j] = lastUsed[j]
        /\ UNCHANGED <<now, accepted>>
    BY <1>4 DEF Cleanup, CleanupBefore
  <2> QED BY <2>1
<1>5. CASE Tick
  BY <1>5 DEF Tick
<1>6. CASE UNCHANGED vars
  BY <1>6 DEF vars
<1> QED BY <1>1, <1>2, <1>3, <1>4, <1>5, <1>6 DEF Next

\* The invariant holds in every behaviour.
LEMMA IInvHolds == Spec => []IInv
  BY InitIInv, StepIInv, PTL DEF Spec

\* A key is refused only within a cooldown of its last acceptance and accepted
\* only after it, cleaned up or not: see CooldownExact.
THEOREM CooldownCorrect == Spec => []CooldownExact
<1>1. IInv => CooldownExact
  <2> SUFFICES ASSUME IInv, NEW k \in Keys
               PROVE  IF Stored(k) /\ ~CooledDown(k)
                      THEN accepted[k] # Never /\ now - accepted[k] <= Cooldown
                      ELSE accepted[k] # Never => now - accepted[k] >= Cooldown
    BY DEF CooldownExact
  <2> USE CommandAssumption DEF IInv, TypeOK, EntriesMatch, Times, Never
  <2>1. CASE Stored(k)
    <3>1. lastUsed[k] \in 0 .. MaxTime /\ accepted[k] \in 0 .. MaxTime
      BY <2>1 DEF Stored
    <3> QED BY <2>1, <3>1 DEF CooledDown
  <2>2. CASE ~Stored(k)
    BY <2>2
  <2> QED BY <2>1, <2>2
<1> QED BY <1>1, IInvHolds, PTL

\* Two acceptances of one key are a cooldown apart.
THEOREM AcceptancesApart == Spec => AcceptedApart
<1> DEFINE Apart == \A k \in Keys :
         accepted'[k] # accepted[k] /\ accepted[k] # Never =>
            accepted'[k] - accepted[k] >= Cooldown
<1>1. IInv /\ [Next]_vars => [Apart]_vars
  <2> SUFFICES ASSUME IInv, Next PROVE Apart
    OBVIOUS
  <2>1. ASSUME NEW c \in Callers, NEW k \in Keys, Accept(c, k) PROVE Apart
    <3>1. \A j \in Keys : accepted'[j] = IF j = k THEN now ELSE accepted[j]
      BY <2>1 DEF Accept, IInv, TypeOK
    <3>2. accepted[k] # Never => now - accepted[k] >= Cooldown
      BY <2>1, CommandAssumption
      DEF Accept, CooledDown, Stored, IInv, TypeOK, EntriesMatch, Times, Never
    <3> QED BY <3>1, <3>2
  <2>2. CASE UNCHANGED accepted
    BY <2>2
  <2> QED BY <2>1, <2>2 DEF Next, Refuse, TellTimeRemaining, Cleanup, CleanupBefore, Tick
<1> QED BY <1>1, IInvHolds, PTL DEF Spec, AcceptedApart
-----------------------------------------------------------------------------
\* A promise still standing is for a key that has not been used since, so that
\* its entry, if it is still there, runs out of its cooldown half a second later at most.
PromisesHold ==
    \A c \in Callers :
        LET k == told[c].key
        IN  k # NoKey /\ Stored(k) =>
                2 * (lastUsed[k] + Cooldown - told[c].until) <= TicksPerSecond

PInv == TypeOK /\ PromisesHold

\* Every step keeps the invariant.
LEMMA StepPInv == PInv /\ [Next]_vars => PInv'
<1> SUFFICES ASSUME PInv, [Next]_vars PROVE PromisesHold'
  BY StepTypeOK DEF PInv
<1> USE CommandAssumption DEF PInv, TypeOK, PromisesHold, Times
<1>1. ASSUME NEW c \in Callers, NEW k \in Keys, Accept(c, k) PROVE PromisesHold'
  <2>1. \A j \in Keys \ {k} : Stored(j)' => Stored(j) /\ lastUsed'[j] = lastUsed[j]
    BY <1>1 DEF Accept, Store, Stored
  <2>2. \A d \in Callers : told'[d] = IF told[d].key = k THEN Nothing ELSE told[d]
    BY <1>1 DEF Accept
  <2> QED BY <2>1, <2>2 DEF Nothing
<1>2. ASSUME NEW c \in Callers, NEW k \in Keys, Refuse(c, k) PROVE PromisesHold'
  BY <1>2 DEF Refuse, Stored
<1>3. ASSUME NEW c \in Callers, TellTimeRemaining(c) PROVE PromisesHold'
  <2> DEFINE k == refused[c]
  <2>1. k \in Keys /\ UNCHANGED <<now, lastUsed>>
    BY <1>3 DEF TellTimeRemaining
  <2>2. /\ told'[c].key = k
        /\ told'[c].until = now + Rounded(TimeRemaining(k))
        /\ \A d \in Callers \ {c} : told'[d] = told[d]
    BY <1>3 DEF TellTimeRemaining, Answer
  <2>3. Stored(k) => lastUsed[k] + Cooldown <= now + TimeRemaining(k)
    BY <2>1 DEF TimeRemaining, CooledDown, Stored
  <2>4. /\ TimeRemaining(k) \in Nat
        /\ Rounded(TimeRemaining(k)) \in Nat
        /\ 2 * (TimeRemaining(k) - Rounded(TimeRemaining(k))) <= TicksPerSecond
    BY <2>1, RemainingType, RoundedNear
  <2>5. Stored(k) => 2 * (lastUsed[k] + Cooldown - told'[c].until) <= TicksPerSecond
    BY <2>1, <2>2, <2>3, <2>4 DEF Stored
  <2> QED BY <2>1, <2>2, <2>5 DEF Stored
<1>4. CASE Cleanup
  <2>1. /\ \A j : Stored(j)' => Stored(j) /\ lastUsed'[j] = lastUsed[j]
        /\ UNCHANGED told
    BY <1>4 DEF Cleanup, CleanupBefore, Stored
  <2> QED BY <2>1
<1>5. CASE Tick
  BY <1>5 DEF Tick, Stored
<1>6. CASE UNCHANGED vars
  BY <1>6 DEF vars, Stored
<1> QED BY <1>1, <1>2, <1>3, <1>4, <1>5, <1>6 DEF Next

\* The waiting time a refused user is told is at most half a second short: see
\* RemainingSuffices.
THEOREM RemainingTimeSuffices == Spec => []RemainingSuffices
<1>1. Init => PInv
  BY InitTypeOK DEF Init, PInv, PromisesHold, Nothing
<1>2. PInv => RemainingSuffices
  <2> SUFFICES ASSUME PInv, NEW c \in Callers, told[c].key # NoKey,
                      2 * (now - told[c].until) >= TicksPerSecond
               PROVE  TimeRemaining(told[c].key) = 0
    BY DEF RemainingSuffices
  <2>1. Stored(told[c].key) => CooledDown(told[c].key)
    BY CommandAssumption DEF PInv, TypeOK, PromisesHold, CooledDown, Stored, Times
  <2> QED BY <2>1 DEF TimeRemaining
<1> QED BY <1>1, <1>2, StepPInv, PTL DEF Spec
=============================================================================
