------------------------- MODULE CommandRateLimiter -------------------------
(***************************************************************************)
(* The cooldown of slash commands, internal/pkg/command_ratelimit.go, and  *)
(* the two calls handleCommands makes to it (internal/bot/commands.go):    *)
(* CanExecute and, when that refuses, GetTimeRemaining for the message to  *)
(* the user.  The calls lock separately; the cleanup goroutine and other   *)
(* commands may run between them.  The message gives whole seconds, so     *)
(* what the user is told is not quite what GetTimeRemaining returned.      *)
(***************************************************************************)
EXTENDS Integers

CONSTANTS
    Keys,              \* pairs of user and command
    Callers,           \* goroutines inside handleCommands
    Cooldown,          \* cooldownTime in ticks
    TicksPerSecond,    \* the clock is finer than the seconds users are told
    MaxTime            \* bound: the clock stops here

ASSUME CommandAssumption ==
    /\ Cooldown \in Nat \ {0}
    /\ TicksPerSecond \in Nat \ {0}
    /\ MaxTime \in Nat

VARIABLES
    now,
    lastUsed,          \* a map from some of the keys to times
    refused,           \* per caller: the key it was refused, or NoKey
    told,              \* history, per caller: the last waiting time it was told, until
                       \* somebody uses the key again
    accepted           \* history, per key: when it was last accepted

vars == <<now, lastUsed, refused, told, accepted>>

NoKey == "none"
Never == -1
Nothing == [key |-> NoKey, until |-> 0]

Times == 0 .. MaxTime

\* %.0f: the nearest whole second, of two equally near ones the even one.
Rounded(remaining) ==
    LET rest == remaining % TicksPerSecond
        down == \/ 2 * rest < TicksPerSecond
                \/ 2 * rest = TicksPerSecond /\ (remaining \div TicksPerSecond) % 2 = 0
    IN  IF down THEN remaining - rest ELSE remaining - rest + TicksPerSecond

\* An answer to a caller promises the key from "until" on.
Answer(k, remaining) == [key |-> k, until |-> now + Rounded(remaining)]

TypeOK ==
    /\ now \in Times
    /\ DOMAIN lastUsed \subseteq Keys
    /\ \A k \in DOMAIN lastUsed : lastUsed[k] \in Times
    /\ refused \in [Callers -> Keys \cup {NoKey}]
    /\ told \in [Callers -> [key : Keys \cup {NoKey}, until : Nat]]
    /\ accepted \in [Keys -> Times \cup {Never}]

Init ==
    /\ now = 0
    /\ lastUsed = [k \in {} |-> 0]
    /\ refused = [c \in Callers |-> NoKey]
    /\ told = [c \in Callers |-> Nothing]
    /\ accepted = [k \in Keys |-> Never]

Stored(k) == k \in DOMAIN lastUsed

\* Mutant: the entry says when the cooldown ends instead of when the command was used.
StoreExpiry(k, time) ==
    lastUsed' = [key \in DOMAIN lastUsed \cup {k} |->
                    IF key = k THEN time + Cooldown ELSE lastUsed[key]]

Store(k, time) ==
    lastUsed' = [key \in DOMAIN lastUsed \cup {k} |-> IF key = k THEN time ELSE lastUsed[key]]

\* What the code asks of a key: time.Since(lastUsed) >= cooldownTime.
CooledDown(k) == now - lastUsed[k] >= Cooldown

(***************************************************************************)
(* CanExecute.  With an entry the clock is read once for the test and      *)
(* again for the new entry; a tick may pass between.                       *)
(***************************************************************************)
Accept(c, k) ==
    /\ refused[c] = NoKey
    /\ Stored(k) => CooledDown(k)
    /\ now' \in (IF Stored(k) THEN {now, now + 1} ELSE {now}) \cap Times
    /\ Store(k, now')
    /\ accepted' = [accepted EXCEPT ![k] = now]
    /\ told' = [d \in Callers |-> IF told[d].key = k THEN Nothing ELSE told[d]]
    /\ UNCHANGED refused

\* Mutant: a refused attempt restarts the cooldown.
RefuseRestarts(c, k) ==
    /\ refused[c] = NoKey
    /\ Stored(k) /\ ~CooledDown(k)
    /\ Store(k, now)
    /\ refused' = [refused EXCEPT ![c] = k]
    /\ UNCHANGED <<now, told, accepted>>

Refuse(c, k) ==
    /\ refused[c] = NoKey
    /\ Stored(k) /\ ~CooledDown(k)
    /\ refused' = [refused EXCEPT ![c] = k]
    /\ UNCHANGED <<now, lastUsed, told, accepted>>

\* Mutant: the time that has gone by instead of the time that is left.
ElapsedTime(k) == IF Stored(k) THEN now - lastUsed[k] ELSE 0

\* GetTimeRemaining.
TimeRemaining(k) ==
    IF Stored(k) /\ ~CooledDown(k) THEN Cooldown - (now - lastUsed[k]) ELSE 0

TellTimeRemaining(c) ==
    /\ refused[c] # NoKey
    /\ told' = [told EXCEPT ![c] = Answer(refused[c], TimeRemaining(refused[c]))]
    /\ refused' = [refused EXCEPT ![c] = NoKey]
    /\ UNCHANGED <<now, lastUsed, accepted>>

CleanupBefore(cutoff) ==
    /\ lastUsed' = [k \in {key \in DOMAIN lastUsed : lastUsed[key] >= cutoff} |-> lastUsed[k]]
    /\ UNCHANGED <<now, refused, told, accepted>>

\* Mutant: entries are kept for less than the cooldown.
CleanupTooEarly == CleanupBefore(now - (Cooldown - 2))

\* The cleanup goroutine, which nothing stops; the entries it removes are older
\* than twice the cooldown.
Cleanup == CleanupBefore(now - 2 * Cooldown)

Tick ==
    /\ now < MaxTime
    /\ now' = now + 1
    /\ UNCHANGED <<lastUsed, refused, told, accepted>>

Next ==
    \/ \E c \in Callers, k \in Keys : Accept(c, k) \/ Refuse(c, k)
    \/ \E c \in Callers : TellTimeRemaining(c)
    \/ Cleanup
    \/ Tick

Spec == Init /\ [][Next]_vars
-----------------------------------------------------------------------------
\* A key that is not usable was accepted at most a cooldown ago (and a tick, for
\* the two readings of the clock), and a key that is usable was not accepted
\* within the cooldown: forgetting old entries changes neither, and neither do
\* refused attempts (CanExecute, Cleanup).
CooldownExact ==
    \A k \in Keys :
        IF Stored(k) /\ ~CooledDown(k)
        THEN accepted[k] # Never /\ now - accepted[k] <= Cooldown
        ELSE accepted[k] # Never => now - accepted[k] >= Cooldown

\* Two acceptances of one key are a cooldown apart, whoever asks, cleaned up or
\* not (CanExecute).
AcceptedApart ==
    [][\A k \in Keys :
         accepted'[k] # accepted[k] /\ accepted[k] # Never =>
            accepted'[k] - accepted[k] >= Cooldown]_vars

\* The time a refused user is told is at most half a second short, by its rounding:
\* whoever waits that much longer finds the key usable, unless it has been used
\* since, even though the time was taken in a second critical section after the
\* refusal (GetTimeRemaining and the message of handleCommands).
RemainingSuffices ==
    \A c \in Callers :
        told[c].key # NoKey /\ 2 * (now - told[c].until) >= TicksPerSecond =>
            TimeRemaining(told[c].key) = 0
=============================================================================
