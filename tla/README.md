# TLA+ models of discord-activity-bot

The bot receives every message of the Discord servers it is in, keeps one row
per message in PostgreSQL, and answers slash commands with statistics. The
modules here model what happens to a message between Discord and the database,
the guards on the way (message rate limiter, circuit breaker, command cooldown),
the cache of users, the admin roles, and the life of a slash command from dispatch
to its last answer. They are checked with TLC on small instances; all safety
properties are also proved with TLAPS for all instances.

    tlc -config breaker.cfg MCBreakerCallers      # one run
    tlapm BreakerProofs.tla                       # one module of proofs

`PROJECT.json` lists the runs, the theorems, the findings, the hazards, and for
every definition the source lines it models.

## 1. Inventory

### Components, their state and their operations

| component (source) | state | operations | module |
|---|---|---|---|
| Message pipeline (`internal/bot/bot.go`) | `msgBuffer` under `bufferLock`, `activeInserts`, `wg`, `shutdownCh`, `flushTimer`, message counters | `messageCreate`, `flush`/`flushLocked`, `startFlushTimer`, `insertBatch`, `startUserRefreshJob`, `Stop` | `MessagePipeline`, abstractly `MessageLedger` |
| Circuit breaker (`internal/pkg/circuitbreaker.go`) | `state`, `failures`, `halfOpenSuccess`, `lastFailureTime` under an RWMutex | `Call`, `CanCall`, `RecordResult` | `CircuitBreaker`, `BreakerCallers` |
| Message rate limiter (`internal/pkg/ratelimit.go`) | maps of users and guilds to timestamps, under a mutex | `CheckUser`, `CheckGuild`, `cleanup`, `evictOldestUser`, `Stop` | `RateLimiter` |
| Command rate limiter (`internal/pkg/command_ratelimit.go`) | map of user:command to the last use, under a mutex | `CanExecute`, `GetTimeRemaining`, `Cleanup` | `CommandRateLimiter` |
| User service (`internal/users/cached_user_service.go`, `db/users.sql.go`) | cache map under an RWMutex; the `users` table | `GetUser`, `RecordUserActivity`, `RefreshStaleUsers`, `CleanupExpiredEntries`, evictions | `UserService` |
| Admin roles (`internal/bot/admin_commands.go`) | map of guilds to roles, without a lock; the `admin_roles` table | `AddRole`, `RemoveRole`, `HasAdminRole`, `setupAdminCommands` | `AdminRoles` |
| Slash commands (`internal/bot/commands.go`, `admin_commands.go`, `recovery.go`) | one interaction per goroutine: not answered, deferred, answered | `handleCommands`, `handleAdminCommands`, fifteen handlers, `respondError`, `withRecovery` | `Commands` |
| Request tracking (`internal/pkg/tracing_coverage.go`) | map of requests under a mutex | `StartRequestTracking`, and its end | `tracked` in `Commands` |
| Response channels | one table, read by its own list command only | set, clear, list | `Commands` |
| Start and shutdown (`cmd/discord-activity-bot/main.go`, `Bot.Start`) | pool, signal, metrics context | `main`, `Start` | the end of `main` in `MessagePipeline`; `setupAdminCommands` in `AdminRoles` |
| Validation, metrics endpoints, spans, logging, charts, generated queries, schema | none that a decision depends on | | not modelled |

### How they interact

discordgo runs every handler in a goroutine of its own. `messageCreate` asks
the rate limiter for the guild, then for the user; starts a goroutine that
records the user's activity; appends to the buffer under `bufferLock` and, if
the buffer is full, flushes. `flushLocked` always runs under `bufferLock`, for
a handler, for the timer callback or for `Stop`: it cuts the buffer, asks
`shutdownCh`, the breaker and `activeInserts`, and starts an inserter, which
goes through the breaker once more (`Call`) and writes the batch in one
transaction. The refresh job shares the WaitGroup, `shutdownCh` and the connection
pool with the pipeline. `main` calls `Stop` on a signal and closes the pool after it,
which waits for everybody who has a connection.
`handleCommands` asks the command limiter first, and a second time for the
text of a refusal; `handleAdminCommands` then asks the permission check, which reads
the admin roles. Handlers execute statements, ask the user service for names, and
answer through Discord, which accepts one initial response (an answer or a deferral)
and any number of edits. The user service is shared by handlers, by the refresh
job, and by one goroutine per message.

### What is hard

* Everything is concurrent: handlers, timer, inserters, refresh job, cleanup
  loops, `Stop`. The breaker decides in two critical sections, and learns
  the result of a call after other calls have changed its state.
* `Stop` may come at any moment, also between the shutdown check of a flush and
  the start of its inserter, and it waits with a timeout.
* Statements, commits and connections fail; a commit can succeed and still
  return an error.
* Commands are served from `discord.Open` on, while `Start` still creates and
  fills the admin roles; their map has no lock.
* Between reading a row (or Discord's answer) and writing cache or row, the user
  service holds no lock, so that answers overtake each other.
* A handler has many ways out, and a panic may cut it off anywhere; its user must be
  answered all the same, once.
* Memory is bounded by evictions and cleanups which must not change decisions.
* Several things happen only because something else re-arms or probes:
  the timer, the open breaker.

`PROJECT.json` lists these hazards at their lines with the properties that
cover them; those without a property say why.

### What makes each component correct

* **Pipeline**: every accepted message gets exactly one outcome, batches are
  decided as a whole, rows agree with outcomes and counters; the number of
  inserters and of undecided messages in memory is bounded; `Stop` returns, and waits for
  what it can wait for.
* **Breaker**: opens on consecutive failures only, closes on consecutive
  successes only, never stays open for good.
* **Rate limiter**: any window keeps its limit; forgetting has no effect.
* **Command limiter**: two uses are a cooldown apart; the time told is
  short by its rounding at most.
* **User service**: the cache stays within its size and agrees with the table
  unless calls overlap or an upsert fails; names and last messages go back only
  by such races; the name of a quiet user catches up with Discord.
* **Admin roles**: slice and table agree unless changes overlap or fail; nobody
  is let through for a role that was never granted; what was revoked gets no row again.
* **Commands**: every user is answered, once, and truthfully; refusals do
  nothing; the tracker forgets what has returned or panicked.

## 2. Modules

**CircuitBreaker** has the fields of the breaker and one operator per critical
section: `TransitionToHalfOpen` (second section of `CanCall`), `RecordFailure`,
`RecordSuccess`. Time enters the code through one comparison, so
`lastFailureTime` is the Boolean `cooled`. It has no `Next`: the modules that
extend it decide who runs the sections.

**BreakerCallers** lets any number of goroutines go through `Call`: `ReadState`
(read lock), `TestTimeout` (write lock), then `Fail` or `Succeed`. The database
is up or down (`healthy`), and changes at will. `streak`, `goodRun` and `probes`
are history variables.

**MessageLedger** is the abstract specification: a message is refused or
pending, and a set of pending messages is decided at once: stored with its rows,
dropped without, or failed with all rows or none.

**MessagePipeline** extends `CircuitBreaker`. One handler state per delivery; the
buffer, and the batch in `flushLocked`, are sets of deliveries (their order is
never looked at). `lock` names the holder of `bufferLock` and `flushAt` its place
inside `flushLocked`: each check is an action, so `Stop`, inserters and
the clock can interleave with it. An inserter is a record of its batch and its
place in `insertBatch`; batches are disjoint, so a set of inserters suffices.
`timer` includes the callback; `stop` goes from `Stop` to the end of `main`.
Which deliveries the rate limiters and the validation refuse is left open
(`Refuse`), since here they only decide whether a message goes on.
PostgreSQL is external: `Begin`, a statement or the commit may fail; a failed
statement aborts the transaction; a failed commit may have written the rows.
`pool.Close` waits for all connections in use, as pgxpool documents: `Exit` needs those of
inserters and of the refresh job (`querying`) back. Command handlers and recorders of
activity have connections too; they are no part of this module, so that when theirs come
back is left open: `Exit` may happen once the others allow it, and need not.
`Ledger == INSTANCE MessageLedger WITH ...` maps buffer, batches and inserters
to outcomes; `KeepsLedger` is the refinement.

**RateLimiter** and **CommandRateLimiter** have one action per method, since
each runs under one mutex. Clocks are integers. The nanosecond clock never gives
two readings under one mutex the same value, so a check of the rate limiter takes
a tick; the command limiter compares with `>=` at a coarser grain and may
accept twice in a tick only for different keys. Which commands callers run
is left open. `handleCommands` appears as the pair `Refuse`, `TellTimeRemaining`; its
message gives the time left by `%.0f`, which is `Rounded`, to whole seconds, half to even.
Cleanups may happen at any time, more often than their tickers allow.

**AdminRoles** follows one guild. The commands store its slice under the guild of the
interaction, the check looks it up under the guild that the member names (`guildNamed`). `AddRole`, `RemoveRole`
and the appends of the loading are records in `calls`, with one action per access to
table or map: statement, test for the missing slice, making it, reading it, and
assigning the slice computed from what was read. `boot` is the progress of
`setupAdminCommands`, which uses the same steps; `Restart` may come at any moment
and leaves only the table. `disturbed` (history) is set when two changes overlap
between statement and assignment, or one is reported as failed. Go promises nothing
of a map written by two goroutines; the runtime may also end the process,
which is a `Restart`.

**Commands** has a place per goroutine, and the fifteen handlers as sets of steps made of
a few shared ones (`InteractionRespond`, `Defer`, `InteractionResponseEdit`, `Statement`,
`EditResponse`, `RespondError`), so that each shows its own deviations: which defer, which
answer an error by a new response after the deferral, which look things up. A call to
Discord succeeds, fails, or takes effect and still returns an error; a second initial
response is refused. The cooldown and the permission check are left open here, since
`CommandRateLimiter` and `AdminRoles` say when they refuse. `ready` tells whether
`b.adminRoles` has been assigned; before, an admin command panics. `OptionMissing` is the
panic of the seven handlers that read their first option by position, without a look at how
many there are. Discord enforces a required option as it was registered last, and
a registration that fails is only logged, so that an older form of a command may be served.
A deferred function ends the tracking of a public command, before `withRecovery` gets to
see a panic: `Goto`.

**UserService** has one action per access to row, cache or Discord of `GetUser` and
`fetchAndUpdateUser`; the job calls the latter for the users its query returned. A name
is the number of renames before it, a message its number, so that newer is larger. There is no
clock: rows and cache entries are kept in the order in which they were touched, and
`AgeRow` and `AgeEntry` let an hour pass for the oldest of them. That an hour is
the same for both is not used. A row or entry that is touched leaves its position and goes to
the end (`RemoveAt`, `Append`); which position that is, is a quantifier and not a search, so
that the provers can follow it. `overlapped` and `unreported` are history variables.

**MC\*** modules add the symmetry sets, **\*Proofs** modules the theorems.

Operators commented `Mutant:` are plausible mistakes in one definition; putting one in
its place must violate the property that `PROJECT.json` names for it. Nothing
else uses them.

## 3. Runs

| run | instance | checks |
|---|---|---|
| `breaker` | 3 callers, threshold 4 (so 2 successes to close), fair | counters explain the state, counter bounded, trips and recovers on runs; probed, recovers |
| `breaker_limited` | 3 callers, threshold 3 | finding: half-open does not limit calls |
| `pipeline_safety` | 3 deliveries, batches of 2, 1 inserter, breaker trips at 1 failure | refinement of the ledger, counters, limits, backlog, shutdown |
| `pipeline_liveness` | 2 deliveries, the rest as above, fair | messages decided, `Stop` returns |
| `pipeline_stop` | as `pipeline_liveness` | finding: `Stop` drops the buffer |
| `command_cooldown` | 2 keys, 2 callers, cooldown of 4 ticks of half a second, clock to 12 | cooldown exact, time told short by half a second at most |
| `rate_limits` | 3 users, 2 entries, limit 2, window 4, clock to 7 | limits, forgetting, memory |
| `admin_roles` | 2 roles, one of them in the environment, 2 handlers, restarts | differences explained, nothing made up, revocations last |
| `commands` | 2 goroutines, one interaction after the other, every command, restarts | answers true, single and never missing; refusals; tracking |
| `users` | a user who is renamed once and writes twice, one whom Discord no longer returns, 1 caller and the job, 1 cache entry, fair | cache against table, what may go back, names catch up |
| `rate_lru`, `rate_cleanup` | the same, 3 or 2 entries | findings: eviction by age of entry, cleanup without effect |

**Why the bounds are enough.** Three callers let the results of two calls be
overtaken by a third, and a threshold of four makes `halfOpenMax` two, so that
single probes do not decide. Three deliveries with batches of two give a full
buffer, a rest for the timer and one for `Stop` in one behaviour; one inserter
slot makes the limit bind at once, and a breaker that trips on one failure opens
between the two questions asked of it for a batch. Two
handlers and `Start` are three writers of the slice, of which two can be overtaken by
the third; two roles are enough for a write to lose one and to bring back the other.
The goroutines of `Commands` share only the tracker and `ready`. One cache entry
makes every new user evict another; a caller and the job are the two calls that
overlap, and one rename and two messages give each of them something to bring back.
The user whom Discord does not return fails in every round of the job: `RefreshLimit`
has to be larger than the number of such users, for they stay at the head of its query,
and with as many as the limit no other user would be refreshed any more. With a limit of two and
two users the LIMIT itself never cuts. A
clock of twelve ticks outlasts two cooldowns of four and the cleanup age, and with two ticks
to the second both kinds of half seconds are told, those rounded down and those rounded
up; seven
ticks let a window of four pass completely, with an entry older than
`CleanupPeriod`. The clocks are bounded by `MaxTime`; after the
last tick there are states without a step, so the rate limiter's runs
do not check for deadlock (its `Next` is disabled once the clock and the
cleanup loop have stopped, an artefact of that bound). Symmetry is used in
runs without liveness properties only.

**Fairness.** `BreakerCallers`: callers keep calling and calls return, because
each has a context with a deadline, and time passes. `MessagePipeline`: timer,
flusher and inserters are scheduled (weak fairness); those who wait
for `bufferLock` get it although others keep taking it (strong fairness:
`sync.Mutex` hands itself over to a waiter after a millisecond). Nothing obliges
Discord to deliver, an operator to stop the bot, or a refresh to come to an end
before `Stop` does; `StopReturns` then rests on the timeout of 30 seconds. Nor is `Exit` fair:
that the process ends is not claimed. `UserService`: time goes on and
the job with it (weak fairness); its query, and for a user who is not gone the answer of
Discord and the upsert, do not fail for ever (strong fairness, since they may fail
now and then). Nothing obliges callers to do anything. `AdminRoles` and `Commands` have safety
properties alone: no fairness is stated.

## 4. Findings

Four statements of comments or documents that the code does not keep, each with
a counterexample: `Stop` does not flush but drops (`pipeline_stop`); the eviction
is not by activity (`rate_lru`); the cleanup removes nothing (`rate_cleanup`); the
half-open breaker does not limit calls (`breaker_limited`).

Further places where code and text disagree, without a run of their own:

* `ADMIN_ROLES_<guild>` is meant as a fallback for a failed load
  (`admin_commands.go:306`), but `AddRole` returns the error of its statement before
  it touches the map, so it is none while the database is down.
* `docs/api/admin-commands.md` promises that members of a removed role "lose access
  instantly". An addition that has read the slice before the removal wrote it brings the role
  back (`DifferenceExplained` needs `disturbed` for that).
* `set-`, `clear-` and `list-response-channel(s)` defer and then report an error of their
  statement with `respondError`, a second initial response (`admin_commands.go:824`, `885`,
  `912`). Discord refuses it and the user waits in vain: the exception in `ReturnedIsTold`.
* `set-response-channel` panics after it has saved if Discord does not return the
  channel (`admin_commands.go:829`): the exception in `AnswersAreTrue`.
* The channel stored by `set-response-channel` is never used for an answer; "leave empty to
  clear all" clears the default of the guild only.
* A statement without an answer can keep the process from ending: `Stop` gives up after 30
  seconds, but the deferred `pool.Close` (`main.go:228`) waits for every connection, and
  commands look users up on `context.Background` (`commands.go:355`, `487`, `604`, `725`,
  `879`, `admin_commands.go:446`, `935`).
* A user who is refused is told the time left in whole seconds, rounded (`commands.go:188`):
  with 0.4 seconds left, 0. `RemainingSuffices` allows for half a second.
* `checkAdminPermission` looks the roles up under `member.GuildID` (`admin_commands.go:396`),
  the commands store them under `i.GuildID` (`664`, `685`). If Discord sends the member of
  an interaction without its guild, no custom role lets anybody through, whatever the table
  says: the case `~guildNamed` of `PermissionsFollowTable`.
* The cooldown is spent before the permission is checked, and an unknown command gets
  no answer.
* A user who writes at least once an hour is never refreshed, because each message
  sets `last_updated_at`; `NameCatchesUp` is about users who have fallen quiet.

## 5. Proofs

Every theorem holds for all values of the constants, assuming only the named
`ASSUME`s: thresholds, sizes and limits are positive, and the sets of callers
and of deliveries are finite, as is the set of users whom Discord no longer returns. The
rate limiters' sets need not be finite; their clock bound `MaxTime` is any natural number.

* **Breaker.** `TypeOK` is inductive. `CountersExplainState` becomes so with it:
  a result is counted in `failures` and in the history at once, and
  `halfOpenSuccess` starts at 0 while `goodRun` is not negative.
  `FailuresBounded` was chosen inductive: in the open state the counter plus the
  calls still running is bounded, so a failure moves one from one summand to the
  other. `RunsCorrect` reads the invariant off at the steps that change the state.
* **Pipeline.** `IInv` = `TypeOK`, `LockInv`, `Owned`, `Counted`. The types alone
  are not inductive, because counters are decremented: that they stay natural
  numbers needs `Counted` (they equal the numbers of goroutines). `Counted` needs
  `Owned`: two inserters with one batch in one place would be one element of the
  set, so batches have to be non-empty and disjoint. `LockInv` says who holds the
  lock where, and carries `NoLateSpawn`: once `Stop` has flushed, no flusher is
  past its shutdown check. `DrainedCorrect` adds that from the moment the waiter
  signals, the WaitGroup stays at zero. The limit is kept because only the holder of
  the lock raises `activeInserts`, after testing it.
* **Breaker in the pipeline.** `BreakerCallers` lets its callers do nothing but call. In the
  pipeline the flusher asks the breaker too, and never reports a result, and the callers
  come and go. `BreakerCorrect` proves `BreakerExplained` there: the counters explain the
  state, and with the calls still running (`Runners`) the counter of an open breaker is at most
  `MaxFailures + MaxGoroutines - 1`. It rests on `Counted`, which bounds `Runners` by the
  slots, and `RunnersMove`, how a step of an inserter changes their number. The bound is
  reached (two slots, two failures).
* **Rate limiter.** Each map satisfies an invariant of its own: it explains the
  history, and every window of the history is within the limit. One lemma per
  helper (`Pruned`, `Added`, `Without`, time passing) says that it keeps it; the
  heart is `AcceptKeepsLimit`: an interval that contains the new message starts
  after the window's cut-off, so the message is one more than a set counted
  below the limit. `DecisionsCorrect` turns it round to the single decision: a guild's
  message is accepted if and only if fewer than the limit were accepted in its window, and so
  is a user's, except that a user with an oldest entry in a full map may be evicted
  by the very check and accepted in any case. So the limiter never refuses wrongly.
* **Command limiter.** The entries agree with the history up to the ticks
  between two readings of the clock, and an entry that is missing was accepted
  longer ago than the cooldown. `RemainingTimeSuffices` needs of the message only
  `RoundedNear`: rounding takes away half a second at most.
* **Rate limiter's memory.** `MemoryInv` bounds the entries and, with the limit, the
  timestamps of each; an entry is added only after `EvictionMakesRoom`.
* **Ledger.** `KeepsLedger` is a theorem (`LedgerKept`). `Settled` says where the
  database has got with the messages under way. With it, `OutcomeExplained` reads a
  message's outcome off the place it is in, so that each action has to be compared with one
  place only; `Means` then reduces every step to one of four things it can do to outcomes,
  rows and counters, and both the refinement and `MetricsAccount` follow from `Means`.
  `RowsCorrect` transfers the ledger's own invariant to the pipeline, and
  `DecisionsAreFinal` what the ledger means for a message: once refused, stored, dropped or
  failed it stays so, and its row stays. `BatchesStayWhole` needs `Ended`, where the database
  has got with the batches whose call is over, in the places that `Settled` does not mention.
* **Backlog.** `BacklogStaysBounded`: at most `BatchSize * (activeInserts + 1)` messages are
  in memory undecided, and so never more than `MaxGoroutines + 1` batches, which is what a
  crash can lose. `OneQueue` (buffer or batch
  is empty, since the lock is held while a batch is flushed) makes the factor one more than
  the slots and not two. That n sets of k elements have n * k at most is not an
  induction here: `UnionBound` numbers the elements of each and uses the size of a
  product and of the image of a surjection. The bound is reached (one slot, batches of one).
* **Admin roles.** `IInv` adds to the types: what each phase of `Start` implies (`Shape`);
  that everything that can get into slice or table has been granted (`Justified`); and,
  while nothing is disturbed, that one call at most is between statement and assignment and
  has seen the slice as it still is (`Ordered`). `DifferenceExplained` is not
  inductive without `Ordered`. What it means for the permission check is `PermissionsCorrect`:
  a member who names the guild gets through by a role if and only if one of the member's
  roles has a row, as long as nothing overlaps or fails and none of them is just being changed;
  one who does not name it gets through as an administrator only. Whatever happens, a
  member who gets through without that right has a role that has had a row.
* **Commands.** `Fits` says, for every place of a handler, what its statement has
  returned, what can be shown and which commands get there. A step concerns one goroutine
  (`OneGoroutine`), so each action is checked at the place it reaches.
* **Users.** `Alone`: as long as calls have not overlapped for a user, at most one holds a
  name for that user, and none older than the row's. That no row and no answer is ahead of Discord
  (`RowsOld`, `AnswersOld`) makes the next answer at least as new.
  `Typed` is the shape of rows, cache, calls and job. Its difficult part is that a user
  who is touched leaves one position of a sequence and takes the last (`Moved`,
  with one lemma for what happens to the others, to the user and to the absence of duplicates);
  `CacheStaysBounded` follows. `Agreed` then gives `CacheAgrees`: for a user without overlap or unreported upsert,
  whoever is about to cache a name has the name in the row (`Backed`), and the entry has it
  unless such a call is under way (`Followed`). `CacheFollowsRow` alone is not
  inductive: it does not say what that call will write. `Alone` is what keeps two calls
  from passing each other.

### Only model-checked

* Liveness (`OpenIsProbed`, `Recovers`, `StopReturns`, `EveryMessageDecided`,
  `NameCatchesUp`), which the prover does not cover.

## 6. Not modelled

* Charts, spans, exporters, logging, generated query code and the SQL of the statistics
  have no state the bot decides on. Validation is a pure predicate on strings, and
  the pipeline takes both its outcomes. The metrics server only reads.
* Registration of commands with Discord, configuration, migrations: they run once, before
  or beside everything else. The pipeline starts where `Start` ends; messages that
  arrive before the first timer is armed are not distinguished from later ones.
* The queue and the reconnects inside discordgo, and PostgreSQL itself,
  are external; only what the bot can see of them appears.
* What answers say: embeds, numbers, formatting. `AnswersAreTrue` tells results from errors only.
* `GetUserByUsername`, the name histories, the look-up of a single response channel and most
  statements of `users.sql.go` are called by nobody.
* Go's memory model appears where the code has a race that it runs
  into: `Stop` reads `flushTimer` while the callback writes it, and
  `StopTimer` takes either value; the map of admin roles is read and written
  in separate actions. `RecordUserActivity` writes through a pointer that
  `GetUser` has handed out, a data race on fields that nobody reads: left out.

## 7. Plan

Done, in this order: breaker, pipeline with ledger, command limiter, rate
limiter; admin roles, commands, user service; the proofs of all safety properties. What is
left:

1. A composition of `Commands` with `CommandRateLimiter` and `AdminRoles` in place of the
   open choices. The properties of each do not depend on when the others refuse, so that
   it would confirm rather than extend what is checked.
2. Guild and user limits composed with `messageCreate`: the guild is charged for messages
   refused for their author.
