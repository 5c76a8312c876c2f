------------------------------ MODULE Commands ------------------------------
(***************************************************************************)
(* The life of an interaction, from handleCommands to the last answer of   *)
(* its handler (internal/bot/commands.go, admin_commands.go, recovery.go). *)
(*                                                                         *)
(* discordgo runs a goroutine per interaction.  Discord accepts one        *)
(* initial response to an interaction, which may be a deferral ("the bot   *)
(* is thinking"), and then edits of it; either call can fail, or take      *)
(* effect and still return an error.  A handler is the set of its steps,   *)
(* found by its command and the place it has reached.  What is looked up   *)
(* to be shown (users, channels, roles) changes no decision and is left    *)
(* out, except where the code relies on it; so is the wording.             *)
(***************************************************************************)
CONSTANT Goroutines      \* the goroutines that run handlers

Public == {"chattiest", "userstats", "trending", "channel-activity", "rising-stars", "peak-hours"}

AdminOnly == {"inactive-users", "inactive-channels", "server-activity",
              "add-bot-admin-role", "remove-bot-admin-role", "list-bot-admin-roles",
              "set-response-channel", "clear-response-channel", "list-response-channels"}

VARIABLES
    request,     \* the command of each goroutine; "other": anything that is no known command
    at,          \* the place it has reached
    statement,   \* what its statement returned
    shown,       \* what Discord shows to the user (external)
    failed,      \* history: a call to Discord that was in order returned an error
    tracked,     \* the requests in globalCoverageTracker
    ready        \* b.adminRoles has been assigned

vars == <<request, at, statement, shown, failed, tracked, ready>>

Places == {"idle", "dispatch", "cooldown", "permission", "deny", "defer", "statement", "users",
           "channel", "chart", "sayError", "sayEmpty", "sayImage", "sayResult", "respondError",
           "panic", "panicEdit", "returned"}
Unhandled == {"idle", "dispatch", "cooldown", "panic", "panicEdit", "returned"}
Answers == {"cooldown", "denied", "empty", "result", "error"}

TypeOK ==
    /\ request \in [Goroutines -> Public \cup AdminOnly \cup {"other"}]
    /\ at \in [Goroutines -> Places]
    /\ statement \in [Goroutines -> {"none", "ok", "error"}]
    /\ shown \in [Goroutines -> {"nothing", "thinking"} \cup Answers]
    /\ failed \in [Goroutines -> BOOLEAN]
    /\ tracked \in SUBSET Goroutines
    /\ ready \in BOOLEAN
    /\ \A g \in Goroutines : request[g] = "other" => at[g] \in Unhandled

Init ==
    /\ request = [g \in Goroutines |-> "other"]
    /\ at = [g \in Goroutines |-> "idle"]
    /\ statement = [g \in Goroutines |-> "none"]
    /\ shown = [g \in Goroutines |-> "nothing"]
    /\ failed = [g \in Goroutines |-> FALSE]
    /\ tracked = {}
    /\ ready = FALSE
-----------------------------------------------------------------------------
(***************************************************************************)
(* Steps that handlers are made of.                                        *)
(***************************************************************************)

\* Mutant: the tracking is ended by a call before each return instead of a deferred function.
GotoLeaky(g, place) ==
    /\ at' = [at EXCEPT ![g] = place]
    /\ tracked' = IF place = "returned" THEN tracked \ {g} ELSE tracked

\* A deferred function ends the tracking of a request, when its handler returns and, before
\* the recovery gets to see the panic, when it panics.
Goto(g, place) ==
    /\ at' = [at EXCEPT ![g] = place]
    /\ tracked' = IF place \in {"returned", "panic"} THEN tracked \ {g} ELSE tracked

\* Discord carries out a call, which succeeds, or fails with or without effect.
Call(g, answer, onSuccess, onError) ==
    /\ \/ /\ shown' = [shown EXCEPT ![g] = answer]
          /\ Goto(g, onSuccess)
          /\ UNCHANGED failed
       \/ /\ shown' \in {shown, [shown EXCEPT ![g] = answer]}
          /\ Goto(g, onError)
          /\ failed' = [failed EXCEPT ![g] = TRUE]
    /\ UNCHANGED <<request, statement, ready>>

\* Discord refuses a call that is not in order.
Refused(g, onError) ==
    /\ Goto(g, onError)
    /\ UNCHANGED <<request, statement, shown, failed, ready>>

InteractionRespond(g, answer, onSuccess, onError) ==
    \/ shown[g] = "nothing" /\ Call(g, answer, onSuccess, onError)
    \/ shown[g] # "nothing" /\ Refused(g, onError)

InteractionResponseEdit(g, answer, onSuccess, onError) ==
    \/ shown[g] # "nothing" /\ Call(g, answer, onSuccess, onError)
    \/ shown[g] = "nothing" /\ Refused(g, onError)

Defer(g, onError) ==
    at[g] = "defer" /\ InteractionRespond(g, "thinking", "statement", onError)

\* Mutant: no return after a statement that failed.
StatementWithoutReturn(g, next, onError) ==
    /\ at[g] = "statement"
    /\ \E result \in {"ok", "error"} : statement' = [statement EXCEPT ![g] = result]
    /\ \E place \in next : Goto(g, place)
    /\ UNCHANGED <<request, shown, failed, ready>>

\* The statement of a command; what it returns decides how the handler goes on.
Statement(g, next, onError) ==
    /\ at[g] = "statement"
    /\ \/ /\ statement' = [statement EXCEPT ![g] = "ok"]
          /\ \E place \in next : Goto(g, place)
       \/ /\ statement' = [statement EXCEPT ![g] = "error"]
          /\ Goto(g, onError)
    /\ UNCHANGED <<request, shown, failed, ready>>

\* A step that only reads, or draws a chart.
Pass(g, place, next) ==
    /\ at[g] = place
    /\ \E p \in next : Goto(g, p)
    /\ UNCHANGED <<request, statement, shown, failed, ready>>

\* Options are read by position.  Discord sees to it that a required one is there only as
\* far as the registration it has is this one: when registering a command fails, the bot
\* logs the error and serves it as it was registered before.
OptionMissing(g) == Pass(g, "statement", {"panic"})

EditResponse(g) ==
    \/ at[g] = "sayError" /\ InteractionResponseEdit(g, "error", "returned", "returned")
    \/ at[g] = "sayEmpty" /\ InteractionResponseEdit(g, "empty", "returned", "returned")

EditResponseEmbed(g) ==
    at[g] = "sayResult" /\ InteractionResponseEdit(g, "result", "returned", "returned")

RespondError(g) ==
    \/ at[g] = "deny" /\ InteractionRespond(g, "denied", "returned", "returned")
    \/ at[g] = "respondError" /\ InteractionRespond(g, "error", "returned", "returned")
-----------------------------------------------------------------------------
(***************************************************************************)
(* The public commands.  A deferral that fails ends the handler.           *)
(***************************************************************************)

HandleChattiest(g) ==
    \/ Defer(g, "returned")
    \/ OptionMissing(g)
    \/ Statement(g, {"sayEmpty", "users"}, "sayError")
    \/ Pass(g, "users", {"sayResult"})

HandleUserStats(g) ==
    \/ Defer(g, "returned")
    \/ OptionMissing(g)
    \/ Statement(g, {"users"}, "sayError")
    \/ Pass(g, "users", {"sayResult"})

HandleTrending(g) ==
    \/ Defer(g, "returned")
    \/ Statement(g, {"users"}, "sayError")
    \/ Pass(g, "users", {"sayResult"})

\* Mutant: no return after the message that there is nothing to show.
HandleChannelActivityGoesOn(g) ==
    \/ Defer(g, "returned")
    \/ Statement(g, {"sayEmpty", "users"}, "sayError")
    \/ at[g] = "sayEmpty" /\ InteractionResponseEdit(g, "empty", "users", "users")
    \/ Pass(g, "users", {"chart"})
    \/ Pass(g, "chart", {"sayError", "channel"})
    \/ Pass(g, "channel", {"sayResult"})

HandleChannelActivity(g) ==
    \/ Defer(g, "returned")
    \/ Statement(g, {"sayEmpty", "users"}, "sayError")
    \/ Pass(g, "users", {"chart"})
    \/ Pass(g, "chart", {"sayError", "channel"})
    \/ Pass(g, "channel", {"sayResult"})

HandleRisingStars(g) ==
    \/ Defer(g, "returned")
    \/ Statement(g, {"sayEmpty", "users"}, "sayError")
    \/ Pass(g, "users", {"chart"})
    \/ Pass(g, "chart", {"sayError", "sayResult"})

\* The channel is looked up only if one was given.
HandlePeakHours(g) ==
    \/ Defer(g, "returned")
    \/ Statement(g, {"sayEmpty", "channel", "chart"}, "sayError")
    \/ Pass(g, "channel", {"chart"})
    \/ Pass(g, "chart", {"sayError", "sayResult"})
-----------------------------------------------------------------------------
(***************************************************************************)
(* The admin commands.  They go on whether or not the deferral succeeds.   *)
(***************************************************************************)

HandleInactiveUsers(g) ==
    \/ Defer(g, "statement")
    \/ OptionMissing(g)
    \/ Statement(g, {"sayEmpty", "users"}, "sayError")
    \/ Pass(g, "users", {"sayResult"})

HandleInactiveChannels(g) ==
    \/ Defer(g, "statement")
    \/ OptionMissing(g)
    \/ Statement(g, {"sayEmpty", "channel"}, "sayError")
    \/ Pass(g, "channel", {"sayResult"})

\* Without a chart, or when the report with the chart cannot be sent, the report goes
\* out alone.
HandleServerActivity(g) ==
    \/ Defer(g, "statement")
    \/ Statement(g, {"chart"}, "sayError")
    \/ Pass(g, "chart", {"sayImage", "sayResult"})
    \/ at[g] = "sayImage" /\ InteractionResponseEdit(g, "result", "returned", "sayResult")

\* The manager that the statement goes through is missing until Start assigns it.
ThroughManager(g) ==
    \/ ready /\ Statement(g, {"sayResult"}, "sayError")
    \/ ~ready /\ Pass(g, "statement", {"panic"})

\* @everyone is refused before the statement.
HandleAddBotAdminRole(g) ==
    \/ Defer(g, "statement")
    \/ OptionMissing(g)
    \/ Pass(g, "statement", {"sayError"})
    \/ ThroughManager(g)

HandleRemoveBotAdminRole(g) ==
    \/ Defer(g, "statement")
    \/ OptionMissing(g)
    \/ ThroughManager(g)

HandleListBotAdminRoles(g) ==
    \/ Defer(g, "statement")
    \/ Statement(g, {"sayEmpty", "channel"}, "sayError")
    \/ Pass(g, "channel", {"sayResult"})

\* The channel is looked up after the configuration has been saved, and its name
\* taken without looking at the error.
HandleSetResponseChannel(g) ==
    \/ Defer(g, "statement")
    \/ OptionMissing(g)
    \/ Statement(g, {"channel"}, "respondError")
    \/ Pass(g, "channel", {"sayResult", "panic"})

HandleClearResponseChannel(g) ==
    \/ Defer(g, "statement")
    \/ Statement(g, {"sayResult"}, "respondError")

HandleListResponseChannels(g) ==
    \/ Defer(g, "statement")
    \/ Statement(g, {"sayEmpty", "users"}, "respondError")
    \/ Pass(g, "users", {"sayResult"})
-----------------------------------------------------------------------------
(***************************************************************************)
(* Dispatch, permission and recovery.                                      *)
(***************************************************************************)

\* Discord sends an interaction.
Receive(g) ==
    /\ at[g] = "idle"
    /\ \E r \in Public \cup AdminOnly \cup {"other"} : request' = [request EXCEPT ![g] = r]
    /\ at' = [at EXCEPT ![g] = "dispatch"]
    /\ UNCHANGED <<statement, shown, failed, tracked, ready>>

StartRequestTracking(g) == tracked' = tracked \cup {g}

\* Mutant: what is no public command is an admin command.
HandleCommandsByDefault(g) ==
    /\ at[g] = "dispatch"
    /\ \/ at' = [at EXCEPT ![g] = "panic"] /\ UNCHANGED tracked
       \/ at' = [at EXCEPT ![g] = "cooldown"] /\ UNCHANGED tracked
       \/ request[g] \in Public /\ at' = [at EXCEPT ![g] = "defer"] /\ StartRequestTracking(g)
       \/ request[g] \notin Public /\ at' = [at EXCEPT ![g] = "permission"] /\ UNCHANGED tracked
    /\ UNCHANGED <<request, statement, shown, failed, ready>>

\* A command from a direct message has no member, which the code relies on.
HandleCommands(g) ==
    /\ at[g] = "dispatch"
    /\ \/ at' = [at EXCEPT ![g] = "panic"] /\ UNCHANGED tracked
       \/ at' = [at EXCEPT ![g] = "cooldown"] /\ UNCHANGED tracked
       \/ request[g] \in Public /\ at' = [at EXCEPT ![g] = "defer"] /\ StartRequestTracking(g)
       \/ request[g] \in AdminOnly /\ at' = [at EXCEPT ![g] = "permission"] /\ UNCHANGED tracked
       \/ request[g] = "other" /\ at' = [at EXCEPT ![g] = "returned"] /\ UNCHANGED tracked
    /\ UNCHANGED <<request, statement, shown, failed, ready>>

TellCooldown(g) ==
    at[g] = "cooldown" /\ InteractionRespond(g, "cooldown", "returned", "returned")

\* Mutant: no return after the refusal.
HandleAdminCommandsGoesOn(g) ==
    \/ Pass(g, "permission", {"defer"})
    \/ at[g] = "permission" /\ InteractionRespond(g, "denied", "defer", "defer")

\* Administrators pass without a look at the manager, which may still be missing.
HandleAdminCommands(g) ==
    \/ Pass(g, "permission", {"defer"} \cup (IF ready THEN {"deny"} ELSE {"panic"}))

\* Mutant: recovery only tries to respond.
RespondToPanicErrorOnce(g) ==
    at[g] = "panic" /\ InteractionRespond(g, "error", "returned", "returned")

\* withRecovery has caught a panic; whether there has been a response is not known.
RespondToPanicError(g) ==
    \/ at[g] = "panic" /\ InteractionRespond(g, "error", "returned", "panicEdit")
    \/ at[g] = "panicEdit" /\ InteractionResponseEdit(g, "error", "returned", "returned")

\* The goroutine is gone; another one may take its name.
Forget(g) ==
    /\ at[g] = "returned"
    /\ at' = [at EXCEPT ![g] = "idle"]
    /\ request' = [request EXCEPT ![g] = "other"]
    /\ statement' = [statement EXCEPT ![g] = "none"]
    /\ shown' = [shown EXCEPT ![g] = "nothing"]
    /\ failed' = [failed EXCEPT ![g] = FALSE]
    /\ UNCHANGED <<tracked, ready>>

\* setupAdminCommands, while commands are already being served.
SetupAdminCommands ==
    /\ ready' = TRUE
    /\ ready = FALSE
    /\ UNCHANGED <<request, at, statement, shown, failed, tracked>>

\* The process ends and is started again; Discord keeps showing what it shows.
Restart ==
    /\ at' = [g \in Goroutines |-> "idle"]
    /\ request' = [g \in Goroutines |-> "other"]
    /\ statement' = [g \in Goroutines |-> "none"]
    /\ shown' = [g \in Goroutines |-> "nothing"]
    /\ failed' = [g \in Goroutines |-> FALSE]
    /\ tracked' = {}
    /\ ready' = FALSE

Handle(g) ==
    \/ request[g] = "chattiest" /\ HandleChattiest(g)
    \/ request[g] = "userstats" /\ HandleUserStats(g)
    \/ request[g] = "trending" /\ HandleTrending(g)
    \/ request[g] = "channel-activity" /\ HandleChannelActivity(g)
    \/ request[g] = "rising-stars" /\ HandleRisingStars(g)
    \/ request[g] = "peak-hours" /\ HandlePeakHours(g)
    \/ request[g] = "inactive-users" /\ HandleInactiveUsers(g)
    \/ request[g] = "inactive-channels" /\ HandleInactiveChannels(g)
    \/ request[g] = "server-activity" /\ HandleServerActivity(g)
    \/ request[g] = "add-bot-admin-role" /\ HandleAddBotAdminRole(g)
    \/ request[g] = "remove-bot-admin-role" /\ HandleRemoveBotAdminRole(g)
    \/ request[g] = "list-bot-admin-roles" /\ HandleListBotAdminRoles(g)
    \/ request[g] = "set-response-channel" /\ HandleSetResponseChannel(g)
    \/ request[g] = "clear-response-channel" /\ HandleClearResponseChannel(g)
    \/ request[g] = "list-response-channels" /\ HandleListResponseChannels(g)
    \/ EditResponse(g)
    \/ EditResponseEmbed(g)
    \/ RespondError(g)
-----------------------------------------------------------------------------
Next ==
    \/ \E g \in Goroutines :
          \/ Receive(g) \/ HandleCommands(g) \/ TellCooldown(g)
          \/ HandleAdminCommands(g) \/ Handle(g) \/ RespondToPanicError(g) \/ Forget(g)
    \/ SetupAdminCommands
    \/ Restart

Spec == Init /\ [][Next]_vars
-----------------------------------------------------------------------------
Changing == {"add-bot-admin-role", "remove-bot-admin-role", "set-response-channel",
             "clear-response-channel"}

\* A result is shown only if the statement behind it has succeeded, and a command that
\* changes something shows an error only if its statement has not succeeded.  The
\* exception is set-response-channel, which can panic after it has saved.
AnswersAreTrue ==
    \A g \in Goroutines :
        /\ shown[g] \in {"result", "empty"} => statement[g] = "ok"
        /\ shown[g] = "error" /\ request[g] \in Changing \ {"set-response-channel"}
              => statement[g] # "ok"

\* Whoever is told that they may not use a command, or not yet, has caused no statement,
\* and will not, although the refusal is decided far from the handler.
RefusedDoNothing ==
    \A g \in Goroutines :
        shown[g] \in {"denied", "cooldown"} => statement[g] = "none" /\ at[g] = "returned"

RespondsLate == {"set-response-channel", "clear-response-channel", "list-response-channels"}

\* When the handler of a known command is done, its user has been answered, also after a
\* panic, unless Discord failed a call.  The exception are the three commands that
\* report an error of their statement with a new response after the deferral, which
\* Discord refuses: there the user waits in vain.
ReturnedIsTold ==
    \A g \in Goroutines :
        at[g] = "returned" /\ request[g] # "other" =>
            \/ shown[g] \in Answers
            \/ failed[g]
            \/ request[g] \in RespondsLate /\ statement[g] = "error"

\* The coverage tracker holds the public commands whose handler is running, and no
\* others: no way out of a handler leaves an entry behind, neither a return after a call
\* that failed nor a panic between the deferral and the statement (the deferred function
\* of each public handler).
TrackedAreRunning ==
    tracked = {g \in Goroutines :
                 /\ request[g] \in Public
                 /\ at[g] \notin Unhandled}

\* An answer is not replaced by a different one: a handler has one last word, even if
\* it retries after an error or is cut off by a panic.
LastWordStands ==
    [][\A g \in Goroutines :
          shown[g] \in Answers /\ at'[g] # "idle" => shown'[g] = shown[g]]_vars
=============================================================================
