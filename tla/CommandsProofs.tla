--------------------------- MODULE CommandsProofs ---------------------------
(***************************************************************************)
(* Proofs about Commands, for any number of goroutines.                    *)
(*                                                                         *)
(* The inductive invariant says of every place of a handler what its       *)
(* statement can have returned, what Discord can show there, and of which  *)
(* commands the place is.  A step of a handler concerns one goroutine, so  *)
(* that the invariant is kept if that goroutine fits the place it reaches. *)
(***************************************************************************)
EXTENDS Commands, TLAPS

Early == {"idle", "dispatch", "cooldown", "permission", "deny", "defer"}
Working == {"users", "channel", "chart", "sayImage", "sayEmpty", "sayResult"}

Fits(g) ==
    /\ at[g] \in Early => statement[g] = "none" /\ shown[g] = "nothing"
    /\ at[g] = "idle" => request[g] = "other"
    /\ at[g] \in {"permission", "deny"} => request[g] \in AdminOnly
    /\ at[g] = "statement" => statement[g] = "none"
    /\ at[g] \in Working => statement[g] = "ok"
    /\ at[g] = "chart" => request[g] \notin Changing
    /\ at[g] = "sayError" /\ request[g] \in Changing => statement[g] # "ok"
    /\ at[g] = "respondError" => request[g] \in RespondsLate /\ statement[g] = "error"
    /\ at[g] \in {"panic", "panicEdit"} /\ statement[g] = "ok" => request[g] = "set-response-channel"
    /\ at[g] \notin {"panicEdit", "returned"} =>
          \/ shown[g] \in {"nothing", "thinking"}
          \/ at[g] = "sayResult" /\ shown[g] = "result"
    /\ at[g] \in {"statement", "sayError", "respondError"} \cup Working /\ shown[g] = "nothing" => failed[g]
    /\ at[g] = "panicEdit" =>
          /\ shown[g] \in {"nothing", "thinking", "error"}
          /\ shown[g] = "nothing" => failed[g]

\* What the invariants of Commands say of one goroutine.
Right(g) ==
    /\ shown[g] \in {"result", "empty"} => statement[g] = "ok"
    /\ shown[g] = "error" /\ request[g] \in Changing \ {"set-response-channel"} => statement[g] # "ok"
    /\ shown[g] \in {"denied", "cooldown"} => statement[g] = "none" /\ at[g] = "returned"
    /\ at[g] = "returned" /\ request[g] # "other" =>
          \/ shown[g] \in Answers
          \/ failed[g]
          \/ request[g] \in RespondsLate /\ statement[g] = "error"
    /\ g \in tracked <=> request[g] \in Public /\ at[g] \notin Unhandled

Good(g) == Fits(g) /\ Right(g)

IInv == TypeOK /\ \A g \in Goroutines : Good(g)

\* Nothing but what belongs to g changes.
OnlyOf(g) ==
    \A h \in Goroutines \ {g} :
        /\ request'[h] = request[h] /\ at'[h] = at[h] /\ statement'[h] = statement[h]
        /\ shown'[h] = shown[h] /\ failed'[h] = failed[h]
        /\ h \in tracked' <=> h \in tracked

LastWord == \A g \in Goroutines : shown[g] \in Answers /\ at'[g] # "idle" => shown'[g] = shown[g]

\* A step of one goroutine keeps the invariant if it leaves that goroutine right.
LEMMA OneGoroutine ==
    ASSUME IInv, NEW g \in Goroutines, TypeOK', OnlyOf(g), Good(g)',
           shown[g] \in Answers /\ at'[g] # "idle" => shown'[g] = shown[g]
    PROVE  IInv' /\ LastWord
  <1>1. ASSUME NEW h \in Goroutines, h # g
        PROVE  Good(h)' /\ shown'[h] = shown[h]
    <2>1. Good(h)
      BY DEF IInv
    <2>2. /\ request'[h] = request[h] /\ at'[h] = at[h] /\ statement'[h] = statement[h]
          /\ shown'[h] = shown[h] /\ failed'[h] = failed[h]
          /\ h \in tracked' <=> h \in tracked
      BY <1>1 DEF OnlyOf
    <2> QED BY <2>1, <2>2 DEF Good, Fits, Right
  <1> QED BY <1>1 DEF IInv, LastWord

\* Public and admin commands are distinct, and "other" is neither.
LEMMA Kinds ==
    /\ Public \cap AdminOnly = {}
    /\ "other" \notin Public \cup AdminOnly
    /\ Changing \cup RespondsLate \subseteq AdminOnly
  BY DEF Public, AdminOnly, Changing, RespondsLate

\* Goto concerns one goroutine, and keeps the types.
LEMMA GotoShape ==
    ASSUME TypeOK, NEW g \in Goroutines, NEW place \in Places, Goto(g, place)
    PROVE  /\ at' \in [Goroutines -> Places] /\ tracked' \in SUBSET Goroutines
           /\ at'[g] = place
           /\ \A h \in Goroutines \ {g} : at'[h] = at[h] /\ (h \in tracked' <=> h \in tracked)
           /\ g \in tracked' <=> g \in tracked /\ place \notin {"returned", "panic"}
  BY DEF TypeOK, Goto

\* The step of a handler that only reads.
LEMMA PassKeeps ==
    ASSUME IInv, NEW g \in Goroutines, NEW place \in {"users", "channel", "chart"},
           NEW next \in SUBSET {"channel", "chart", "sayError", "sayImage", "sayResult", "panic"},
           Pass(g, place, next),
           "chart" \in next \/ "sayError" \in next => request[g] \notin Changing,
           "panic" \in next => request[g] = "set-response-channel"
    PROVE  IInv' /\ LastWord
  <1>1. PICK p \in next : Goto(g, p)
    BY DEF Pass
  <1>2. p \in Places /\ TypeOK /\ Good(g)
    BY DEF Places, IInv
  <1>3. at[g] = place /\ UNCHANGED <<request, statement, shown, failed, ready>>
    BY DEF Pass
  <1>4. /\ at' \in [Goroutines -> Places] /\ tracked' \in SUBSET Goroutines /\ at'[g] = p
        /\ \A h \in Goroutines \ {g} : at'[h] = at[h] /\ (h \in tracked' <=> h \in tracked)
        /\ g \in tracked' <=> g \in tracked /\ p \notin {"returned", "panic"}
    BY <1>1, <1>2, GotoShape
  <1>5. request[g] # "other" /\ (p = "panic" => request[g] \notin Public)
    BY <1>2, <1>3 DEF TypeOK, Unhandled, Public
  <1>6. TypeOK' /\ OnlyOf(g)
    BY <1>2, <1>3, <1>4, <1>5 DEF TypeOK, OnlyOf
  <1>7. Good(g)'
    BY <1>2, <1>3, <1>4, <1>5 DEF Good, Fits, Right, Early, Working, Unhandled
  <1> QED BY <1>3, <1>6, <1>7, OneGoroutine

\* The statement of a handler.
LEMMA StatementKeeps ==
    ASSUME IInv, NEW g \in Goroutines, request[g] # "other",
           NEW next \in SUBSET {"users", "channel", "chart", "sayEmpty", "sayResult"},
           NEW onError \in {"sayError", "respondError"},
           Statement(g, next, onError),
           "chart" \in next => request[g] \notin Changing,
           onError = "respondError" => request[g] \in RespondsLate
    PROVE  IInv' /\ LastWord
  <1>1. TypeOK /\ Good(g) /\ at[g] = "statement" /\ UNCHANGED <<request, shown, failed, ready>>
    BY DEF IInv, Statement
  <1>2. PICK p \in next \cup {onError}, result \in {"ok", "error"} :
            /\ Goto(g, p) /\ statement' = [statement EXCEPT ![g] = result]
            /\ IF result = "ok" THEN p \in next ELSE p = onError
    BY DEF Statement
  <1>3. p \in Places /\ p \notin {"returned", "panic"}
    BY DEF Places
  <1>4. /\ at' \in [Goroutines -> Places] /\ tracked' \in SUBSET Goroutines /\ at'[g] = p
        /\ \A h \in Goroutines \ {g} : at'[h] = at[h] /\ (h \in tracked' <=> h \in tracked)
        /\ g \in tracked' <=> g \in tracked
    BY <1>1, <1>2, <1>3, GotoShape
  <1>5. statement'[g] = result /\ \A h \in Goroutines \ {g} : statement'[h] = statement[h]
    BY <1>1, <1>2 DEF TypeOK
  <1>6. TypeOK' /\ OnlyOf(g)
    BY <1>1, <1>2, <1>4, <1>5 DEF TypeOK, OnlyOf
  <1>7. Good(g)'
    BY <1>1, <1>2, <1>4, <1>5 DEF Good, Fits, Right, Early, Working, Unhandled
  <1> QED BY <1>1, <1>6, <1>7, OneGoroutine

\* A call to Discord, by what it does.
LEMMA RespondShape ==
    ASSUME TypeOK, NEW g \in Goroutines, NEW answer \in {"thinking"} \cup Answers,
           NEW onSuccess \in Places, NEW onError \in Places,
           InteractionRespond(g, answer, onSuccess, onError)
    PROVE  /\ request' = request /\ statement' = statement /\ ready' = ready
           /\ shown' \in [Goroutines -> {"nothing", "thinking"} \cup Answers]
           /\ failed' \in [Goroutines -> BOOLEAN]
           /\ \A h \in Goroutines \ {g} : shown'[h] = shown[h] /\ failed'[h] = failed[h]
           /\ \/ /\ shown[g] = "nothing" /\ shown'[g] = answer /\ failed'[g] = failed[g]
                 /\ Goto(g, onSuccess)
              \/ /\ shown[g] = "nothing" /\ shown'[g] \in {"nothing", answer} /\ failed'[g]
                 /\ Goto(g, onError)
              \/ /\ shown[g] # "nothing" /\ shown'[g] = shown[g] /\ failed'[g] = failed[g]
                 /\ Goto(g, onError)
  BY DEF InteractionRespond, Call, Refused, TypeOK

\* An edit changes nothing but what Discord shows, the place of the goroutine and its tracking.
LEMMA EditShape ==
    ASSUME TypeOK, NEW g \in Goroutines, NEW answer \in Answers,
           NEW onSuccess \in Places, NEW onError \in Places,
           InteractionResponseEdit(g, answer, onSuccess, onError)
    PROVE  /\ request' = request /\ statement' = statement /\ ready' = ready
           /\ shown' \in [Goroutines -> {"nothing", "thinking"} \cup Answers]
           /\ failed' \in [Goroutines -> BOOLEAN]
           /\ \A h \in Goroutines \ {g} : shown'[h] = shown[h] /\ failed'[h] = failed[h]
           /\ \/ /\ shown[g] # "nothing" /\ shown'[g] = answer /\ failed'[g] = failed[g]
                 /\ Goto(g, onSuccess)
              \/ /\ shown[g] # "nothing" /\ shown'[g] \in {shown[g], answer} /\ failed'[g]
                 /\ Goto(g, onError)
              \/ /\ shown[g] = "nothing" /\ shown'[g] = "nothing" /\ failed'[g] = failed[g]
                 /\ Goto(g, onError)
  BY DEF InteractionResponseEdit, Call, Refused, TypeOK

\* The initial response of a handler, which may be its last word.
LEMMA RespondKeeps ==
    ASSUME IInv, NEW g \in Goroutines,
           \/ Defer(g, "returned") /\ request[g] # "other"
           \/ Defer(g, "statement") /\ request[g] # "other"
           \/ RespondError(g)
           \/ TellCooldown(g)
           \/ at[g] = "panic" /\ InteractionRespond(g, "error", "returned", "panicEdit")
    PROVE  IInv' /\ LastWord
  <1>1. TypeOK /\ Good(g)
    BY DEF IInv
  <1>2. PICK answer \in {"thinking", "denied", "error", "cooldown"},
             onSuccess \in {"statement", "returned"}, onError \in {"returned", "statement", "panicEdit"} :
            /\ InteractionRespond(g, answer, onSuccess, onError)
            /\ \/ at[g] = "defer" /\ answer = "thinking" /\ onSuccess = "statement"
                  /\ onError # "panicEdit" /\ request[g] # "other"
               \/ at[g] = "deny" /\ answer = "denied" /\ onSuccess = "returned" /\ onError = "returned"
               \/ at[g] = "respondError" /\ answer = "error" /\ onSuccess = "returned" /\ onError = "returned"
               \/ at[g] = "cooldown" /\ answer = "cooldown" /\ onSuccess = "returned" /\ onError = "returned"
               \/ at[g] = "panic" /\ answer = "error" /\ onSuccess = "returned" /\ onError = "panicEdit"
    BY DEF Defer, RespondError, TellCooldown
  <1>3. answer \in {"thinking"} \cup Answers /\ onSuccess \in Places /\ onError \in Places
    BY DEF Answers, Places
  <1>4. PICK p \in {onSuccess, onError} :
           /\ request' = request /\ statement' = statement /\ ready' = ready
           /\ shown' \in [Goroutines -> {"nothing", "thinking"} \cup Answers]
           /\ failed' \in [Goroutines -> BOOLEAN]
           /\ \A h \in Goroutines \ {g} : shown'[h] = shown[h] /\ failed'[h] = failed[h]
           /\ Goto(g, p)
           /\ \/ shown[g] = "nothing" /\ shown'[g] = answer /\ failed'[g] = failed[g] /\ p = onSuccess
              \/ shown[g] = "nothing" /\ shown'[g] \in {"nothing", answer} /\ failed'[g] /\ p = onError
              \/ shown[g] # "nothing" /\ shown'[g] = shown[g] /\ failed'[g] = failed[g] /\ p = onError
    BY <1>1, <1>2, <1>3, RespondShape
  <1>5. /\ at' \in [Goroutines -> Places] /\ tracked' \in SUBSET Goroutines /\ at'[g] = p
        /\ \A h \in Goroutines \ {g} : at'[h] = at[h] /\ (h \in tracked' <=> h \in tracked)
        /\ g \in tracked' <=> g \in tracked /\ p \notin {"returned", "panic"}
    BY <1>1, <1>3, <1>4, GotoShape
  <1>6. TypeOK' /\ OnlyOf(g)
    BY <1>1, <1>2, <1>4, <1>5 DEF TypeOK, OnlyOf, Unhandled
  <1>7. Good(g)'
    BY <1>1, <1>2, <1>4, <1>5, Kinds DEF Good, Fits, Right, Early, Working, Unhandled, Answers
  <1>8. shown[g] \in Answers => shown'[g] = shown[g]
    BY <1>4 DEF Answers
  <1> QED BY <1>6, <1>7, <1>8, OneGoroutine

\* An edit of the response, which is the last word.
LEMMA EditKeeps ==
    ASSUME IInv, NEW g \in Goroutines,
           \/ EditResponse(g)
           \/ EditResponseEmbed(g)
           \/ at[g] = "sayImage" /\ InteractionResponseEdit(g, "result", "returned", "sayResult")
           \/ at[g] = "panicEdit" /\ InteractionResponseEdit(g, "error", "returned", "returned")
    PROVE  IInv' /\ LastWord
  <1>1. TypeOK /\ Good(g)
    BY DEF IInv
  <1>2. PICK answer \in {"error", "empty", "result"}, onError \in {"returned", "sayResult"} :
            /\ InteractionResponseEdit(g, answer, "returned", onError)
            /\ \/ at[g] \in {"sayError", "panicEdit"} /\ answer = "error" /\ onError = "returned"
               \/ at[g] = "sayEmpty" /\ answer = "empty" /\ onError = "returned"
               \/ at[g] = "sayResult" /\ answer = "result" /\ onError = "returned"
               \/ at[g] = "sayImage" /\ answer = "result" /\ onError = "sayResult"
    BY DEF EditResponse, EditResponseEmbed
  <1>3. answer \in Answers /\ "returned" \in Places /\ onError \in Places
    BY DEF Answers, Places
  <1>4. PICK p \in {"returned", onError} :
           /\ request' = request /\ statement' = statement /\ ready' = ready
           /\ shown' \in [Goroutines -> {"nothing", "thinking"} \cup Answers]
           /\ failed' \in [Goroutines -> BOOLEAN]
           /\ \A h \in Goroutines \ {g} : shown'[h] = shown[h] /\ failed'[h] = failed[h]
           /\ Goto(g, p)
           /\ \/ shown[g] # "nothing" /\ shown'[g] = answer /\ failed'[g] = failed[g] /\ p = "returned"
              \/ shown[g] # "nothing" /\ shown'[g] \in {shown[g], answer} /\ failed'[g] /\ p = onError
              \/ shown[g] = "nothing" /\ shown'[g] = "nothing" /\ failed'[g] = failed[g] /\ p = onError
    BY <1>1, <1>2, <1>3, EditShape
  <1>5. /\ at' \in [Goroutines -> Places] /\ tracked' \in SUBSET Goroutines /\ at'[g] = p
        /\ \A h \in Goroutines \ {g} : at'[h] = at[h] /\ (h \in tracked' <=> h \in tracked)
        /\ g \in tracked' <=> g \in tracked /\ p \notin {"returned", "panic"}
    BY <1>1, <1>3, <1>4, GotoShape
  <1>6. TypeOK' /\ OnlyOf(g)
    BY <1>1, <1>2, <1>4, <1>5 DEF TypeOK, OnlyOf, Unhandled
  <1>7. Good(g)'
    BY <1>1, <1>2, <1>4, <1>5, Kinds DEF Good, Fits, Right, Early, Working, Unhandled, Answers
  <1>8. shown[g] \in Answers => shown'[g] = shown[g]
    BY <1>1, <1>2, <1>4 DEF Good, Fits, Working, Answers
  <1> QED BY <1>6, <1>7, <1>8, OneGoroutine

\* A refusal before the statement, or a panic.
LEMMA LeaveKeeps ==
    ASSUME IInv, NEW g \in Goroutines,
           \/ Pass(g, "statement", {"sayError"}) /\ request[g] # "other"
           \/ OptionMissing(g) /\ request[g] # "other"
           \/ Pass(g, "statement", {"panic"}) /\ request[g] # "other"
           \/ HandleAdminCommands(g)
    PROVE  IInv' /\ LastWord
  <1>1. TypeOK /\ Good(g)
    BY DEF IInv
  <1>2. PICK p \in {"sayError", "panic", "defer", "deny"} :
            /\ Goto(g, p)
            /\ \/ at[g] = "statement" /\ p = "sayError" /\ request[g] # "other"
               \/ at[g] = "statement" /\ p = "panic" /\ request[g] # "other"
               \/ at[g] = "permission" /\ p \in {"panic", "defer", "deny"}
            /\ UNCHANGED <<request, statement, shown, failed, ready>>
    BY DEF Pass, OptionMissing, HandleAdminCommands
  <1>3. p \in Places
    BY DEF Places
  <1>4. /\ at' \in [Goroutines -> Places] /\ tracked' \in SUBSET Goroutines /\ at'[g] = p
        /\ \A h \in Goroutines \ {g} : at'[h] = at[h] /\ (h \in tracked' <=> h \in tracked)
        /\ g \in tracked' <=> g \in tracked /\ p # "panic"
    BY <1>1, <1>2, <1>3, GotoShape
  <1>5. at[g] = "permission" => request[g] \in AdminOnly /\ request[g] \notin Public
    BY <1>1, Kinds DEF Good, Fits
  <1>6. TypeOK' /\ OnlyOf(g)
    BY <1>1, <1>2, <1>4, <1>5, Kinds DEF TypeOK, OnlyOf
  <1>7. Good(g)'
    BY <1>1, <1>2, <1>4, <1>5, Kinds DEF Good, Fits, Right, Early, Working, Unhandled, Answers
  <1> QED BY <1>2, <1>6, <1>7, OneGoroutine

\* The arrival of an interaction, and the end of its goroutine.
LEMMA ReceiveForgetKeeps ==
    ASSUME IInv, NEW g \in Goroutines, Receive(g) \/ Forget(g)
    PROVE  IInv' /\ LastWord
  <1>1. TypeOK /\ Good(g)
    BY DEF IInv
  <1>2. g \notin tracked
    BY <1>1 DEF Good, Right, Unhandled, Receive, Forget
  <1>3. TypeOK' /\ OnlyOf(g)
    BY <1>1 DEF TypeOK, OnlyOf, Receive, Forget, Places, Unhandled
  <1>4. Good(g)'
    BY <1>1, <1>2 DEF TypeOK, Good, Fits, Right, Early, Working, Unhandled, Answers, Receive, Forget
  <1>5. shown[g] \in Answers /\ at'[g] # "idle" => shown'[g] = shown[g]
    BY <1>1 DEF TypeOK, Receive, Forget
  <1> QED BY <1>3, <1>4, <1>5, OneGoroutine

\* The dispatch of a command.
LEMMA HandleCommandsKeeps ==
    ASSUME IInv, NEW g \in Goroutines, HandleCommands(g)
    PROVE  IInv' /\ LastWord
  <1>1. TypeOK /\ Good(g) /\ at[g] = "dispatch" /\ UNCHANGED <<request, statement, shown, failed, ready>>
    BY DEF IInv, HandleCommands
  <1>2. PICK p \in {"panic", "cooldown", "defer", "permission", "returned"} :
            /\ at' = [at EXCEPT ![g] = p]
            /\ p = "defer" => request[g] \in Public /\ tracked' = tracked \cup {g}
            /\ p # "defer" => tracked' = tracked
            /\ p = "permission" => request[g] \in AdminOnly
            /\ p = "returned" => request[g] = "other"
    BY DEF HandleCommands, StartRequestTracking
  <1>3. g \notin tracked
    BY <1>1 DEF Good, Right, Unhandled
  <1>4. TypeOK' /\ OnlyOf(g)
    BY <1>1, <1>2, Kinds DEF TypeOK, OnlyOf, Places, Unhandled
  <1>5. Good(g)'
    BY <1>1, <1>2, <1>3, Kinds DEF TypeOK, Good, Fits, Right, Early, Working, Unhandled, Answers
  <1> QED BY <1>1, <1>4, <1>5, OneGoroutine
-----------------------------------------------------------------------------
\* The handlers of public commands.
LEMMA PublicKeeps ==
    ASSUME IInv, NEW g \in Goroutines,
           \/ request[g] = "chattiest" /\ HandleChattiest(g)
           \/ request[g] = "userstats" /\ HandleUserStats(g)
           \/ request[g] = "trending" /\ HandleTrending(g)
           \/ request[g] = "channel-activity" /\ HandleChannelActivity(g)
           \/ request[g] = "rising-stars" /\ HandleRisingStars(g)
           \/ request[g] = "peak-hours" /\ HandlePeakHours(g)
    PROVE  IInv' /\ LastWord
  <1>1. request[g] # "other" /\ request[g] \notin Changing
    BY DEF Changing
  <1>2. CASE Defer(g, "returned")
    BY <1>1, <1>2, RespondKeeps
  <1>3. CASE \E next \in SUBSET {"users", "channel", "chart", "sayEmpty", "sayResult"} :
                Statement(g, next, "sayError")
    BY <1>1, <1>3, StatementKeeps
  <1>4. CASE \E place \in {"users", "channel", "chart"},
                next \in SUBSET {"channel", "chart", "sayError", "sayImage", "sayResult"} :
                Pass(g, place, next)
    <2>1. PICK place \in {"users", "channel", "chart"},
               next \in SUBSET {"channel", "chart", "sayError", "sayImage", "sayResult"} :
               Pass(g, place, next)
      BY <1>4
    <2>2. /\ next \in SUBSET {"channel", "chart", "sayError", "sayImage", "sayResult", "panic"}
          /\ "panic" \notin next
      OBVIOUS
    <2> QED BY <1>1, <2>1, <2>2, PassKeeps
  <1>5. CASE OptionMissing(g)
    BY <1>1, <1>5, LeaveKeeps
  <1>6. Defer(g, "returned") \/ OptionMissing(g)
          \/ (\E next \in SUBSET {"users", "channel", "chart", "sayEmpty", "sayResult"} :
                                    Statement(g, next, "sayError"))
          \/ (\E place \in {"users", "channel", "chart"},
                 next \in SUBSET {"channel", "chart", "sayError", "sayImage", "sayResult"} :
                 Pass(g, place, next))
    <2>1. CASE HandleChattiest(g)
      BY <2>1 DEF HandleChattiest
    <2>2. CASE HandleUserStats(g)
      BY <2>2 DEF HandleUserStats
    <2>3. CASE HandleTrending(g)
      BY <2>3 DEF HandleTrending
    <2>4. CASE HandleChannelActivity(g)
      BY <2>4 DEF HandleChannelActivity
    <2>5. CASE HandleRisingStars(g)
      BY <2>5 DEF HandleRisingStars
    <2>6. CASE HandlePeakHours(g)
      BY <2>6 DEF HandlePeakHours
    <2> QED BY <2>1, <2>2, <2>3, <2>4, <2>5, <2>6
  <1> QED BY <1>2, <1>3, <1>4, <1>5, <1>6

\* The handlers of admin commands.
LEMMA AdminKeeps ==
    ASSUME IInv, NEW g \in Goroutines,
           \/ request[g] = "inactive-users" /\ HandleInactiveUsers(g)
           \/ request[g] = "inactive-channels" /\ HandleInactiveChannels(g)
           \/ request[g] = "server-activity" /\ HandleServerActivity(g)
           \/ request[g] = "add-bot-admin-role" /\ HandleAddBotAdminRole(g)
           \/ request[g] = "remove-bot-admin-role" /\ HandleRemoveBotAdminRole(g)
           \/ request[g] = "list-bot-admin-roles" /\ HandleListBotAdminRoles(g)
           \/ request[g] = "set-response-channel" /\ HandleSetResponseChannel(g)
           \/ request[g] = "clear-response-channel" /\ HandleClearResponseChannel(g)
           \/ request[g] = "list-response-channels" /\ HandleListResponseChannels(g)
    PROVE  IInv' /\ LastWord
  <1> DEFINE Places3 == {"users", "channel", "chart"}
  <1> DEFINE Next3 == {"channel", "chart", "sayError", "sayImage", "sayResult", "panic"}
  <1> DEFINE NextS == {"users", "channel", "chart", "sayEmpty", "sayResult"}
  <1>1. request[g] # "other" /\ request[g] \in AdminOnly
    BY DEF AdminOnly
  <1>2. CASE Defer(g, "statement")
    BY <1>1, <1>2, RespondKeeps
  <1>3. CASE \E next \in SUBSET NextS : Statement(g, next, "sayError") /\ ("chart" \in next => request[g] \notin Changing)
    BY <1>1, <1>3, StatementKeeps
  <1>4. CASE \E next \in SUBSET NextS : Statement(g, next, "respondError") /\ "chart" \notin next
                                         /\ request[g] \in RespondsLate
    BY <1>1, <1>4, StatementKeeps
  <1>5. CASE \E place \in Places3, next \in SUBSET Next3 :
                /\ Pass(g, place, next)
                /\ "chart" \notin next /\ "sayError" \notin next
                /\ "panic" \in next => request[g] = "set-response-channel"
    BY <1>5, PassKeeps
  <1>6. CASE \/ Pass(g, "statement", {"sayError"})
             \/ Pass(g, "statement", {"panic"})
             \/ OptionMissing(g)
    BY <1>1, <1>6, LeaveKeeps
  <1>7. CASE at[g] = "sayImage" /\ InteractionResponseEdit(g, "result", "returned", "sayResult")
    BY <1>7, EditKeeps
  <1> DEFINE Step ==
        \/ Defer(g, "statement")
        \/ \E next \in SUBSET NextS : Statement(g, next, "sayError") /\ ("chart" \in next => request[g] \notin Changing)
        \/ \E next \in SUBSET NextS : Statement(g, next, "respondError") /\ "chart" \notin next
                                       /\ request[g] \in RespondsLate
        \/ \E place \in Places3, next \in SUBSET Next3 :
              /\ Pass(g, place, next)
              /\ "chart" \notin next /\ "sayError" \notin next
              /\ "panic" \in next => request[g] = "set-response-channel"
        \/ Pass(g, "statement", {"sayError"})
        \/ Pass(g, "statement", {"panic"})
        \/ OptionMissing(g)
        \/ at[g] = "sayImage" /\ InteractionResponseEdit(g, "result", "returned", "sayResult")
  <1>8. Step
    <2>1. CASE HandleInactiveUsers(g)
      BY <2>1 DEF HandleInactiveUsers
    <2>2. CASE HandleInactiveChannels(g)
      BY <2>2 DEF HandleInactiveChannels
    <2>3. CASE request[g] = "server-activity" /\ HandleServerActivity(g)
      BY <2>3 DEF HandleServerActivity, Changing
    <2>4. CASE HandleAddBotAdminRole(g)
      BY <2>4 DEF HandleAddBotAdminRole, ThroughManager
    <2>5. CASE HandleRemoveBotAdminRole(g)
      BY <2>5 DEF HandleRemoveBotAdminRole, ThroughManager
    <2>6. CASE HandleListBotAdminRoles(g)
      BY <2>6 DEF HandleListBotAdminRoles
    <2>7. CASE request[g] = "set-response-channel" /\ HandleSetResponseChannel(g)
      BY <2>7 DEF HandleSetResponseChannel, RespondsLate
    <2>8. CASE request[g] = "clear-response-channel" /\ HandleClearResponseChannel(g)
      BY <2>8 DEF HandleClearResponseChannel, RespondsLate
    <2>9. CASE request[g] = "list-response-channels" /\ HandleListResponseChannels(g)
      BY <2>9 DEF HandleListResponseChannels, RespondsLate
    <2> QED BY <2>1, <2>2, <2>3, <2>4, <2>5, <2>6, <2>7, <2>8, <2>9
  <1> QED BY <1>2, <1>3, <1>4, <1>5, <1>6, <1>7, <1>8
-----------------------------------------------------------------------------
\* The steps that are not of one goroutine.
LEMMA ProcessKeeps ==
    ASSUME IInv, SetupAdminCommands \/ Restart \/ UNCHANGED vars
    PROVE  IInv' /\ (SetupAdminCommands \/ Restart => LastWord)
  <1>1. CASE SetupAdminCommands
    BY <1>1 DEF SetupAdminCommands, IInv, TypeOK, Good, Fits, Right, LastWord
  <1>2. CASE Restart
    <2>1. TypeOK'
      BY <1>2 DEF Restart, TypeOK, Places, Unhandled
    <2>2. ASSUME NEW g \in Goroutines PROVE Good(g)' /\ at'[g] = "idle"
      BY <1>2, Kinds DEF Restart, Good, Fits, Right, Early, Working, Unhandled, Answers
    <2> QED BY <2>1, <2>2 DEF IInv, LastWord
  <1>3. CASE UNCHANGED vars
    BY <1>3 DEF vars, IInv, TypeOK, Good, Fits, Right, LastWord
  <1> QED BY <1>1, <1>2, <1>3

\* Every step of Next keeps the invariant, and the last word of every goroutine.
LEMMA NextKeeps ==
    ASSUME IInv, Next
    PROVE  IInv' /\ LastWord
  <1>1. ASSUME NEW g \in Goroutines, Handle(g) PROVE IInv' /\ LastWord
    BY <1>1, PublicKeeps, AdminKeeps, EditKeeps, RespondKeeps DEF Handle
  <1>2. ASSUME NEW g \in Goroutines, RespondToPanicError(g) PROVE IInv' /\ LastWord
    BY <1>2, EditKeeps, RespondKeeps DEF RespondToPanicError
  <1>3. ASSUME NEW g \in Goroutines, Receive(g) \/ Forget(g) PROVE IInv' /\ LastWord
    BY <1>3, ReceiveForgetKeeps
  <1>4. ASSUME NEW g \in Goroutines, HandleCommands(g) PROVE IInv' /\ LastWord
    BY <1>4, HandleCommandsKeeps
  <1>5. ASSUME NEW g \in Goroutines, TellCooldown(g) PROVE IInv' /\ LastWord
    BY <1>5, RespondKeeps
  <1>6. ASSUME NEW g \in Goroutines, HandleAdminCommands(g) PROVE IInv' /\ LastWord
    BY <1>6, LeaveKeeps
  <1>7. CASE SetupAdminCommands \/ Restart
    BY <1>7, ProcessKeeps
  <1> QED BY <1>1, <1>2, <1>3, <1>4, <1>5, <1>6, <1>7 DEF Next

\* The invariant holds of every reachable state.
THEOREM Invariance == Spec => []IInv
  <1>1. Init => IInv
    BY Kinds DEF Init, IInv, TypeOK, Places, Good, Fits, Right, Early, Working, Unhandled, Answers
  <1>2. IInv /\ [Next]_vars => IInv'
    BY NextKeeps, ProcessKeeps
  <1> QED BY <1>1, <1>2, PTL DEF Spec

\* The state of the goroutines is of the declared types, and an unknown command reaches no
\* handler.
THEOREM TypeCorrect == Spec => []TypeOK
  BY Invariance, PTL DEF IInv

\* What is shown agrees with what the statement returned.
THEOREM AnswersCorrect == Spec => []AnswersAreTrue
  <1>1. IInv => AnswersAreTrue
    BY DEF IInv, Good, Right, AnswersAreTrue
  <1> QED BY <1>1, Invariance, PTL

\* Who is refused has caused nothing.
THEOREM RefusalsCorrect == Spec => []RefusedDoNothing
  <1>1. IInv => RefusedDoNothing
    BY DEF IInv, Good, Right, RefusedDoNothing
  <1> QED BY <1>1, Invariance, PTL

\* A handler that has returned has answered, but for the exceptions the property names.
THEOREM UsersAreTold == Spec => []ReturnedIsTold
  <1>1. IInv => ReturnedIsTold
    BY DEF IInv, Good, Right, ReturnedIsTold
  <1> QED BY <1>1, Invariance, PTL

\* The tracker holds exactly the public commands that are running.
THEOREM TrackingCorrect == Spec => []TrackedAreRunning
  <1>1. IInv => TrackedAreRunning
    BY DEF IInv, TypeOK, Good, Right, TrackedAreRunning
  <1> QED BY <1>1, Invariance, PTL

\* The last word of a handler stands.
THEOREM LastWordsStand == Spec => LastWordStands
  <1>1. IInv /\ [Next]_vars => [LastWord]_vars
    BY NextKeeps
  <1>2. [LastWord]_vars =>
          [\A g \in Goroutines :
              shown[g] \in Answers /\ at'[g] # "idle" => shown'[g] = shown[g]]_vars
    BY DEF LastWord
  <1> QED BY <1>1, <1>2, Invariance, PTL DEF Spec, LastWordStands
=============================================================================
