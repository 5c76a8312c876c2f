----------------------------- MODULE AdminRoles -----------------------------
(***************************************************************************)
(* The custom admin roles of one guild: the slice arm.roles[guildID] of    *)
(* AdminRoleManager (internal/bot/admin_commands.go) in front of the table *)
(* admin_roles.  Command handlers run one goroutine each and change table  *)
(* and slice without a lock, also while Start still fills the slice; every *)
(* access to the map is an action of its own.  The process may end at any  *)
(* moment and be started again.  The slice is a set here: neither its      *)
(* order nor a duplicate ever matters.                                     *)
(***************************************************************************)

CONSTANTS
    Roles,         \* the roles of the guild other than @everyone
    Environment,   \* the roles named by ADMIN_ROLES_<guild>
    Handlers       \* the goroutines of command handlers

ASSUME AdminRolesAssumption ==
    /\ Environment \subseteq Roles
    /\ "start" \notin Handlers

VARIABLES
    table,      \* rows of admin_roles (external)
    ready,      \* b.adminRoles has been assigned
    entry,      \* arm.roles[guildID] is not nil
    roles,      \* arm.roles[guildID]
    calls,      \* the calls of AddRole and RemoveRole, and appends of the loading, under way
    boot,       \* how far Start has come
    todo,       \* roles that Start has still to append, or to add
    granted,    \* history: roles that have ever been inserted into the table
    revoked,    \* history: roles whose last statement by a command was a deletion
    disturbed   \* history: since Start, two changes overlapped, or a statement or
                \* the loading was reported as failed

cacheVars == <<ready, entry, roles>>
startVars == <<boot, todo>>
tableVars == <<table, granted, revoked>>
vars == <<table, ready, entry, roles, calls, boot, todo, granted, revoked, disturbed>>

Callers == Handlers \cup {"start"}
Calls == [by : Callers, op : {"add", "remove", "load"}, role : Roles,
          at : {"statement", "test", "make", "read", "write"}, seen : SUBSET Roles]

TypeOK ==
    /\ table \in SUBSET Roles
    /\ ready \in BOOLEAN /\ (ready <=> boot # "open")
    /\ entry \in BOOLEAN
    /\ roles \in SUBSET Roles
    /\ calls \in SUBSET Calls
    /\ boot \in {"open", "load", "populate", "environment", "up"}
    /\ todo \in SUBSET Roles
    /\ granted \in SUBSET Roles
    /\ revoked \in SUBSET Roles
    /\ disturbed \in BOOLEAN

\* Nothing in memory yet; the Discord connection is open, so that commands arrive.
Init ==
    /\ table = {}
    /\ ready = FALSE
    /\ entry = FALSE
    /\ roles = {}
    /\ calls = {}
    /\ boot = "open"
    /\ todo = {}
    /\ granted = {}
    /\ revoked = {}
    /\ disturbed = FALSE

Busy(caller) == \E c \in calls : c.by = caller
Updating == {c \in calls : c.at # "statement"}
Quiet == Updating = {} /\ boot # "populate"

Call(caller, op, role, place) ==
    calls' = calls \cup {[by |-> caller, op |-> op, role |-> role, at |-> place, seen |-> {}]}
MoveTo(c, place) == calls' = (calls \ {c}) \cup {[c EXCEPT !.at = place]}
Return(c) == calls' = calls \ {c}
-----------------------------------------------------------------------------
(***************************************************************************)
(* The steps of AddRole and RemoveRole.                                    *)
(***************************************************************************)

AddAdminRole(c) ==
    /\ table' = table \cup {c.role}
    /\ granted' = granted \cup {c.role}
    /\ revoked' = IF c.by = "start" THEN revoked ELSE revoked \ {c.role}

\* Mutant: the deletion matches no row.
RemoveAdminRoleOfNobody(c) ==
    /\ table' = table
    /\ granted' = granted
    /\ revoked' = revoked \cup {c.role}

RemoveAdminRole(c) ==
    /\ table' = table \ {c.role}
    /\ granted' = granted
    /\ revoked' = revoked \cup {c.role}

\* A statement that returns an error, for its deadline or its connection, may have
\* taken effect all the same; the caller gives up in either case.
Execute(c, statement) ==
    /\ c.at = "statement"
    /\ \/ statement /\ MoveTo(c, "test") /\ disturbed' = (disturbed \/ ~Quiet)
       \/ statement /\ Return(c) /\ disturbed' = TRUE
       \/ Return(c) /\ UNCHANGED <<tableVars, disturbed>>
    /\ UNCHANGED <<cacheVars, startVars>>

\* Mutant: the error of the statement is not looked at.
ExecuteUnchecked(c, statement) ==
    /\ c.at = "statement"
    /\ \/ statement \/ UNCHANGED tableVars
    /\ MoveTo(c, "test")
    /\ disturbed' = (disturbed \/ ~Quiet)
    /\ UNCHANGED <<cacheVars, startVars>>

\* A slice that is missing is made, even if another goroutine has made one since.
TestEntry(c) ==
    /\ c.at = "test"
    /\ MoveTo(c, IF entry THEN "read" ELSE "make")
    /\ UNCHANGED <<tableVars, cacheVars, startVars, disturbed>>

MakeEntry(c) ==
    /\ c.at = "make"
    /\ entry' = TRUE
    /\ roles' = {}
    /\ MoveTo(c, "read")
    /\ UNCHANGED <<tableVars, ready, startVars, disturbed>>

\* The new slice is computed from the one read now ...
Compute(c, new) ==
    /\ c.at = "read"
    /\ calls' = (calls \ {c}) \cup {[c EXCEPT !.at = "write", !.seen = new]}
    /\ UNCHANGED <<tableVars, cacheVars, startVars, disturbed>>

\* ... and assigned later, whatever the map holds by then.
Assign(c) ==
    /\ c.at = "write"
    /\ entry' = TRUE
    /\ roles' = c.seen
    /\ Return(c)
    /\ UNCHANGED <<tableVars, ready, startVars, disturbed>>

\* Mutant: the slice is tested and appended to before the statement has succeeded.
AddRoleUnchecked(c) ==
    /\ c.op = "add"
    /\ \/ ExecuteUnchecked(c, AddAdminRole(c))
       \/ TestEntry(c) \/ MakeEntry(c) \/ Compute(c, roles \cup {c.role}) \/ Assign(c)

AddRole(c) ==
    /\ c.op = "add"
    /\ \/ Execute(c, AddAdminRole(c))
       \/ TestEntry(c)
       \/ MakeEntry(c)
       \/ c.role \notin roles /\ Compute(c, roles \cup {c.role})
       \/ /\ c.at = "read" /\ c.role \in roles
          /\ Return(c)
          /\ UNCHANGED <<tableVars, cacheVars, startVars, disturbed>>
       \/ Assign(c)

\* Mutant: the loop keeps every role.
RemoveRoleKeeps(c) ==
    /\ c.op = "remove"
    /\ \/ Execute(c, RemoveAdminRole(c))
       \/ entry /\ TestEntry(c)
       \/ /\ c.at = "test" /\ ~entry
          /\ Return(c)
          /\ UNCHANGED <<tableVars, cacheVars, startVars, disturbed>>
       \/ Compute(c, roles)
       \/ Assign(c)

RemoveRole(c) ==
    /\ c.op = "remove"
    /\ \/ Execute(c, RemoveAdminRole(c))
       \/ entry /\ TestEntry(c)
       \/ /\ c.at = "test" /\ ~entry
          /\ Return(c)
          /\ UNCHANGED <<tableVars, cacheVars, startVars, disturbed>>
       \/ Compute(c, roles \ {c.role})
       \/ Assign(c)
-----------------------------------------------------------------------------
(***************************************************************************)
(* The commands add-bot-admin-role and remove-bot-admin-role.              *)
(***************************************************************************)

\* The slice is stored under the guild of the interaction, but looked up under the guild
\* that the member names; a member that names none finds no slice.
HasAdminRole(memberRoles, guildNamed) == guildNamed /\ memberRoles \cap roles # {}

CheckAdminPermission(administrator, memberRoles, guildNamed) ==
    administrator \/ HasAdminRole(memberRoles, guildNamed)

\* Before Start has assigned the manager the command panics and changes nothing.  It is
\* up to Discord whether the member of an interaction names its guild.
HandleRoleCommand(h) ==
    /\ ready
    /\ ~Busy(h)
    /\ \E administrator, guildNamed \in BOOLEAN, memberRoles \in SUBSET Roles :
          CheckAdminPermission(administrator, memberRoles, guildNamed)
    /\ \E op \in {"add", "remove"}, r \in Roles : Call(h, op, r, "statement")
    /\ UNCHANGED <<tableVars, cacheVars, startVars, disturbed>>
-----------------------------------------------------------------------------
(***************************************************************************)
(* setupAdminCommands, a part of Start.                                    *)
(***************************************************************************)

\* Mutant: the manager is assigned to the bot when it has been filled.
NewAdminRoleManagerLate ==
    /\ boot = "open"
    /\ boot' = "load"
    /\ UNCHANGED <<tableVars, cacheVars, calls, todo, disturbed>>

NewAdminRoleManager ==
    /\ boot = "open"
    /\ ready' = TRUE
    /\ entry' = FALSE
    /\ roles' = {}
    /\ boot' = "load"
    /\ UNCHANGED <<tableVars, calls, todo, disturbed>>

GetAllAdminRoles ==
    /\ boot = "load"
    /\ \/ /\ boot' = "populate"
          /\ todo' = table
          /\ disturbed' = (disturbed \/ Updating # {})
       \/ /\ boot' = "environment"
          /\ todo' = Environment
          /\ disturbed' = TRUE
    /\ UNCHANGED <<tableVars, cacheVars, calls>>

\* Start goes on with the next role of its loop ...
NextRole(phase, op, place) ==
    /\ boot = phase
    /\ ~Busy("start")
    /\ \E r \in todo : Call("start", op, r, place) /\ todo' = todo \ {r}
    /\ UNCHANGED <<tableVars, cacheVars, boot, disturbed>>

\* ... or leaves it.
EndLoop(phase, next, roleset) ==
    /\ boot = phase
    /\ ~Busy("start")
    /\ todo = {}
    /\ boot' = next
    /\ todo' = roleset
    /\ UNCHANGED <<tableVars, cacheVars, calls, disturbed>>

Append(c) ==
    /\ c.op = "load"
    /\ TestEntry(c) \/ MakeEntry(c) \/ Compute(c, roles \cup {c.role}) \/ Assign(c)

PopulateCache == NextRole("populate", "load", "test") \/ EndLoop("populate", "environment", Environment)

AddEnvironmentRoles == NextRole("environment", "add", "statement") \/ EndLoop("environment", "up", {})

\* The process ends, for a crash or a shutdown, and is started again.
Restart ==
    /\ ready' = FALSE
    /\ entry' = FALSE
    /\ roles' = {}
    /\ calls' = {}
    /\ boot' = "open"
    /\ todo' = {}
    /\ disturbed' = FALSE
    /\ UNCHANGED tableVars
-----------------------------------------------------------------------------
Next ==
    \/ \E c \in calls : AddRole(c) \/ RemoveRole(c) \/ Append(c)
    \/ \E h \in Handlers : HandleRoleCommand(h)
    \/ NewAdminRoleManager
    \/ GetAllAdminRoles
    \/ PopulateCache
    \/ AddEnvironmentRoles
    \/ Restart

Spec == Init /\ [][Next]_vars
-----------------------------------------------------------------------------
\* As long as no two changes overlap and none is reported as failed, the slice
\* follows the table: it holds a role without a row only while its removal is under
\* way, and lacks one that has a row only while it is being added or loaded.
DifferenceExplained ==
    ~disturbed =>
        /\ \A r \in roles \ table : \E c \in Updating : c.op = "remove" /\ c.role = r
        /\ boot \in {"populate", "environment", "up"} =>
              \A r \in table \ roles :
                 \/ boot = "populate" /\ r \in todo
                 \/ \E c \in Updating : c.op # "remove" /\ c.role = r

\* Whatever overlaps or fails, the manager lets nobody through for a role that has
\* never had a row: a map write that races with others may lose roles or bring
\* removed ones back, but it makes none up.
OnlyGranted == roles \subseteq granted

\* A role whose row a command has deleted gets a row again only from the
\* environment, at a start: not from loading, nor from what other commands do.
RevokedStaysOut == table \cap revoked \subseteq Environment
=============================================================================
