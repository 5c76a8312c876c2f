-------------------------- MODULE AdminRolesProofs --------------------------
(***************************************************************************)
(* Proofs about AdminRoles, for any number of roles and of handlers.       *)
(*                                                                         *)
(* The inductive invariant has four parts: the types; what the phases of   *)
(* Start say of the calls (Shape); that nothing which can get into the     *)
(* slice or the table is made up (Justified); and, as long as nothing has  *)
(* disturbed the manager, that at most one call is between its statement   *)
(* and its assignment, and what that call has seen (Ordered).              *)
(***************************************************************************)
EXTENDS AdminRoles, TLAPS

Shape ==
    /\ boot = "open" => calls = {} /\ roles = {}
    /\ ~entry => roles = {}
    /\ \A c \in calls :
          /\ c.op = "load" => boot = "populate" /\ c.by = "start" /\ c.at # "statement"
          /\ c.by = "start" /\ c.op # "load" => c.op = "add" /\ c.role \in Environment
          /\ c.at = "make" => c.op # "remove"
    /\ boot = "environment" => todo \subseteq Environment

Justified ==
    /\ roles \subseteq granted
    /\ table \subseteq granted
    /\ boot = "populate" => todo \subseteq granted
    /\ \A c \in calls :
          /\ c.op # "remove" /\ c.at # "statement" => c.role \in granted
          /\ c.at = "write" => c.seen \subseteq granted
    /\ RevokedStaysOut

\* What is known of a call that is alone between statement and assignment.
Standing(c) ==
    /\ c.op = "remove" <=> c.role \notin table
    /\ c.at = "make" => ~entry
    /\ c.at = "write" => c.seen = IF c.op = "remove" THEN roles \ {c.role} ELSE roles \cup {c.role}

Ordered ==
    ~disturbed =>
        /\ \A c, d \in Updating : c = d
        /\ \A c \in Updating : Standing(c)
        /\ boot = "populate" => todo \subseteq table /\ \A c \in Updating : c.op = "load"

IInv == TypeOK /\ Shape /\ Justified /\ Ordered /\ DifferenceExplained

-----------------------------------------------------------------------------
\* A call that moves on keeps its caller, operation and role.
LEMMA Moved ==
    ASSUME NEW c \in Calls, NEW place \in {"statement", "test", "make", "read", "write"}
    PROVE  LET d == [c EXCEPT !.at = place]
           IN  /\ d \in Calls
               /\ d.by = c.by /\ d.op = c.op /\ d.role = c.role /\ d.seen = c.seen
               /\ d.at = place
  BY DEF Calls

\* The statement of a command or of the environment.
LEMMA ExecuteAddKeeps ==
    ASSUME IInv, NEW c \in calls, c.op = "add", Execute(c, AddAdminRole(c))
    PROVE  IInv'
  <1> DEFINE d == [c EXCEPT !.at = "test"]
  <1>1. c \in Calls /\ c.at = "statement" /\ c.role \in Roles
    BY DEF IInv, TypeOK, Execute, Calls
  <1>2. d \in Calls /\ d.by = c.by /\ d.op = c.op /\ d.role = c.role /\ d.at = "test"
    BY <1>1, Moved
  <1> HIDE DEF d
  <1>3. CASE AddAdminRole(c) /\ MoveTo(c, "test") /\ disturbed' = (disturbed \/ ~Quiet)
    <2>1. calls' = (calls \ {c}) \cup {d}
      BY <1>3 DEF MoveTo, d
    <2>2. Updating' = Updating \cup {d}
      BY <1>1, <1>2, <2>1 DEF Updating
    <2>3. UNCHANGED <<ready, entry, roles, boot, todo>>
      BY DEF Execute, cacheVars, startVars
    <2>4. TypeOK'
      BY <1>1, <1>2, <1>3, <2>1, <2>3 DEF IInv, TypeOK, AddAdminRole
    <2>5. Shape'
      BY <1>1, <1>2, <2>1, <2>3 DEF IInv, Shape
    <2>6. Justified'
      BY <1>1, <1>2, <1>3, <2>1, <2>3 DEF IInv, Shape, Justified, RevokedStaysOut, AddAdminRole
    <2>7. ASSUME ~disturbed' PROVE Ordered' /\ DifferenceExplained'
      <3>1. ~disturbed /\ Updating = {} /\ boot # "populate"
        BY <1>3, <2>7 DEF Quiet, IInv, TypeOK
      <3>2. Updating' = {d} /\ table' = table \cup {c.role}
        BY <1>3, <2>2, <3>1 DEF AddAdminRole
      <3>3. Ordered'
        BY <1>2, <2>3, <3>1, <3>2 DEF Ordered, Standing
      <3>4. DifferenceExplained'
        BY <1>2, <2>3, <3>1, <3>2 DEF IInv, DifferenceExplained
      <3> QED BY <3>3, <3>4
    <2>8. Ordered' /\ DifferenceExplained'
      BY <2>7 DEF Ordered, DifferenceExplained
    <2> QED BY <2>4, <2>5, <2>6, <2>8 DEF IInv
  <1>4. CASE /\ Return(c)
             /\ \/ AddAdminRole(c) /\ disturbed' = TRUE
                \/ UNCHANGED <<tableVars, disturbed>>
    <2>1. calls' = calls \ {c}
      BY <1>4 DEF Return
    <2>2. Updating' = Updating
      BY <1>1, <2>1 DEF Updating
    <2>3. UNCHANGED <<ready, entry, roles, boot, todo>>
      BY DEF Execute, cacheVars, startVars
    <2>4. TypeOK'
      BY <1>1, <1>4, <2>1, <2>3 DEF IInv, TypeOK, AddAdminRole, tableVars
    <2>5. Shape'
      BY <2>1, <2>3 DEF IInv, Shape
    <2>6. Justified'
      BY <1>1, <1>4, <2>1, <2>3 DEF IInv, Shape, Justified, RevokedStaysOut, AddAdminRole, tableVars
    <2>7. Ordered' /\ DifferenceExplained'
      BY <1>4, <2>2, <2>3 DEF IInv, Ordered, Standing, DifferenceExplained, tableVars
    <2> QED BY <2>4, <2>5, <2>6, <2>7 DEF IInv
  <1> QED BY <1>3, <1>4 DEF Execute

\* The statement of a command that removes a role.
LEMMA ExecuteRemoveKeeps ==
    ASSUME IInv, NEW c \in calls, c.op = "remove", Execute(c, RemoveAdminRole(c))
    PROVE  IInv'
  <1> DEFINE d == [c EXCEPT !.at = "test"]
  <1>1. c \in Calls /\ c.at = "statement" /\ c.role \in Roles
    BY DEF IInv, TypeOK, Execute, Calls
  <1>2. d \in Calls /\ d.by = c.by /\ d.op = c.op /\ d.role = c.role /\ d.at = "test"
    BY <1>1, Moved
  <1> HIDE DEF d
  <1>3. CASE RemoveAdminRole(c) /\ MoveTo(c, "test") /\ disturbed' = (disturbed \/ ~Quiet)
    <2>1. calls' = (calls \ {c}) \cup {d}
      BY <1>3 DEF MoveTo, d
    <2>2. Updating' = Updating \cup {d}
      BY <1>1, <1>2, <2>1 DEF Updating
    <2>3. UNCHANGED <<ready, entry, roles, boot, todo>>
      BY DEF Execute, cacheVars, startVars
    <2>4. TypeOK'
      BY <1>1, <1>2, <1>3, <2>1, <2>3 DEF IInv, TypeOK, RemoveAdminRole
    <2>5. Shape'
      BY <1>1, <1>2, <2>1, <2>3 DEF IInv, Shape
    <2>6. Justified'
      BY <1>1, <1>2, <1>3, <2>1, <2>3 DEF IInv, Shape, Justified, RevokedStaysOut, RemoveAdminRole
    <2>7. ASSUME ~disturbed' PROVE Ordered' /\ DifferenceExplained'
      <3>1. ~disturbed /\ Updating = {} /\ boot # "populate"
        BY <1>3, <2>7 DEF Quiet, IInv, TypeOK
      <3>2. Updating' = {d} /\ table' = table \ {c.role}
        BY <1>3, <2>2, <3>1 DEF RemoveAdminRole
      <3>3. Ordered'
        BY <1>2, <2>3, <3>1, <3>2 DEF Ordered, Standing
      <3>4. DifferenceExplained'
        BY <1>2, <2>3, <3>1, <3>2 DEF IInv, DifferenceExplained
      <3> QED BY <3>3, <3>4
    <2>8. Ordered' /\ DifferenceExplained'
      BY <2>7 DEF Ordered, DifferenceExplained
    <2> QED BY <2>4, <2>5, <2>6, <2>8 DEF IInv
  <1>4. CASE /\ Return(c)
             /\ \/ RemoveAdminRole(c) /\ disturbed' = TRUE
                \/ UNCHANGED <<tableVars, disturbed>>
    <2>1. calls' = calls \ {c}
      BY <1>4 DEF Return
    <2>2. Updating' = Updating
      BY <1>1, <2>1 DEF Updating
    <2>3. UNCHANGED <<ready, entry, roles, boot, todo>>
      BY DEF Execute, cacheVars, startVars
    <2>4. TypeOK'
      BY <1>1, <1>4, <2>1, <2>3 DEF IInv, TypeOK, RemoveAdminRole, tableVars
    <2>5. Shape'
      BY <2>1, <2>3 DEF IInv, Shape
    <2>6. Justified'
      BY <1>1, <1>4, <2>1, <2>3 DEF IInv, Shape, Justified, RevokedStaysOut, RemoveAdminRole, tableVars
    <2>7. Ordered' /\ DifferenceExplained'
      BY <1>4, <2>2, <2>3 DEF IInv, Ordered, Standing, DifferenceExplained, tableVars
    <2> QED BY <2>4, <2>5, <2>6, <2>7 DEF IInv
  <1> QED BY <1>3, <1>4 DEF Execute

\* The look whether there is a slice.
LEMMA TestEntryKeeps ==
    ASSUME IInv, NEW c \in calls, TestEntry(c), c.op = "remove" => entry
    PROVE  IInv'
  <1> DEFINE place == IF entry THEN "read" ELSE "make"
  <1> DEFINE d == [c EXCEPT !.at = place]
  <1>1. c \in Calls /\ c.at = "test"
    BY DEF IInv, TypeOK, TestEntry
  <1>2. /\ d \in Calls /\ d.by = c.by /\ d.op = c.op /\ d.role = c.role
        /\ d.at \in {"read", "make"} /\ (d.at = "make" => ~entry)
    BY <1>1 DEF Calls
  <1>3. calls' = (calls \ {c}) \cup {d}
    BY DEF TestEntry, MoveTo
  <1> HIDE DEF d
  <1>4. Updating' = (Updating \ {c}) \cup {d} /\ c \in Updating
    BY <1>1, <1>2, <1>3 DEF Updating
  <1>5. UNCHANGED <<table, granted, revoked, ready, entry, roles, boot, todo, disturbed>>
    BY DEF TestEntry, tableVars, cacheVars, startVars
  <1>6. TypeOK'
    BY <1>2, <1>3, <1>5 DEF IInv, TypeOK
  <1>7. Shape'
    BY <1>1, <1>2, <1>3, <1>5 DEF IInv, Shape
  <1>8. Justified'
    BY <1>1, <1>2, <1>3, <1>5 DEF IInv, Justified, RevokedStaysOut
  <1>9. Ordered'
    BY <1>1, <1>2, <1>4, <1>5 DEF IInv, Ordered, Standing
  <1>10. DifferenceExplained'
    BY <1>1, <1>2, <1>4, <1>5 DEF IInv, DifferenceExplained
  <1> QED BY <1>6, <1>7, <1>8, <1>9, <1>10 DEF IInv

\* The making of a slice.
LEMMA MakeEntryKeeps ==
    ASSUME IInv, NEW c \in calls, MakeEntry(c)
    PROVE  IInv'
  <1> DEFINE d == [c EXCEPT !.at = "read"]
  <1>1. c \in Calls /\ c.at = "make"
    BY DEF IInv, TypeOK, MakeEntry
  <1>2. d \in Calls /\ d.by = c.by /\ d.op = c.op /\ d.role = c.role /\ d.at = "read"
    BY <1>1, Moved
  <1>3. calls' = (calls \ {c}) \cup {d}
    BY DEF MakeEntry, MoveTo
  <1> HIDE DEF d
  <1>4. Updating' = (Updating \ {c}) \cup {d} /\ c \in Updating
    BY <1>1, <1>2, <1>3 DEF Updating
  <1>5. /\ UNCHANGED <<table, granted, revoked, ready, boot, todo, disturbed>>
        /\ entry' = TRUE /\ roles' = {}
    BY DEF MakeEntry, tableVars, startVars
  <1>6. TypeOK'
    BY <1>2, <1>3, <1>5 DEF IInv, TypeOK
  <1>7. Shape'
    BY <1>1, <1>2, <1>3, <1>5 DEF IInv, Shape
  <1>8. Justified'
    BY <1>1, <1>2, <1>3, <1>5 DEF IInv, Justified, RevokedStaysOut
  <1>9. ASSUME ~disturbed PROVE roles = {} /\ Updating = {c} /\ Updating' = {d}
    BY <1>1, <1>4, <1>9 DEF IInv, Shape, Ordered, Standing
  <1>10. Ordered'
    BY <1>1, <1>2, <1>5, <1>9 DEF IInv, Ordered, Standing
  <1>11. DifferenceExplained'
    BY <1>1, <1>2, <1>5, <1>9 DEF IInv, DifferenceExplained
  <1> QED BY <1>6, <1>7, <1>8, <1>10, <1>11 DEF IInv

\* The computation of the new slice from the present one.
LEMMA ComputeKeeps ==
    ASSUME IInv, NEW c \in calls, NEW new \in SUBSET Roles, Compute(c, new),
           new = IF c.op = "remove" THEN roles \ {c.role} ELSE roles \cup {c.role}
    PROVE  IInv'
  <1> DEFINE d == [c EXCEPT !.at = "write", !.seen = new]
  <1>1. c \in Calls /\ c.at = "read"
    BY DEF IInv, TypeOK, Compute
  <1>2. /\ d \in Calls /\ d.by = c.by /\ d.op = c.op /\ d.role = c.role
        /\ d.at = "write" /\ d.seen = new
    BY <1>1 DEF Calls
  <1>3. calls' = (calls \ {c}) \cup {d}
    BY DEF Compute
  <1> HIDE DEF d
  <1>4. Updating' = (Updating \ {c}) \cup {d} /\ c \in Updating
    BY <1>1, <1>2, <1>3 DEF Updating
  <1>5. UNCHANGED <<table, granted, revoked, ready, entry, roles, boot, todo, disturbed>>
    BY DEF Compute, tableVars, cacheVars, startVars
  <1>6. TypeOK'
    BY <1>2, <1>3, <1>5 DEF IInv, TypeOK
  <1>7. Shape'
    BY <1>1, <1>2, <1>3, <1>5 DEF IInv, Shape
  <1>8. new \subseteq granted
    BY <1>1 DEF IInv, Justified
  <1>9. Justified'
    BY <1>1, <1>2, <1>3, <1>5, <1>8 DEF IInv, Justified, RevokedStaysOut
  <1>10. Ordered'
    BY <1>1, <1>2, <1>4, <1>5 DEF IInv, Ordered, Standing
  <1>11. DifferenceExplained'
    BY <1>1, <1>2, <1>4, <1>5 DEF IInv, DifferenceExplained
  <1> QED BY <1>6, <1>7, <1>9, <1>10, <1>11 DEF IInv

\* The assignment of the new slice.
LEMMA AssignKeeps ==
    ASSUME IInv, NEW c \in calls, Assign(c)
    PROVE  IInv'
  <1>1. c \in Calls /\ c.at = "write" /\ c.seen \in SUBSET Roles
    BY DEF IInv, TypeOK, Assign, Calls
  <1>2. calls' = calls \ {c} /\ Updating' = Updating \ {c} /\ c \in Updating
    BY <1>1 DEF Assign, Return, Updating
  <1>3. /\ UNCHANGED <<table, granted, revoked, ready, boot, todo, disturbed>>
        /\ entry' = TRUE /\ roles' = c.seen
    BY DEF Assign, tableVars, startVars
  <1>4. TypeOK'
    BY <1>1, <1>2, <1>3 DEF IInv, TypeOK
  <1>5. Shape'
    BY <1>1, <1>2, <1>3 DEF IInv, Shape
  <1>6. Justified'
    BY <1>1, <1>2, <1>3 DEF IInv, Justified, RevokedStaysOut
  <1>7. ASSUME ~disturbed PROVE Updating = {c} /\ Updating' = {} /\ Standing(c)
    BY <1>2, <1>7 DEF IInv, Ordered
  <1>8. Ordered'
    BY <1>3, <1>7 DEF IInv, Ordered
  <1>9. DifferenceExplained'
    BY <1>1, <1>3, <1>7 DEF IInv, DifferenceExplained, Standing
  <1> QED BY <1>4, <1>5, <1>6, <1>8, <1>9 DEF IInv

\* The return of a call that has nothing to change in the slice.
LEMMA ReturnKeeps ==
    ASSUME IInv, NEW c \in calls, c.at # "statement", Return(c),
           UNCHANGED <<tableVars, cacheVars, startVars, disturbed>>,
           IF c.op = "remove" THEN c.role \notin roles ELSE c.role \in roles
    PROVE  IInv'
  <1>1. calls' = calls \ {c} /\ Updating' = Updating \ {c} /\ c \in Updating
    BY DEF Return, Updating
  <1>2. UNCHANGED <<table, granted, revoked, ready, entry, roles, boot, todo, disturbed>>
    BY DEF tableVars, cacheVars, startVars
  <1>3. TypeOK'
    BY <1>1, <1>2 DEF IInv, TypeOK
  <1>4. Shape'
    BY <1>1, <1>2 DEF IInv, Shape
  <1>5. Justified'
    BY <1>1, <1>2 DEF IInv, Justified, RevokedStaysOut
  <1>6. Ordered'
    BY <1>1, <1>2 DEF IInv, Ordered, Standing
  <1>7. DifferenceExplained'
    BY <1>1, <1>2 DEF IInv, Ordered, DifferenceExplained
  <1> QED BY <1>3, <1>4, <1>5, <1>6, <1>7 DEF IInv

\* A step of a call of AddRole, of RemoveRole or of an append of the loading.
LEMMA CallKeeps ==
    ASSUME IInv, NEW c \in calls, AddRole(c) \/ RemoveRole(c) \/ Append(c)
    PROVE  IInv'
  <1>1. c \in Calls /\ c.role \in Roles /\ roles \in SUBSET Roles /\ (~entry => roles = {})
    BY DEF IInv, TypeOK, Shape, Calls
  <1>2. CASE AddRole(c)
    <2>1. c.op = "add"
      BY <1>2 DEF AddRole
    <2>2. CASE Execute(c, AddAdminRole(c))
      BY <2>1, <2>2, ExecuteAddKeeps
    <2>3. CASE TestEntry(c)
      BY <2>1, <2>3, TestEntryKeeps
    <2>4. CASE MakeEntry(c)
      BY <2>4, MakeEntryKeeps
    <2>5. CASE Compute(c, roles \cup {c.role})
      BY <1>1, <2>1, <2>5, ComputeKeeps
    <2>6. CASE /\ c.at = "read" /\ c.role \in roles
               /\ Return(c)
               /\ UNCHANGED <<tableVars, cacheVars, startVars, disturbed>>
      BY <2>1, <2>6, ReturnKeeps
    <2>7. CASE Assign(c)
      BY <2>7, AssignKeeps
    <2> QED BY <1>2, <2>2, <2>3, <2>4, <2>5, <2>6, <2>7 DEF AddRole
  <1>3. CASE RemoveRole(c)
    <2>1. c.op = "remove"
      BY <1>3 DEF RemoveRole
    <2>2. CASE Execute(c, RemoveAdminRole(c))
      BY <2>1, <2>2, ExecuteRemoveKeeps
    <2>3. CASE entry /\ TestEntry(c)
      BY <2>1, <2>3, TestEntryKeeps
    <2>4. CASE /\ c.at = "test" /\ ~entry
               /\ Return(c)
               /\ UNCHANGED <<tableVars, cacheVars, startVars, disturbed>>
      BY <1>1, <2>1, <2>4, ReturnKeeps
    <2>5. CASE Compute(c, roles \ {c.role})
      BY <1>1, <2>1, <2>5, ComputeKeeps
    <2>6. CASE Assign(c)
      BY <2>6, AssignKeeps
    <2> QED BY <1>3, <2>2, <2>3, <2>4, <2>5, <2>6 DEF RemoveRole
  <1>4. CASE Append(c)
    <2>1. c.op = "load"
      BY <1>4 DEF Append
    <2>2. CASE TestEntry(c)
      BY <2>1, <2>2, TestEntryKeeps
    <2>3. CASE MakeEntry(c)
      BY <2>3, MakeEntryKeeps
    <2>4. CASE Compute(c, roles \cup {c.role})
      BY <1>1, <2>1, <2>4, ComputeKeeps
    <2>5. CASE Assign(c)
      BY <2>5, AssignKeeps
    <2> QED BY <1>4, <2>2, <2>3, <2>4, <2>5 DEF Append
  <1> QED BY <1>2, <1>3, <1>4
-----------------------------------------------------------------------------
\* A command begins.
LEMMA HandleRoleCommandKeeps ==
    ASSUME IInv, NEW h \in Handlers, HandleRoleCommand(h)
    PROVE  IInv'
  <1>1. PICK op \in {"add", "remove"}, r \in Roles : Call(h, op, r, "statement")
    BY DEF HandleRoleCommand
  <1> DEFINE d == [by |-> h, op |-> op, role |-> r, at |-> "statement", seen |-> {}]
  <1>2. /\ d \in Calls /\ d.by # "start" /\ d.op \in {"add", "remove"} /\ d.at = "statement"
    BY AdminRolesAssumption DEF Calls, Callers
  <1>3. calls' = calls \cup {d}
    BY <1>1 DEF Call
  <1> HIDE DEF d
  <1>4. Updating' = Updating
    BY <1>2, <1>3 DEF Updating
  <1>5. ready /\ UNCHANGED <<table, granted, revoked, ready, entry, roles, boot, todo, disturbed>>
    BY DEF HandleRoleCommand, tableVars, cacheVars, startVars
  <1>6. TypeOK'
    BY <1>2, <1>3, <1>5 DEF IInv, TypeOK
  <1>7. Shape'
    BY <1>2, <1>3, <1>5 DEF IInv, TypeOK, Shape
  <1>8. Justified'
    BY <1>2, <1>3, <1>5 DEF IInv, Justified, RevokedStaysOut
  <1>9. Ordered' /\ DifferenceExplained'
    BY <1>4, <1>5 DEF IInv, Ordered, Standing, DifferenceExplained
  <1> QED BY <1>6, <1>7, <1>8, <1>9 DEF IInv

\* The manager is made, and its table read.
LEMMA ManagerKeeps ==
    ASSUME IInv, NewAdminRoleManager \/ GetAllAdminRoles
    PROVE  IInv'
  <1>1. CASE NewAdminRoleManager
    <2>1. calls = {} /\ Updating = {} /\ Updating' = {}
      BY <1>1 DEF NewAdminRoleManager, IInv, Shape, Updating
    <2>2. /\ boot = "open" /\ ready' = TRUE /\ entry' = FALSE /\ roles' = {} /\ boot' = "load"
          /\ UNCHANGED <<table, granted, revoked, calls, todo, disturbed>>
      BY <1>1 DEF NewAdminRoleManager, tableVars
    <2>3. TypeOK' /\ Shape' /\ Justified'
      BY <2>1, <2>2 DEF IInv, TypeOK, Shape, Justified, RevokedStaysOut
    <2>4. Ordered' /\ DifferenceExplained'
      BY <2>1, <2>2 DEF Ordered, DifferenceExplained
    <2> QED BY <2>3, <2>4 DEF IInv
  <1>2. CASE GetAllAdminRoles
    <2>1. /\ boot = "load"
          /\ UNCHANGED <<table, granted, revoked, ready, entry, roles, calls>>
          /\ \/ boot' = "populate" /\ todo' = table /\ disturbed' = (disturbed \/ Updating # {})
             \/ boot' = "environment" /\ todo' = Environment /\ disturbed' = TRUE
      BY <1>2 DEF GetAllAdminRoles, tableVars, cacheVars
    <2>2. Updating' = Updating
      BY <2>1 DEF Updating
    <2>3. TypeOK' /\ Shape'
      BY <2>1, AdminRolesAssumption DEF IInv, TypeOK, Shape
    <2>4. Justified'
      BY <2>1 DEF IInv, Justified, RevokedStaysOut
    <2>5. Ordered' /\ DifferenceExplained'
      BY <2>1, <2>2 DEF IInv, TypeOK, Ordered, DifferenceExplained
    <2> QED BY <2>3, <2>4, <2>5 DEF IInv
  <1> QED BY <1>1, <1>2

\* The loop that appends the roles of the table.
LEMMA PopulateKeeps ==
    ASSUME IInv, PopulateCache
    PROVE  IInv'
  <1>1. boot = "populate" /\ ~Busy("start")
    BY DEF PopulateCache, NextRole, EndLoop
  <1>2. \A c \in calls : c.by # "start" /\ c.op # "load"
    BY <1>1 DEF Busy, IInv, Shape
  <1>3. ASSUME ~disturbed PROVE Updating = {}
    BY <1>1, <1>2, <1>3 DEF IInv, Ordered, Updating
  <1>4. CASE NextRole("populate", "load", "test")
    <2>1. PICK r \in todo : Call("start", "load", r, "test") /\ todo' = todo \ {r}
      BY <1>4 DEF NextRole
    <2> DEFINE d == [by |-> "start", op |-> "load", role |-> r, at |-> "test", seen |-> {}]
    <2>2. /\ d \in Calls /\ d.by = "start" /\ d.op = "load" /\ d.role = r /\ d.at = "test"
      BY <2>1 DEF Calls, Callers, IInv, TypeOK
    <2>3. calls' = calls \cup {d}
      BY <2>1 DEF Call
    <2> HIDE DEF d
    <2>4. Updating' = Updating \cup {d}
      BY <2>2, <2>3 DEF Updating
    <2>5. UNCHANGED <<table, granted, revoked, ready, entry, roles, boot, disturbed>>
      BY <1>4 DEF NextRole, tableVars, cacheVars
    <2>6. TypeOK' /\ Shape'
      BY <1>1, <2>1, <2>2, <2>3, <2>5 DEF IInv, TypeOK, Shape
    <2>7. Justified'
      BY <1>1, <2>1, <2>2, <2>3, <2>5 DEF IInv, Justified, RevokedStaysOut
    <2>8. Ordered' /\ DifferenceExplained'
      BY <1>1, <1>3, <2>1, <2>2, <2>4, <2>5 DEF IInv, Ordered, Standing, DifferenceExplained
    <2> QED BY <2>6, <2>7, <2>8 DEF IInv
  <1>5. CASE EndLoop("populate", "environment", Environment)
    <2>1. /\ todo = {} /\ boot' = "environment" /\ todo' = Environment
          /\ UNCHANGED <<table, granted, revoked, ready, entry, roles, calls, disturbed>>
      BY <1>5 DEF EndLoop, tableVars, cacheVars
    <2>2. Updating' = Updating
      BY <2>1 DEF Updating
    <2>3. TypeOK' /\ Shape'
      BY <1>1, <1>2, <2>1, AdminRolesAssumption DEF IInv, TypeOK, Shape
    <2>4. Justified'
      BY <2>1 DEF IInv, Justified, RevokedStaysOut
    <2>5. Ordered' /\ DifferenceExplained'
      BY <1>1, <1>3, <2>1, <2>2 DEF IInv, Ordered, DifferenceExplained
    <2> QED BY <2>3, <2>4, <2>5 DEF IInv
  <1> QED BY <1>4, <1>5 DEF PopulateCache

\* The loop that adds the roles of the environment.
LEMMA EnvironmentKeeps ==
    ASSUME IInv, AddEnvironmentRoles
    PROVE  IInv'
  <1>1. boot = "environment" /\ ~Busy("start")
    BY DEF AddEnvironmentRoles, NextRole, EndLoop
  <1>2. CASE NextRole("environment", "add", "statement")
    <2>1. PICK r \in todo : Call("start", "add", r, "statement") /\ todo' = todo \ {r}
      BY <1>2 DEF NextRole
    <2> DEFINE d == [by |-> "start", op |-> "add", role |-> r, at |-> "statement", seen |-> {}]
    <2>2. /\ d \in Calls /\ d.op = "add" /\ d.role = r /\ d.at = "statement"
      BY <2>1 DEF Calls, Callers, IInv, TypeOK
    <2>3. calls' = calls \cup {d}
      BY <2>1 DEF Call
    <2> HIDE DEF d
    <2>4. Updating' = Updating
      BY <2>2, <2>3 DEF Updating
    <2>5. UNCHANGED <<table, granted, revoked, ready, entry, roles, boot, disturbed>>
      BY <1>2 DEF NextRole, tableVars, cacheVars
    <2>6. TypeOK' /\ Shape'
      BY <1>1, <2>1, <2>2, <2>3, <2>5 DEF IInv, TypeOK, Shape
    <2>7. Justified'
      BY <1>1, <2>1, <2>2, <2>3, <2>5 DEF IInv, Justified, RevokedStaysOut
    <2>8. Ordered' /\ DifferenceExplained'
      BY <1>1, <2>4, <2>5 DEF IInv, Ordered, Standing, DifferenceExplained
    <2> QED BY <2>6, <2>7, <2>8 DEF IInv
  <1>3. CASE EndLoop("environment", "up", {})
    <2>1. /\ boot' = "up" /\ todo' = {}
          /\ UNCHANGED <<table, granted, revoked, ready, entry, roles, calls, disturbed>>
      BY <1>3 DEF EndLoop, tableVars, cacheVars
    <2>2. Updating' = Updating
      BY <2>1 DEF Updating
    <2>3. \A c \in calls : c.by # "start" /\ c.op # "load"
      BY <1>1 DEF Busy, IInv, Shape
    <2>4. TypeOK' /\ Shape'
      BY <1>1, <2>1, <2>3 DEF IInv, TypeOK, Shape
    <2>5. Justified'
      BY <2>1 DEF IInv, Justified, RevokedStaysOut
    <2>6. Ordered' /\ DifferenceExplained'
      BY <1>1, <2>1, <2>2 DEF IInv, Ordered, Standing, DifferenceExplained
    <2> QED BY <2>4, <2>5, <2>6 DEF IInv
  <1> QED BY <1>2, <1>3 DEF AddEnvironmentRoles

\* A new process begins with nothing in memory.
LEMMA RestartKeeps ==
    ASSUME IInv, Restart
    PROVE  IInv'
  <1>1. UNCHANGED <<table, granted, revoked>> /\ calls' = {} /\ roles' = {}
    BY DEF Restart, tableVars
  <1>2. Updating' = {}
    BY <1>1 DEF Updating
  <1>3. TypeOK' /\ Shape' /\ Justified'
    BY <1>1 DEF IInv, TypeOK, Shape, Justified, RevokedStaysOut, Restart
  <1>4. Ordered' /\ DifferenceExplained'
    BY <1>1, <1>2 DEF Ordered, DifferenceExplained, Restart
  <1> QED BY <1>3, <1>4 DEF IInv
-----------------------------------------------------------------------------
\* The invariant holds of every reachable state.
THEOREM Invariance == Spec => []IInv
  <1>1. Init => IInv
    <2> SUFFICES ASSUME Init PROVE IInv
      OBVIOUS
    <2>1. Updating = {} /\ calls = {}
      BY DEF Init, Updating
    <2> QED
      BY <2>1 DEF Init, IInv, TypeOK, Shape, Justified, RevokedStaysOut, Ordered, DifferenceExplained
  <1>2. IInv /\ [Next]_vars => IInv'
    <2> SUFFICES ASSUME IInv, [Next]_vars PROVE IInv'
      OBVIOUS
    <2>1. ASSUME NEW c \in calls, AddRole(c) \/ RemoveRole(c) \/ Append(c) PROVE IInv'
      BY <2>1, CallKeeps
    <2>2. ASSUME NEW h \in Handlers, HandleRoleCommand(h) PROVE IInv'
      BY <2>2, HandleRoleCommandKeeps
    <2>3. CASE NewAdminRoleManager \/ GetAllAdminRoles
      BY <2>3, ManagerKeeps
    <2>4. CASE PopulateCache
      BY <2>4, PopulateKeeps
    <2>5. CASE AddEnvironmentRoles
      BY <2>5, EnvironmentKeeps
    <2>6. CASE Restart
      BY <2>6, RestartKeeps
    <2>7. CASE UNCHANGED vars
      <3>1. UNCHANGED <<table, ready, entry, roles, calls, boot, todo, granted, revoked, disturbed>>
        BY <2>7 DEF vars
      <3>2. Updating' = Updating
        BY <3>1 DEF Updating
      <3> QED
        BY <3>1, <3>2 DEF IInv, TypeOK, Shape, Justified, RevokedStaysOut, Ordered, Standing, DifferenceExplained
    <2> QED BY <2>1, <2>2, <2>3, <2>4, <2>5, <2>6, <2>7 DEF Next
  <1> QED BY <1>1, <1>2, PTL DEF Spec

\* The state of the manager and of the calls is of the declared types; commands that
\* change roles run only from when Start has assigned the manager to the bot.
THEOREM TypeCorrect == Spec => []TypeOK
  BY Invariance, PTL DEF IInv

\* However many commands race, and whatever fails, the slice holds no role that has never
\* had a row.
THEOREM SliceGranted == Spec => []OnlyGranted
  <1>1. IInv => OnlyGranted
    BY DEF IInv, Justified, OnlyGranted
  <1> QED BY <1>1, Invariance, PTL

\* A revoked role has a row again only if the environment names it.
THEOREM RevocationsLast == Spec => []RevokedStaysOut
  <1>1. IInv => RevokedStaysOut
    BY DEF IInv, Justified
  <1> QED BY <1>1, Invariance, PTL

\* Without overlap and failure, slice and table differ by the change under way alone.
THEOREM SliceFollowsTable == Spec => []DifferenceExplained
  BY Invariance, PTL DEF IInv
-----------------------------------------------------------------------------
\* What the check of a member decides.  Whoever it lets through without the administrator
\* right has a role that has had a row, whatever overlaps or fails.  Once the table has
\* been loaded, and as long as nothing overlaps or fails, it lets a member through by a
\* role if and only if the member names the guild and one of its roles has a row, unless
\* one of these roles is just being added or removed; a member that does not name the
\* guild needs the administrator right, whatever the table holds.
PermissionsFollowTable ==
    \A administrator, guildNamed \in BOOLEAN, memberRoles \in SUBSET Roles :
        LET allowed == CheckAdminPermission(administrator, memberRoles, guildNamed)
        IN  /\ allowed /\ ~administrator => memberRoles \cap granted # {}
            /\ /\ ~disturbed /\ boot \in {"environment", "up"}
               /\ \A c \in Updating : c.role \notin memberRoles
               => (allowed <=> administrator \/ (guildNamed /\ memberRoles \cap table # {}))

\* The permission check of a command agrees with what has been granted and with the
\* table (checkAdminPermission, HasAdminRole).
THEOREM PermissionsCorrect == Spec => []PermissionsFollowTable
<1>1. OnlyGranted /\ DifferenceExplained => PermissionsFollowTable
  <2> SUFFICES ASSUME OnlyGranted, DifferenceExplained,
                      NEW administrator \in BOOLEAN, NEW guildNamed \in BOOLEAN,
                      NEW memberRoles \in SUBSET Roles
               PROVE  LET allowed == CheckAdminPermission(administrator, memberRoles, guildNamed)
                      IN  /\ allowed /\ ~administrator => memberRoles \cap granted # {}
                          /\ /\ ~disturbed /\ boot \in {"environment", "up"}
                             /\ \A c \in Updating : c.role \notin memberRoles
                             => (allowed <=> administrator
                                               \/ (guildNamed /\ memberRoles \cap table # {}))
    BY DEF PermissionsFollowTable
  <2>1. memberRoles \cap roles # {} => memberRoles \cap granted # {}
    BY DEF OnlyGranted
  <2>2. ASSUME ~disturbed, boot \in {"environment", "up"},
               \A c \in Updating : c.role \notin memberRoles
        PROVE  memberRoles \cap roles # {} <=> memberRoles \cap table # {}
    BY <2>2 DEF DifferenceExplained
  <2> QED BY <2>1, <2>2 DEF CheckAdminPermission, HasAdminRole
<1> QED BY <1>1, SliceGranted, SliceFollowsTable, PTL
=============================================================================
