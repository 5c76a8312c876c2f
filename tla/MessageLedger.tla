---------------------------- MODULE MessageLedger ----------------------------
(***************************************************************************)
(* What the pipeline promises about the messages it is given, without      *)
(* buffers, locks, breaker or goroutines: every message is refused or      *)
(* accepted once, an accepted message has one outcome for good, and the    *)
(* rows in the database agree with the outcomes.                           *)
(***************************************************************************)
EXTENDS Naturals

CONSTANT Msgs

VARIABLES
    outcome,     \* what has become of each message, as the bot sees it
    rows         \* the messages in the database

ledgerVars == <<outcome, rows>>

Outcomes == {"none", "refused", "pending", "stored", "dropped", "failed"}

Pending == {m \in Msgs : outcome[m] = "pending"}

LedgerInit ==
    /\ outcome = [m \in Msgs |-> "none"]
    /\ rows = {}

Decide(B, result) ==
    /\ B # {}
    /\ outcome' = [m \in Msgs |-> IF m \in B THEN result ELSE outcome[m]]

LedgerTake(m) ==
    /\ outcome[m] = "none"
    /\ Decide({m}, "pending") \/ Decide({m}, "refused")
    /\ UNCHANGED rows

LedgerStore(B) == Decide(B, "stored") /\ rows' = rows \cup B

LedgerDrop(B) == Decide(B, "dropped") /\ UNCHANGED rows

\* After an error the bot cannot tell whether the rows were written: all or none.
LedgerGiveUp(B) == Decide(B, "failed") /\ rows' \in {rows, rows \cup B}

LedgerNext ==
    \/ \E m \in Msgs : LedgerTake(m)
    \/ \E B \in SUBSET Pending : LedgerStore(B) \/ LedgerDrop(B) \/ LedgerGiveUp(B)

LedgerSpec == LedgerInit /\ [][LedgerNext]_ledgerVars
-----------------------------------------------------------------------------
LedgerTypeOK ==
    /\ outcome \in [Msgs -> Outcomes]
    /\ rows \in SUBSET Msgs

\* A message reported stored has its row, and only a message whose insert came
\* to an end, well or badly, has one: never a dropped, refused or pending one.
RowsMatchOutcomes ==
    /\ {m \in Msgs : outcome[m] = "stored"} \subseteq rows
    /\ rows \subseteq {m \in Msgs : outcome[m] \in {"stored", "failed"}}
=============================================================================
