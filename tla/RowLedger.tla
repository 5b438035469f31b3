------------------------------ MODULE RowLedger ------------------------------
(***************************************************************************)
(* What the ingestor owes to a row it has decoded, with no queue, session, *)
(* thread or connection in sight: a row is held until it is written or     *)
(* lost, a written row stays written, a lost row is never written          *)
(* afterwards, and a row is dropped as a duplicate only when the database  *)
(* really has the row it duplicates.  Ingest implements this module.       *)
(***************************************************************************)
EXTENDS FiniteSets

CONSTANT Conflict(_, _)  \* Conflict(r, s): the primary key tells r and s equal

VARIABLES
    held,    \* rows taken, neither written nor lost
    stored,  \* rows of the database
    lost     \* rows that will never be written

ledgerVars == <<held, stored, lost>>

Init ==
    /\ held = {}
    /\ stored = {}
    /\ lost = {}

(* New rows: none of them was ever held, written or lost before.           *)
Take ==
    /\ held \subseteq held'
    /\ (held' \ held) \cap (stored \cup lost) = {}
    /\ UNCHANGED <<stored, lost>>

(* A transaction writes some held rows and drops others as duplicates.     *)
Write ==
    LET new     == stored' \ stored
        dropped == (held \ held') \ new
    IN  /\ stored \subseteq stored'
        /\ new \subseteq held \ held'
        /\ held' \subseteq held
        /\ \A r \in dropped : \E s \in stored' : Conflict(r, s)
        /\ \A r \in new, s \in stored' : Conflict(r, s) => r = s
        /\ UNCHANGED lost

(* Rows given up: they were held, and they are known as lost.              *)
Lose ==
    /\ held' \subseteq held
    /\ lost' = lost \cup (held \ held')
    /\ UNCHANGED stored

Next == Take \/ Write \/ Lose

Spec == Init /\ [][Next]_ledgerVars
=============================================================================
