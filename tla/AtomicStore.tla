------------------------------ MODULE AtomicStore ------------------------------
(***************************************************************************)
(* What those who write to a database may take for granted, with no lock,  *)
(* connection, thread or statement in sight: a write takes effect in one   *)
(* step, in all its tables and at most once; the answer comes after it; a  *)
(* write that was refused or turned away from never takes effect later.  A *)
(* refused one may have, when its commit was not heard.  Servers           *)
(* implements this module.                                                 *)
(***************************************************************************)
CONSTANTS
    Writes,    \* writes, of all callers and databases
    Repeated   \* those whose caller writes again and again

VARIABLES
    outcome,   \* what its caller knows of a write
    written    \* the writes that are in the database

storeVars == <<outcome, written>>

Outcomes == {"none", "asked", "ok", "failed", "gone"}

Init ==
    /\ outcome = [w \in Writes |-> "none"]
    /\ written = {}

(* A caller asks for its write, once and for all.                          *)
Ask(w) ==
    /\ outcome[w] = "none"
    /\ outcome' = [outcome EXCEPT ![w] = "asked"]
    /\ UNCHANGED written

(* What a repeated write left before counts no more.                       *)
AskAgain(w) ==
    /\ w \in Repeated /\ outcome[w] # "asked"
    /\ outcome' = [outcome EXCEPT ![w] = "asked"]
    /\ written' = written \ {w}

(* It takes effect, and is reported unless the report is lost.             *)
Write(w) ==
    /\ outcome[w] = "asked" /\ w \notin written
    /\ written' = written \cup {w}
    /\ outcome' \in {outcome, [outcome EXCEPT ![w] = "ok"]}

Refuse(w) ==
    /\ outcome[w] = "asked"
    /\ outcome' = [outcome EXCEPT ![w] = "failed"]
    /\ UNCHANGED written

(* Callers turn away: from an answer, or before their write is begun.      *)
TurnAway ==
    /\ outcome' \in [Writes -> Outcomes]
    /\ \A w \in Writes :
        \/ outcome'[w] = outcome[w]
        \/ /\ outcome[w] \in {"asked", "ok", "failed"}
           /\ outcome[w] = "asked" => w \notin written
           /\ outcome'[w] = IF w \in Repeated THEN "none" ELSE "gone"
    /\ UNCHANGED written

Next == TurnAway \/ \E w \in Writes : Ask(w) \/ AskAgain(w) \/ Write(w) \/ Refuse(w)

Spec == Init /\ [][Next]_storeVars
=============================================================================
