---------------------------- MODULE ConnectionHistory ----------------------------
(***************************************************************************)
(* What a reader of active_log may conclude, with no await, subscription   *)
(* or exception in sight: each session has one "active" row, written as it *)
(* begins, and its end an "inactive" one before another begins; only a     *)
(* process that is killed, or gives up, leaves a row out.  No session      *)
(* begins once the process was told to stop.  IngestorSession implements   *)
(* this module.                                                            *)
(***************************************************************************)
EXTENDS Sequences

VARIABLES
    phase,    \* "away", "open", "untold" (an end without its row), "over"
    ordered,  \* the process was told to stop
    rows      \* events of active_log

historyVars == <<phase, ordered, rows>>

Init ==
    /\ phase = "away"
    /\ ordered = FALSE
    /\ rows = <<>>

Begin ==
    /\ phase = "away" /\ ~ordered
    /\ phase' = "open"
    /\ rows' = Append(rows, "active")
    /\ UNCHANGED ordered

(* A session ends, or an attempt to begin one fails.                       *)
End ==
    /\ phase \in {"away", "open"}
    /\ phase = "away" => ~ordered
    /\ phase' = "untold"
    /\ UNCHANGED <<ordered, rows>>

Tell ==
    /\ phase = "untold"
    /\ phase' = IF ordered THEN "over" ELSE "away"
    /\ rows' = Append(rows, "inactive")
    /\ UNCHANGED ordered

GiveUp ==
    /\ phase = "untold"
    /\ phase' = "over"
    /\ UNCHANGED <<ordered, rows>>

(* Between two attempts there is nothing to tell.                          *)
Stop ==
    /\ ~ordered /\ phase # "over"
    /\ ordered' = TRUE
    /\ phase' \in IF phase = "away" THEN {"untold", "over"} ELSE {phase, "untold"}
    /\ UNCHANGED rows

(* Killed and started again.                                               *)
Kill ==
    /\ phase' = "away"
    /\ ordered' = FALSE
    /\ UNCHANGED rows

Next == Begin \/ End \/ Tell \/ GiveUp \/ Stop \/ Kill

Spec == Init /\ [][Next]_historyVars
=============================================================================
