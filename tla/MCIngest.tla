------------------------------- MODULE MCIngest -------------------------------
(***************************************************************************)
(* Small plants for Ingest.  Four metrics stand for the eight of           *)
(* lib/metrics.py: "cpu" has a table without a primary key, "network" too  *)
(* and two rows per reading, one for each interface; "heartbeat" shares    *)
(* its table with the collector's own round trips; "events" repeats its    *)
(* last two publications and has a table of its own, as the tags have.     *)
(***************************************************************************)
EXTENDS Ingest

MCTable == [k \in Keys |->
    CASE k = "cpu" -> "cpu_usage"
      [] k = "network" -> "network_usage"
      [] k = "events" -> "events"
      [] k = "tag" -> "tags"
      [] OTHER -> "heartbeat_rtt"]
MCWindow == [k \in Metrics |-> IF k \in {"network", "events"} THEN 2 ELSE 1]

(* Which faults a run admits, and how often.                               *)
NoFaults == [kind \in FaultKinds |-> 0]
OneRollback == [NoFaults EXCEPT !["rollback"] = 1]
OneConnection == [NoFaults EXCEPT !["connection"] = 1]
DbFaults == [NoFaults EXCEPT !["rollback"] = 1, !["connection"] = 1,
                             !["crash"] = 1]
Restarts == [NoFaults EXCEPT !["rollback"] = 1, !["crash"] = 1, !["requality"] = 1,
                             !["clock"] = 1]
=============================================================================
