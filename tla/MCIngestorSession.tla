--------------------------- MODULE MCIngestorSession ---------------------------
(***************************************************************************)
(* Two subscriptions are enough for one to fail behind, or in front of,    *)
(* one that has gone silent.  Each run admits the faults its question is   *)
(* about.                                                                  *)
(***************************************************************************)
EXTENDS IngestorSession

NoFaults == [kind \in FaultKinds |-> 0]
AnyFault == [kind \in FaultKinds |-> 1]
OneLink == [NoFaults EXCEPT !["link"] = 1, !["db"] = 1]
=============================================================================
