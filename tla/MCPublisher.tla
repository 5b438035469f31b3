----------------------------- MODULE MCPublisher -----------------------------
(***************************************************************************)
(* One metric that may fail for ever next to the errors one, which fails   *)
(* only as often as the faults admit.                                      *)
(***************************************************************************)
EXTENDS Publisher

NoFaults == [kind \in FaultKinds |-> 0]
AnyFault == [kind \in FaultKinds |-> 1]
TwoLinks == [NoFaults EXCEPT !["link"] = 2]
=============================================================================
