------------------------------- MODULE MCServers -------------------------------
(***************************************************************************)
(* Two servers and as many threads: the one's writers fill the pool, an    *)
(* abandoned one next to the one of the last flush.                        *)
(***************************************************************************)
EXTENDS Servers

MCBatches == [s \in Servers |-> IF s = "north" THEN 2 ELSE 1]
=============================================================================
