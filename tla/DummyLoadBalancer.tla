------------------------- MODULE DummyLoadBalancer --------------------------
(***************************************************************************)
(* The round-robin load balancer that places application threads.          *)
(***************************************************************************)
EXTENDS Integers

CONSTANT nodesNum

ASSUME NodesAssumption == nodesNum \in Nat \ {0}

Node == 0..nodesNum - 1

\* Before the first thread the last node is -1.
NoNode == -1

getVictim(lastNode) == IF lastNode < nodesNum - 1 THEN lastNode + 1 ELSE 0
=============================================================================
