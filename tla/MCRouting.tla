----------------------------- MODULE MCRouting -----------------------------
(***************************************************************************)
(* Routing for TLC's liveness run: three nodes in a triangle whose direct  *)
(* link 1-3 is longer than the way round.                                  *)
(***************************************************************************)
EXTENDS Routing

MCNodes == 1 .. 3

MCCost(n, m) ==
  IF n = m THEN 0 ELSE IF {n, m} = {1, 3} THEN 5 ELSE IF {n, m} = {1, 2} THEN 1 ELSE 2

MCLinkCost == [n \in MCNodes |-> [m \in MCNodes |-> MCCost(n, m)]]

MCShortest == [n \in MCNodes |-> [m \in MCNodes |->
                 IF {n, m} = {1, 3} THEN 3 ELSE MCCost(n, m)]]

MCFlows == {<<1, 3>>}

(* Bound on the states explored: a packet travels, which changes no table,  *)
(* only while no update is on its way.                                      *)
Bounds ==
  pkt # None => \A n, m \in Nodes : snapshot[n] = None /\ link[n][m] = <<>>
=============================================================================
