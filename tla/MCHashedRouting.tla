-------------------------- MODULE MCHashedRouting --------------------------
(***************************************************************************)
(* HashedRouting for TLC: four nodes in a line whose direct link 2-4 is    *)
(* longer than the way through 3.  Node 1 learns of node 4 from node 2,    *)
(* its only neighbour, and node 2 changes its route to 4 afterwards: in    *)
(* the middle of the way of a packet, and while what node 1 knows is old.  *)
(* With two slots, the table of node 4 appends an entry for 1 to the chain *)
(* of the neighbour 3 and changes it later.                                *)
(***************************************************************************)
EXTENDS HashedRouting, FiniteSetsExt

MCNodes == 1 .. 4

MCFile == << [h1 |-> 1, h2 |-> 2, num |-> 1],
             [h1 |-> 2, h2 |-> 4, num |-> 5],
             [h1 |-> 2, h2 |-> 3, num |-> 1],
             [h1 |-> 3, h2 |-> 4, num |-> 1] >>

MCLinkCost == [n \in MCNodes |-> [m \in MCNodes |->
                 IF n = m THEN 0
                 ELSE IF {n, m} = {2, 4} THEN 5
                 ELSE IF {n, m} \in {{1, 2}, {2, 3}, {3, 4}} THEN 1
                 ELSE 9]]

MCShortest == [n \in MCNodes |-> [m \in MCNodes |->
                 IF n > m THEN n - m ELSE m - n]]

MCFlows == {<<1, 4>>, <<2, 4>>}

(* Reference: the neighbours listed are the nodes at a finite cost, each    *)
(* once, in the order of the lines, and the cost table holds the same costs.*)
ASSUME NbrsOfFile ==
  /\ Nodes = topology_getNodeArray(File)
  /\ topology_getNbrArray(File, 2) = <<1, 4, 3>>
  /\ \A n \in Nodes : topology_getNbrNum(File, n) = Cardinality(Nbrs(n))
  /\ \A n, m \in Nodes : n # m =>
       nbrcosttable_getcost(File, n, m) = LinkCost[n][m]

----------------------------------------------------------------------------
Queued == FoldSet(LAMBDA l, sum : sum + Len(link[l[1]][l[2]]), 0, Nodes \X Nodes)

Readers == {n \in Nodes : snapshot[n] # None}

Some(present) == IF present THEN 1 ELSE 0

(* Bounds on the states explored: the nodes start one after the other and   *)
(* before the first periodic update, the end of the line sends none of its  *)
(* own accord, and three things at most are on their way: updates queued or *)
(* being read, and the packet; one once a node has stopped.                 *)
Bounds ==
  /\ \A n, m \in Nodes : phase[n] = "starting" /\ n < m => phase[m] = "starting"
  /\ (\E n \in Nodes : phase[n] = "starting") => Readers = {}
  /\ snapshot[1] = None
  /\ Queued + Cardinality(Readers) + Some(pkt # None)
       + 2 * Some(\E n \in Nodes : phase[n] = "stopped") <= 3
=============================================================================
