---------------------------- MODULE HashedRouting ----------------------------
(***************************************************************************)
(* Routing together with the hash tables its processes really keep: each   *)
(* node's table is made by routingtable_create from the lines of           *)
(* topology.dat and changed by routingtable_setnextnode where pkthandler   *)
(* calls it.  nextHop of Routing is what routingtable_getnextnode reads.   *)
(***************************************************************************)
EXTENDS Routing, RoutingTable

CONSTANTS
  File,                     \* the lines of topology.dat
  MAX_NODE_NUM

VARIABLE table              \* table[n]: n's routingtable_t

INSTANCE Topology

ASSUME FileAssumption ==
  /\ Nodes \subseteq Nat /\ NoRoute = None
  /\ File \in Lines(Nodes) /\ WellFormed(File)
  /\ \A n, m \in Nodes : LinkCost[n][m] = topology_getCost(File, n, m)

HashedInit ==
  /\ Init
  /\ table = [n \in Nodes |-> 
         routingtable_create(topology_getNbrArray(File, n))]

(* pkthandler has just changed the route it was working on. *)
SetsHop(n) == pending[n] # None /\ pending'[n] = None

HashedNext ==
  /\ Next
  /\ table' = [n \in Nodes |->
       IF SetsHop(n)
         THEN routingtable_setnextnode(table[n], pending[n], relaxing[n])
         ELSE table[n]]

HashedSpec == HashedInit /\ [][HashedNext]_<<vars, table>>

HashedFairSpec == HashedSpec /\ Fairness

(* A look-up in the hash table, with destinations that share a slot and     *)
(* entries changed and appended in any order, gives what was last set for   *)
(* just that destination: the table implements the function nextHop.  Every *)
(* look-up of pkthandler, which makes the changes, is between two of them.  *)
(* waitTransport looks up without the mutex (network.c:337) and may meet an *)
(* entry that is linked to its chain and not written yet                    *)
(* (routingtable.c:108-111, 115-118): of that moment nothing is said.       *)
LookupAgrees ==
  \A n, d \in Nodes : routingtable_getnextnode(table[n], d) = nextHop[n][d]
=============================================================================
