---------------------------- MODULE RoutingTable ----------------------------
(***************************************************************************)
(* network/routingtable.c: the routing table of a node as the hash table   *)
(* it is, MAX_ROUTINGTABLE_SLOTS chains of entries, a destination in the   *)
(* chain of its node ID modulo the slots.                                  *)
(***************************************************************************)
EXTENDS Picking

CONSTANTS
  MAX_ROUTINGTABLE_SLOTS,   \* 10
  NoRoute                   \* -1: no entry for the destination

ASSUME SlotsAssumption == MAX_ROUTINGTABLE_SLOTS \in Nat \ {0}

Slots == 0 .. MAX_ROUTINGTABLE_SLOTS - 1

makehash(node) == node % MAX_ROUTINGTABLE_SLOTS

Entries(Dests, Hops) == [destNodeID : Dests, nextNodeID : Hops]

Tables(Dests, Hops) == [Slots -> Seq(Entries(Dests, Hops))]

----------------------------------------------------------------------------
(* Walking a chain: whether it has an entry for the destination, and the    *)
(* first one it has.                                                        *)
Has(chain, dest) == \E i \in DOMAIN chain : chain[i].destNodeID = dest

EntryOf(chain, dest) ==
  CHOOSE i \in DOMAIN chain :
    /\ chain[i].destNodeID = dest
    /\ \A j \in DOMAIN chain : chain[j].destNodeID = dest => i <= j

(* routingtable_create: an entry for each neighbour, appended to its chain. *)
routingtable_create(nbrs) ==
  [h \in Slots |->
     Pick([i \in DOMAIN nbrs |->
             [destNodeID |-> nbrs[i], nextNodeID |-> nbrs[i]]],
          {i \in DOMAIN nbrs : makehash(nbrs[i]) = h})]

(* mutant of routingtable_setnextnode: a new entry although there is one *)
SetByAppending(t, dest, next) ==
  [t EXCEPT ![makehash(dest)] =
     Append(@, [destNodeID |-> dest, nextNodeID |-> next])]

(* The entry of the destination is changed if there is one, else appended   *)
(* to its chain: here at once, in the code linked first and written after.  *)
routingtable_setnextnode(t, dest, next) ==
  LET h == makehash(dest)
  IN  IF Has(t[h], dest)
        THEN [t EXCEPT ![h] =
                [@ EXCEPT ![EntryOf(t[h], dest)] =
                   [destNodeID |-> dest, nextNodeID |-> next]]]
        ELSE SetByAppending(t, dest, next)

routingtable_getnextnode(t, dest) ==
  LET h == makehash(dest)
  IN  IF Has(t[h], dest) THEN t[h][EntryOf(t[h], dest)].nextNodeID
      ELSE NoRoute
=============================================================================
