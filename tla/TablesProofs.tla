---------------------------- MODULE TablesProofs ----------------------------
(***************************************************************************)
(* The routing table, for every number of slots and every file: what is    *)
(* looked up is what was last set, in the table of a node as in its        *)
(* function nextHop.                                                       *)
(***************************************************************************)
EXTENDS HashedRouting, RoutingProofs, PickingProofs

----------------------------------------------------------------------------
(* Look-ups *)

Dests == Nat
Hops == Nat \cup {NoRoute}

(* The entry found is the first of the destination.                         *)
LEMMA EntryFound ==
  ASSUME NEW chain \in Seq(Entries(Dests, Hops)), NEW d, Has(chain, d)
  PROVE  /\ EntryOf(chain, d) \in DOMAIN chain
         /\ chain[EntryOf(chain, d)].destNodeID = d
         /\ \A j \in DOMAIN chain :
              chain[j].destNodeID = d => EntryOf(chain, d) <= j
<1> DEFINE T == {i \in DOMAIN chain : chain[i].destNodeID = d}
<1>1. T \in SUBSET Nat /\ T # {}
  BY DEF Has
<1>2. \E x \in T : \A y \in T : x <= y
  BY <1>1, LeastNumber
<1> QED
  BY <1>2 DEF EntryOf

LEMMA EntryIs ==
  ASSUME NEW chain \in Seq(Entries(Dests, Hops)), NEW d,
         NEW e \in DOMAIN chain, chain[e].destNodeID = d,
         \A j \in DOMAIN chain : chain[j].destNodeID = d => e <= j
  PROVE  Has(chain, d) /\ EntryOf(chain, d) = e
<1>1. Has(chain, d)
  BY DEF Has
<1>2. /\ EntryOf(chain, d) \in DOMAIN chain
      /\ EntryOf(chain, d) <= e /\ e <= EntryOf(chain, d)
  BY <1>1, EntryFound
<1>3. e \in Nat /\ EntryOf(chain, d) \in Nat
  BY <1>2
<1> QED
  BY <1>1, <1>2, <1>3

(* The hash of a node ID is a slot. *)
LEMMA HashIsSlot == \A d \in Nat : makehash(d) \in Slots
  BY SlotsAssumption DEF makehash, Slots

(* What is looked up when the first entry of the destination is known.      *)
LEMMA LookupIs ==
  ASSUME NEW t \in Tables(Dests, Hops), NEW d \in Nat,
         NEW e \in DOMAIN t[makehash(d)], t[makehash(d)][e].destNodeID = d,
         \A j \in DOMAIN t[makehash(d)] :
           t[makehash(d)][j].destNodeID = d => e <= j
  PROVE  routingtable_getnextnode(t, d) = t[makehash(d)][e].nextNodeID
<1>1. t[makehash(d)] \in Seq(Entries(Dests, Hops))
  BY HashIsSlot DEF Tables
<1>2. PICK chain \in Seq(Entries(Dests, Hops)) : chain = t[makehash(d)]
  BY <1>1
<1>3. Has(chain, d) /\ EntryOf(chain, d) = e
  BY <1>2, EntryIs
<1> QED
  BY <1>2, <1>3 DEF routingtable_getnextnode

(* What routingtable_setnextnode makes of a chain. *)
ChainSet(chain, dest, next) ==
  IF Has(chain, dest)
    THEN [chain EXCEPT ![EntryOf(chain, dest)] =
            [destNodeID |-> dest, nextNodeID |-> next]]
    ELSE Append(chain, [destNodeID |-> dest, nextNodeID |-> next])

(* chain2 is a chain that differs from the chain only in that it leads to   *)
(* next for dest.                                                           *)
LeadsTo(chain2, chain, dest, next) ==
  /\ chain2 \in Seq(Entries(Dests, Hops))
  /\ \E e \in DOMAIN chain2 :
       /\ chain2[e] = [destNodeID |-> dest, nextNodeID |-> next]
       /\ \A j \in DOMAIN chain2 : chain2[j].destNodeID = dest => e <= j
  /\ DOMAIN chain \subseteq DOMAIN chain2
  /\ \A j \in DOMAIN chain2 : chain2[j].destNodeID # dest =>
       j \in DOMAIN chain /\ chain2[j] = chain[j]
  /\ \A j \in DOMAIN chain : chain[j].destNodeID # dest =>
       chain2[j] = chain[j]

(* An entry is changed, or appended: the chain of the destination gives the *)
(* new next hop for it, and what it gave before for all others.             *)
LEMMA ChainAfterSet ==
  ASSUME NEW chain \in Seq(Entries(Dests, Hops)),
         NEW dest \in Nat, NEW next \in Hops
  PROVE  LeadsTo(ChainSet(chain, dest, next), chain, dest, next)
<1> SUFFICES ASSUME NEW chain2, chain2 = ChainSet(chain, dest, next)
             PROVE  LeadsTo(chain2, chain, dest, next)
  OBVIOUS
<1> DEFINE new == [destNodeID |-> dest, nextNodeID |-> next]
<1>1. new \in Entries(Dests, Hops) /\ new.destNodeID = dest
  BY DEF Entries, Dests
<1>2. DOMAIN chain = 1 .. Len(chain) /\ Len(chain) \in Nat
  OBVIOUS
<1>3. CASE Has(chain, dest)
  <2>1. PICK e \in DOMAIN chain :
          /\ e = EntryOf(chain, dest)
          /\ chain[e].destNodeID = dest
          /\ \A j \in DOMAIN chain : chain[j].destNodeID = dest => e <= j
    BY <1>3, EntryFound
  <2>2. chain2 = [chain EXCEPT ![e] = new]
    BY <1>3, <2>1 DEF ChainSet
  <2> HIDE DEF new
  <2>3. chain2 \in Seq(Entries(Dests, Hops))
    BY <1>1, <1>2, <2>2, ExceptSeq
  <2>4. DOMAIN chain2 = DOMAIN chain /\ chain2[e] = new
    BY <2>2
  <2>5. \A j \in DOMAIN chain : j # e => chain2[j] = chain[j]
    BY <2>2
  <2>6. e <= e
    BY <1>2
  <2>7. \A j \in DOMAIN chain : chain2[j].destNodeID = dest => e <= j
    BY <2>1, <2>5, <2>6
  <2> QED
    BY <1>1, <2>1, <2>3, <2>4, <2>5, <2>7 DEF new, LeadsTo
<1>4. CASE ~Has(chain, dest)
  <2>1. chain2 = Append(chain, new)
    BY <1>4 DEF ChainSet
  <2> DEFINE e == Len(chain) + 1
  <2> HIDE DEF new
  <2>2. chain2 \in Seq(Entries(Dests, Hops))
    BY <1>1, <2>1
  <2>3. /\ DOMAIN chain2 = 1 .. Len(chain) + 1 /\ chain2[e] = new
        /\ \A j \in 1 .. Len(chain) : chain2[j] = chain[j]
    BY <1>1, <2>1
  <2>4. \A j \in DOMAIN chain : chain[j].destNodeID # dest
    BY <1>4 DEF Has
  <2>5. e \in DOMAIN chain2 /\ e <= e
    BY <1>2, <2>3
  <2>6. \A j \in DOMAIN chain2 : j \in DOMAIN chain \/ j = e
    BY <1>2, <2>3
  <2>7. DOMAIN chain \subseteq DOMAIN chain2
    BY <1>2, <2>3
  <2>8. \A j \in DOMAIN chain : chain2[j] = chain[j]
    BY <1>2, <2>3
  <2> HIDE DEF e
  <2>9. \A j \in DOMAIN chain2 : chain2[j].destNodeID = dest => e <= j
    BY <2>4, <2>5, <2>6, <2>8
  <2>10. \A j \in DOMAIN chain2 : chain2[j].destNodeID # dest =>
           j \in DOMAIN chain /\ chain2[j] = chain[j]
    BY <1>1, <2>3, <2>6, <2>8
  <2> QED
    BY <2>2, <2>3, <2>5, <2>7, <2>8, <2>9, <2>10 DEF new, LeadsTo
<1> QED
  BY <1>3, <1>4

(* After routingtable_setnextnode the table gives the new next hop for the  *)
(* destination, and for all others what it gave before.                     *)
THEOREM LookupAfterSet ==
  ASSUME NEW t \in Tables(Dests, Hops),
         NEW dest \in Nat, NEW next \in Hops, NEW d \in Nat
  PROVE  /\ routingtable_setnextnode(t, dest, next) \in Tables(Dests, Hops)
         /\ routingtable_getnextnode(
              routingtable_setnextnode(t, dest, next), d)
              = IF d = dest THEN next ELSE routingtable_getnextnode(t, d)
<1> DEFINE h == makehash(dest)
           new == [destNodeID |-> dest, nextNodeID |-> next]
           chain2 == ChainSet(t[h], dest, next)
<1>1. h \in Slots /\ t[h] \in Seq(Entries(Dests, Hops))
  BY HashIsSlot DEF Tables
<1>2. PICK t2 : t2 = routingtable_setnextnode(t, dest, next)
  OBVIOUS
<1>3. t2 = [t EXCEPT ![h] = chain2]
  BY <1>2, <1>1 DEF routingtable_setnextnode, SetByAppending, Tables,
                    ChainSet
<1>4. LeadsTo(chain2, t[h], dest, next)
  BY <1>1, ChainAfterSet
<1> HIDE DEF chain2
<1>5. t2 \in Tables(Dests, Hops) /\ t2[h] = chain2
      /\ \A g \in Slots : g # h => t2[g] = t[g]
  BY <1>1, <1>3, <1>4 DEF Tables, LeadsTo
<1> SUFFICES routingtable_getnextnode(t2, d)
               = IF d = dest THEN next ELSE routingtable_getnextnode(t, d)
  BY <1>2, <1>5
<1>6. CASE d = dest
  <2>1. PICK e \in DOMAIN chain2 :
          /\ chain2[e] = new
          /\ \A j \in DOMAIN chain2 : chain2[j].destNodeID = dest => e <= j
    BY <1>4 DEF LeadsTo
  <2>2. new.destNodeID = dest /\ new.nextNodeID = next
    OBVIOUS
  <2>3. routingtable_getnextnode(t2, dest) = t2[h][e].nextNodeID
    BY <1>5, <2>1, <2>2, LookupIs
  <2> QED
    BY <1>5, <1>6, <2>1, <2>2, <2>3
<1>7. CASE d # dest /\ makehash(d) = h
  <2>1. ASSUME NEW e \in DOMAIN t[h], t[h][e].destNodeID = d,
               \A j \in DOMAIN t[h] : t[h][j].destNodeID = d => e <= j
        PROVE  routingtable_getnextnode(t2, d)
                 = routingtable_getnextnode(t, d)
    <3>1. e \in DOMAIN chain2 /\ chain2[e] = t[h][e]
      BY <1>4, <1>7, <2>1 DEF LeadsTo
    <3>2. \A j \in DOMAIN chain2 : chain2[j].destNodeID = d => e <= j
      BY <1>4, <1>7, <2>1 DEF LeadsTo
    <3>3. routingtable_getnextnode(t2, d) = chain2[e].nextNodeID
      BY <1>5, <1>7, <2>1, <3>1, <3>2, LookupIs
    <3>4. routingtable_getnextnode(t, d) = t[h][e].nextNodeID
      BY <1>7, <2>1, LookupIs
    <3> QED
      BY <3>1, <3>3, <3>4
  <2>2. CASE Has(t[h], d)
    <3>1. PICK c \in Seq(Entries(Dests, Hops)) : c = t[h]
      BY <1>1
    <3>2. PICK e : e = EntryOf(c, d)
      OBVIOUS
    <3>3. /\ e \in DOMAIN c /\ c[e].destNodeID = d
          /\ \A j \in DOMAIN c : c[j].destNodeID = d => e <= j
      BY <2>2, <3>1, <3>2, EntryFound
    <3> QED
      BY <1>7, <2>1, <3>1, <3>3
  <2>3. CASE ~Has(t[h], d)
    <3>1. ~Has(t2[h], d)
      BY <1>4, <1>5, <1>7, <2>3 DEF Has, LeadsTo
    <3>2. routingtable_getnextnode(t2, d) = NoRoute
      BY <1>7, <3>1 DEF routingtable_getnextnode
    <3>3. routingtable_getnextnode(t, d) = NoRoute
      BY <1>7, <2>3 DEF routingtable_getnextnode
    <3> QED
      BY <1>7, <3>2, <3>3
  <2> QED
    BY <1>7, <2>2, <2>3
<1>8. CASE d # dest /\ makehash(d) # h
  <2>1. t2[makehash(d)] = t[makehash(d)]
    BY <1>5, <1>8, HashIsSlot
  <2>2. routingtable_getnextnode(t2, d) = routingtable_getnextnode(t, d)
    BY <2>1 DEF routingtable_getnextnode
  <2> QED
    BY <1>8, <2>2
<1> QED
  BY <1>6, <1>7, <1>8

(* The table that is created gives every neighbour itself, and no way to    *)
(* any other node, in whatever order and however often they are listed.     *)
LEMMA LookupAfterCreate ==
  ASSUME NEW nbrs \in Seq(Nat), NEW d \in Nat
  PROVE  /\ routingtable_create(nbrs) \in Tables(Dests, Hops)
         /\ routingtable_getnextnode(routingtable_create(nbrs), d)
              = IF \E i \in DOMAIN nbrs : nbrs[i] = d THEN d ELSE NoRoute
<1> DEFINE at(h) == {i \in DOMAIN nbrs : makehash(nbrs[i]) = h}
           entry == [i \in DOMAIN nbrs |->
                       [destNodeID |-> nbrs[i], nextNodeID |-> nbrs[i]]]
           t == routingtable_create(nbrs)
<1>1. DOMAIN nbrs = 1 .. Len(nbrs) /\ Len(nbrs) \in Nat
  OBVIOUS
<1>2. ASSUME NEW h \in Slots
      PROVE  /\ DOMAIN t[h] = 1 .. Cardinality(at(h))
             /\ Cardinality(at(h)) \in Nat
             /\ \A k \in DOMAIN t[h] : \E i \in at(h) : t[h][k] = entry[i]
             /\ \A i \in at(h) : \E k \in DOMAIN t[h] : t[h][k] = entry[i]
  <2>1. t[h] = Pick(entry, at(h))
    BY DEF routingtable_create
  <2>2. IsFiniteSet(1 .. Len(nbrs))
    BY <1>1, FS_Interval
  <2>3. at(h) \in SUBSET (1 .. Len(nbrs))
    BY <1>1
  <2>4. at(h) \in SUBSET Nat
    BY <1>1, <2>3
  <2> HIDE DEF at, entry, t
  <2>5. IsFiniteSet(at(h))
    BY <2>2, <2>3, FS_Subset
  <2>6. Cardinality(at(h)) \in Nat
    BY <2>5, FS_CardinalityType
  <2>7. /\ DOMAIN Pick(entry, at(h)) = 1 .. Cardinality(at(h))
        /\ \A k \in DOMAIN Pick(entry, at(h)) :
             \E i \in at(h) : Pick(entry, at(h))[k] = entry[i]
        /\ \A i \in at(h) :
             \E k \in DOMAIN Pick(entry, at(h)) :
               Pick(entry, at(h))[k] = entry[i]
    BY <2>4, <2>5, PickIsThere
  <2> QED
    BY <2>1, <2>6, <2>7
<1>3. \A i \in DOMAIN nbrs :
        /\ entry[i] \in Entries(Dests, Hops)
        /\ entry[i].destNodeID = nbrs[i] /\ entry[i].nextNodeID = nbrs[i]
  BY DEF Entries, Dests, Hops
<1>4. \A h \in Slots : t[h] \in Seq(Entries(Dests, Hops))
  <2> SUFFICES ASSUME NEW h \in Slots
               PROVE  t[h] \in Seq(Entries(Dests, Hops))
    OBVIOUS
  <2>1. t[h] = Pick(entry, at(h))
    BY DEF routingtable_create
  <2>2. t[h] = [k \in DOMAIN t[h] |-> t[h][k]]
    BY <2>1 DEF Pick
  <2>3. \A k \in DOMAIN t[h] : t[h][k] \in Entries(Dests, Hops)
    BY <1>2, <1>3
  <2>4. PICK n \in Nat : DOMAIN t[h] = 1 .. n
    BY <1>2
  <2>5. PICK c : c = t[h]
    OBVIOUS
  <2> HIDE DEF t
  <2>6. c \in [1 .. n -> Entries(Dests, Hops)]
    BY <2>2, <2>3, <2>4, <2>5
  <2>7. c \in Seq(Entries(Dests, Hops))
    BY <2>6
  <2> QED
    BY <2>5, <2>7
<1>5. t \in Tables(Dests, Hops)
  BY <1>4 DEF Tables, routingtable_create
<1>6. makehash(d) \in Slots
  BY HashIsSlot
<1> HIDE DEF entry, t
<1>7. PICK c \in Seq(Entries(Dests, Hops)) : c = t[makehash(d)]
  BY <1>4, <1>6
<1>8. /\ \A k \in DOMAIN c : \E i \in DOMAIN nbrs : c[k] = entry[i]
      /\ \A i \in DOMAIN nbrs :
           nbrs[i] = d => \E k \in DOMAIN c : c[k] = entry[i]
  BY <1>2, <1>6, <1>7
<1>9. \A k \in DOMAIN c : c[k].destNodeID = c[k].nextNodeID
  BY <1>3, <1>8
<1>10. Has(c, d) <=> \E i \in DOMAIN nbrs : nbrs[i] = d
  <2>1. ASSUME NEW k \in DOMAIN c, c[k].destNodeID = d
        PROVE  \E i \in DOMAIN nbrs : nbrs[i] = d
    <3>1. PICK i \in DOMAIN nbrs : c[k] = entry[i]
      BY <1>8
    <3> QED
      BY <1>3, <2>1, <3>1
  <2>2. ASSUME NEW i \in DOMAIN nbrs, nbrs[i] = d
        PROVE  \E k \in DOMAIN c : c[k].destNodeID = d
    <3>1. PICK k \in DOMAIN c : c[k] = entry[i]
      BY <1>8, <2>2
    <3> QED
      BY <1>3, <2>2, <3>1
  <2> QED
    BY <2>1, <2>2 DEF Has
<1>11. CASE Has(c, d)
  <2>1. PICK e \in DOMAIN c : e = EntryOf(c, d) /\ c[e].destNodeID = d
    BY <1>11, EntryFound
  <2>2. c[e].nextNodeID = d
    BY <1>9, <2>1
  <2>3. routingtable_getnextnode(t, d) = d
    BY <1>7, <1>11, <2>1, <2>2 DEF routingtable_getnextnode
  <2> QED
    BY <1>5, <1>10, <1>11, <2>3 DEF t
<1>12. CASE ~Has(c, d)
  <2>1. routingtable_getnextnode(t, d) = NoRoute
    BY <1>7, <1>12 DEF routingtable_getnextnode
  <2> QED
    BY <1>5, <1>10, <1>12, <2>1 DEF t
<1> QED
  BY <1>11, <1>12

----------------------------------------------------------------------------
(* The tables of the nodes *)

(* The neighbours that are listed are those of the link costs.              *)
LEMMA NbrsFromFile ==
  ASSUME NEW n \in Nodes
  PROVE  /\ topology_getNbrArray(File, n) \in Seq(Nat)
         /\ \A d \in Nodes :
              (\E k \in DOMAIN topology_getNbrArray(File, n) :
                 topology_getNbrArray(File, n)[k] = d) <=> d \in Nbrs(n)
<1> DEFINE nbrs == topology_getNbrArray(File, n)
           I == LinesOf(File, n)
           ends == [i \in DOMAIN File |-> OtherEnd(File[i], n)]
<1>1. /\ DOMAIN File = 1 .. Len(File) /\ Len(File) \in Nat
      /\ \A i \in DOMAIN File :
           /\ File[i].h1 \in Nodes /\ File[i].h2 \in Nodes
           /\ File[i].num \in Nat
  <2> DEFINE R == [h1 : Nodes, h2 : Nodes, num : Nat]
  <2>1. File \in Seq(R)
    BY FileAssumption DEF Lines
  <2>2. \A r \in R : r.h1 \in Nodes /\ r.h2 \in Nodes /\ r.num \in Nat
    OBVIOUS
  <2> HIDE DEF R
  <2>3. /\ DOMAIN File = 1 .. Len(File) /\ Len(File) \in Nat
        /\ \A i \in DOMAIN File : File[i] \in R
    BY <2>1
  <2> QED
    BY <2>2, <2>3
<1>2. \A i \in DOMAIN File :
        File[i].h1 # File[i].h2 /\ File[i].num < INFINITE_COST
  BY FileAssumption DEF WellFormed
<1>3. I \in SUBSET (1 .. Len(File))
  BY <1>1 DEF LinesOf
<1>4. I \in SUBSET Nat /\ IsFiniteSet(I)
  <2>1. PICK m \in Nat : m = Len(File)
    BY <1>1
  <2>2. IsFiniteSet(1 .. m)
    BY FS_Interval
  <2> HIDE DEF I
  <2>3. I \in SUBSET (1 .. m)
    BY <1>3, <2>1
  <2>4. IsFiniteSet(I)
    BY <2>2, <2>3, FS_Subset
  <2>5. I \in SUBSET Nat
    BY <2>3
  <2> QED
    BY <2>4, <2>5
<1>5. /\ DOMAIN nbrs = 1 .. Cardinality(I) /\ Cardinality(I) \in Nat
      /\ \A k \in DOMAIN nbrs : \E i \in I : nbrs[k] = ends[i]
      /\ \A i \in I : \E k \in DOMAIN nbrs : nbrs[k] = ends[i]
  <2>1. nbrs = Pick(ends, I)
    BY DEF topology_getNbrArray
  <2> HIDE DEF nbrs, I, ends
  <2>2. Cardinality(I) \in Nat
    BY <1>4, FS_CardinalityType
  <2>3. /\ DOMAIN Pick(ends, I) = 1 .. Cardinality(I)
        /\ \A k \in DOMAIN Pick(ends, I) :
             \E i \in I : Pick(ends, I)[k] = ends[i]
        /\ \A i \in I :
             \E k \in DOMAIN Pick(ends, I) : Pick(ends, I)[k] = ends[i]
    BY <1>4, PickIsThere
  <2> QED
    BY <2>1, <2>2, <2>3
<1>6. \A i \in I : i \in DOMAIN File /\ ends[i] \in Nodes
  BY <1>1 DEF LinesOf, OtherEnd
<1>7. nbrs \in Seq(Nat)
  <2>1. nbrs = [k \in DOMAIN nbrs |-> nbrs[k]]
    BY DEF topology_getNbrArray, Pick
  <2>2. \A k \in DOMAIN nbrs : nbrs[k] \in Nat
    BY <1>5, <1>6, FileAssumption
  <2>3. PICK c : c = nbrs
    OBVIOUS
  <2>4. PICK m \in Nat : DOMAIN nbrs = 1 .. m
    BY <1>5
  <2> HIDE DEF nbrs
  <2>5. c \in [1 .. m -> Nat]
    BY <2>1, <2>2, <2>3, <2>4
  <2>6. c \in Seq(Nat)
    BY <2>5
  <2> QED
    BY <2>3, <2>6
<1>8. ASSUME NEW i \in I
      PROVE  ends[i] # n /\ Joins(File[i], n, ends[i])
  BY <1>1, <1>2 DEF LinesOf, Touches, OtherEnd, Joins
<1>9. ASSUME NEW d \in Nodes, d # n, NEW i \in DOMAIN File,
             Joins(File[i], n, d)
      PROVE  i \in I /\ ends[i] = d
  BY <1>1, <1>2, <1>9 DEF LinesOf, Touches, OtherEnd, Joins
<1>10. ASSUME NEW d \in Nodes, d # n
       PROVE  LinkCost[n][d] < INFINITE_COST
                <=> \E i \in DOMAIN File : Joins(File[i], n, d)
  <2> DEFINE J == {i \in DOMAIN File : Joins(File[i], n, d)}
  <2>1. LinkCost[n][d] = topology_getCost(File, n, d)
    BY FileAssumption
  <2>2. CASE J # {}
    <3>1. J \in SUBSET Nat
      BY <1>1
    <3>2. \E x \in J : \A y \in J : x <= y
      BY <2>2, <3>1, LeastNumber
    <3>3. FirstJoining(File, n, d) \in DOMAIN File
      BY <3>2 DEF FirstJoining
    <3>4. LinkCost[n][d] = File[FirstJoining(File, n, d)].num
      BY <1>10, <2>1, <2>2 DEF topology_getCost
    <3> QED
      BY <1>2, <2>2, <3>3, <3>4
  <2>3. CASE J = {}
    <3>1. LinkCost[n][d] = INFINITE_COST
      BY <1>10, <2>1, <2>3 DEF topology_getCost
    <3> QED
      BY <2>3, <3>1, RoutingAssumption
  <2> QED
    BY <2>2, <2>3
<1>11. ASSUME NEW d \in Nodes
       PROVE  (\E k \in DOMAIN nbrs : nbrs[k] = d) <=> d \in Nbrs(n)
  <2>1. ASSUME NEW k \in DOMAIN nbrs, nbrs[k] = d
        PROVE  d # n /\ \E i \in DOMAIN File : Joins(File[i], n, d)
    <3>1. PICK i \in I : d = ends[i]
      BY <1>5, <2>1
    <3> HIDE DEF I, ends
    <3> QED
      BY <1>6, <1>8, <3>1
  <2>2. ASSUME d # n, NEW i \in DOMAIN File, Joins(File[i], n, d)
        PROVE  \E k \in DOMAIN nbrs : nbrs[k] = d
    <3>1. i \in I /\ ends[i] = d
      BY <1>9, <2>2
    <3> HIDE DEF I, ends, nbrs
    <3> QED
      BY <1>5, <3>1
  <2>3. d \in Nbrs(n) <=> d # n /\ LinkCost[n][d] < INFINITE_COST
    BY DEF Nbrs
  <2> HIDE DEF nbrs
  <2> QED
    BY <1>10, <2>1, <2>2, <2>3
<1> HIDE DEF nbrs
<1> QED
  BY <1>7, <1>11 DEF nbrs

(* The only step that changes a route of n is the one that SetsHop tells.   *)
LEMMA RouteChanges ==
  ASSUME RoutingInv, Next, NEW n \in Nodes
  PROVE  \/ /\ SetsHop(n)
            /\ pending[n] \in Nodes /\ relaxing[n] \in Nodes
            /\ nextHop'[n] = [nextHop[n] EXCEPT ![pending[n]] = relaxing[n]]
         \/ ~SetsHop(n) /\ nextHop'[n] = nextHop[n]
<1>1. /\ nextHop \in [Nodes -> [Nodes -> Nodes \cup {None}]]
      /\ pending \in [Nodes -> Nodes \cup {None}]
      /\ relaxing \in [Nodes -> Nodes \cup {None}]
  BY DEF RoutingInv, TypeOK
<1>2. CASE UNCHANGED <<nextHop, pending>>
  BY <1>2 DEF SetsHop
<1>3. ASSUME NEW m \in Nodes, NEW d \in Nodes, RelaxCost(m, d)
      PROVE  ~SetsHop(n) /\ nextHop'[n] = nextHop[n]
  <2>1. /\ nextHop' = nextHop /\ pending[m] = None
        /\ pending' = [pending EXCEPT ![m] = d]
    BY <1>3 DEF RelaxCost
  <2> QED
    BY <1>1, <2>1 DEF SetsHop
<1>4. ASSUME NEW m \in Nodes, RelaxHop(m)
      PROVE  \/ /\ SetsHop(n)
                /\ pending[n] \in Nodes /\ relaxing[n] \in Nodes
                /\ nextHop'[n]
                     = [nextHop[n] EXCEPT ![pending[n]] = relaxing[n]]
             \/ ~SetsHop(n) /\ nextHop'[n] = nextHop[n]
  <2>1. /\ pending[m] # None /\ relaxing[m] # None
        /\ nextHop' = [nextHop EXCEPT ![m][pending[m]] = relaxing[m]]
        /\ pending' = [pending EXCEPT ![m] = None]
    BY <1>4 DEF RelaxHop
  <2>2. CASE m = n
    BY <1>1, <2>1, <2>2 DEF SetsHop
  <2>3. CASE m # n
    BY <1>1, <2>1, <2>3 DEF SetsHop
  <2> QED
    BY <2>2, <2>3
<1>5. \/ UNCHANGED <<nextHop, pending>>
      \/ \E m \in Nodes : RelaxHop(m) \/ \E d \in Nodes : RelaxCost(m, d)
  <2>1. PICK m \in Nodes, d \in Nodes :
          \/ Start(m) \/ Stop(m) \/ DaemonRead(m) \/ DaemonSend(m)
          \/ RelaxHop(m) \/ Forward(m) \/ TakePacket(m)
          \/ Receive(m, d) \/ DropUpdate(m, d)
          \/ RelaxCost(m, d) \/ SendPacket(m, d)
    BY DEF Next
  <2>2. CASE Start(m) \/ Stop(m) \/ DaemonRead(m) \/ DaemonSend(m)
    BY <2>2 DEF Start, Stop, DaemonRead, DaemonSend
  <2>3. CASE \/ Forward(m) \/ TakePacket(m) \/ Receive(m, d)
             \/ DropUpdate(m, d) \/ SendPacket(m, d)
    BY <2>3 DEF Forward, TakePacket, Receive, DropUpdate, SendPacket
  <2> QED
    BY <2>1, <2>2, <2>3
<1> QED
  BY <1>2, <1>3, <1>4, <1>5

(* What the tables are: chains of entries, with the routes of nextHop.      *)
TablesInv ==
  /\ table \in [Nodes -> Tables(Dests, Hops)]
  /\ LookupAgrees

LEMMA TablesInit == HashedInit => TablesInv
<1> SUFFICES ASSUME HashedInit PROVE TablesInv
  OBVIOUS
<1>1. ASSUME NEW n \in Nodes
      PROVE  /\ table[n] \in Tables(Dests, Hops)
             /\ \A d \in Nodes :
                  routingtable_getnextnode(table[n], d) = nextHop[n][d]
  <2>1. table[n] = routingtable_create(topology_getNbrArray(File, n))
    BY DEF HashedInit
  <2>2. PICK nbrs \in Seq(Nat) :
          /\ nbrs = topology_getNbrArray(File, n)
          /\ \A d \in Nodes :
               (\E k \in DOMAIN nbrs : nbrs[k] = d) <=> d \in Nbrs(n)
    BY NbrsFromFile
  <2>3. /\ table[n] \in Tables(Dests, Hops)
        /\ \A d \in Nat : routingtable_getnextnode(table[n], d)
             = IF \E k \in DOMAIN nbrs : nbrs[k] = d THEN d ELSE NoRoute
    BY <2>1, <2>2, LookupAfterCreate
  <2>4. \A d \in Nodes : nextHop[n][d] = IF d \in Nbrs(n) THEN d ELSE None
    BY DEF HashedInit, Init
  <2> QED
    BY <2>2, <2>3, <2>4, FileAssumption
<1>2. table = [n \in Nodes |-> table[n]]
  BY DEF HashedInit
<1> QED
  BY <1>1, <1>2 DEF TablesInv, LookupAgrees

LEMMA TablesNext ==
  ASSUME RoutingInv, TablesInv, HashedNext
  PROVE  TablesInv'
<1>1. ASSUME NEW n \in Nodes
      PROVE  /\ table'[n] \in Tables(Dests, Hops)
             /\ \A d \in Nodes :
                  routingtable_getnextnode(table'[n], d) = nextHop'[n][d]
  <2>1. PICK t \in Tables(Dests, Hops) :
          /\ t = table[n]
          /\ \A d \in Nodes : routingtable_getnextnode(t, d) = nextHop[n][d]
    BY DEF TablesInv, LookupAgrees
  <2>2. CASE SetsHop(n)
    <3>1. PICK dest \in Nodes, next \in Nodes :
            /\ dest = pending[n] /\ next = relaxing[n]
            /\ nextHop'[n] = [nextHop[n] EXCEPT ![dest] = next]
      BY <2>2, RouteChanges DEF HashedNext
    <3>2. table'[n] = routingtable_setnextnode(t, dest, next)
      BY <2>1, <2>2, <3>1 DEF HashedNext
    <3>3. dest \in Nat /\ next \in Hops /\ Nodes \subseteq Nat
      BY FileAssumption DEF Hops
    <3>4. /\ table'[n] \in Tables(Dests, Hops)
          /\ \A d \in Nat : routingtable_getnextnode(table'[n], d)
               = IF d = dest THEN next ELSE routingtable_getnextnode(t, d)
      BY <3>2, <3>3, LookupAfterSet
    <3>5. nextHop[n] \in [Nodes -> Nodes \cup {None}]
      BY DEF RoutingInv, TypeOK
    <3>6. \A d \in Nodes : nextHop'[n][d]
            = IF d = dest THEN next ELSE nextHop[n][d]
      BY <3>1, <3>5
    <3> QED
      BY <2>1, <3>3, <3>4, <3>6
  <2>3. CASE ~SetsHop(n)
    <3>1. nextHop'[n] = nextHop[n]
      BY <2>3, RouteChanges DEF HashedNext
    <3>2. table'[n] = table[n]
      BY <2>3 DEF HashedNext
    <3> QED
      BY <2>1, <3>1, <3>2
  <2> QED
    BY <2>2, <2>3
<1>2. table' = [n \in Nodes |-> table'[n]]
  BY DEF HashedNext
<1>3. table' \in [Nodes -> Tables(Dests, Hops)]
  BY <1>1, <1>2
<1> QED
  BY <1>1, <1>3 DEF TablesInv, LookupAgrees

(* The hash tables of all nodes give at every moment the routes that the    *)
(* other theorems about Routing speak of, for every number of slots and     *)
(* every file that joins no two nodes twice.                                *)
THEOREM TablesAgree == HashedSpec => []LookupAgrees
<1>1. HashedInit => RoutingInv /\ TablesInv
  BY InitInv, TablesInit DEF HashedInit
<1>2. RoutingInv /\ TablesInv /\ [HashedNext]_<<vars, table>>
        => RoutingInv' /\ TablesInv'
  <2> SUFFICES ASSUME RoutingInv, TablesInv, [HashedNext]_<<vars, table>>
               PROVE  RoutingInv' /\ TablesInv'
    OBVIOUS
  <2>1. CASE HashedNext
    BY <2>1, NextInv, TablesNext DEF HashedNext
  <2>2. CASE UNCHANGED <<vars, table>>
    <3>1. RoutingInv'
      BY <2>2, NextInv
    <3>2. TablesInv'
      BY <2>2 DEF TablesInv, LookupAgrees, vars
    <3> QED
      BY <3>1, <3>2
  <2> QED
    BY <2>1, <2>2
<1>3. TablesInv => LookupAgrees
  BY DEF TablesInv
<1> QED
  BY <1>1, <1>2, <1>3, PTL DEF HashedSpec

=============================================================================
