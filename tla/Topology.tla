------------------------------ MODULE Topology ------------------------------
(***************************************************************************)
(* topology/topology.c: what every process of a node reads out of          *)
(* topology.dat, each for itself and again at every call.  The file is     *)
(* here the sequence of its lines with the host names looked up            *)
(* (gethostbyname and the last number of the address, the node ID); a line *)
(* whose look-up fails makes every function return -1 and is left out.     *)
(*                                                                         *)
(* A neighbour may appear on several lines, and a line may join a node     *)
(* with itself: the functions that count do not agree about such a file.   *)
(***************************************************************************)
EXTENDS Picking

CONSTANTS
  INFINITE_COST,      \* 999: no direct link
  MAX_NODE_NUM        \* 10: node IDs the functions have room for

Lines(Hosts) == Seq([h1 : Hosts, h2 : Hosts, num : Nat])

(* A line about the node, the hosts of a line, the one that is not me. *)
Touches(l, me) == l.h1 = me \/ l.h2 = me

HostsOf(file) == {file[i].h1 : i \in DOMAIN file} \cup
                 {file[i].h2 : i \in DOMAIN file}

OtherEnd(l, me) == IF l.h1 = me THEN l.h2 ELSE l.h1

----------------------------------------------------------------------------
LinesOf(file, me) == {i \in DOMAIN file : Touches(file[i], me)}

(* The number of lines about the node, a line with itself counted once. *)
topology_getNbrNum(file, me) == Cardinality(LinesOf(file, me))

(* The neighbours in the order of their lines; getNeighborNames lists them  *)
(* the same way.  (topology_getNbrArray writes two entries for a line of    *)
(* the node with itself, past what topology_getNbrNum has made room for.)   *)
topology_getNbrArray(file, me) ==
  Pick([i \in DOMAIN file |-> OtherEnd(file[i], me)], LinesOf(file, me))

Joins(l, a, b) == {l.h1, l.h2} = {a, b}

(* The loop over the lines returns at the first line that joins the two. *)
FirstJoining(file, a, b) ==
  CHOOSE i \in DOMAIN file :
    /\ Joins(file[i], a, b)
    /\ \A j \in DOMAIN file : Joins(file[j], a, b) => i <= j

topology_getCost(file, a, b) ==
  IF a = b THEN 0
  ELSE IF \E i \in DOMAIN file : Joins(file[i], a, b)
         THEN file[FirstJoining(file, a, b)].num
         ELSE INFINITE_COST

(* The nodes named in the file.  With MAX_NODE_NUM of them the loop that    *)
(* counts runs off the end of its array: fewer is what the program can do.  *)
topology_getNodeArray(file) == HostsOf(file)

topology_getNodeNum(file) == Cardinality(HostsOf(file))

(* nbrcosttable_create and nbrcosttable_getcost: the same cost, asked of a  *)
(* table of the neighbours.                                                 *)
nbrcosttable_getcost(file, me, m) ==
  LET nbr == topology_getNbrArray(file, me)
  IN  IF \E i \in DOMAIN nbr : nbr[i] = m
        THEN topology_getCost(file, me, m) ELSE INFINITE_COST

(* A file the functions agree about: no node is joined with itself, no two  *)
(* nodes twice, no cost of 0 or as large as INFINITE_COST, and room for the *)
(* nodes.  src/topology/topology.dat is one.                                *)
WellFormed(file) ==
  /\ \A i \in DOMAIN file :
       /\ file[i].h1 # file[i].h2
       /\ file[i].num > 0 /\ file[i].num < INFINITE_COST
       /\ \A j \in DOMAIN file :
            Joins(file[j], file[i].h1, file[i].h2) => j = i
  /\ topology_getNodeNum(file) < MAX_NODE_NUM
=============================================================================
