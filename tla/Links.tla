-------------------------------- MODULE Links --------------------------------
(***************************************************************************)
(* What the SNP processes may expect of the overlay: a queue from every    *)
(* node to every neighbour.  It keeps the order and loses packets only     *)
(* while one of the two is not connected to its ON process.  This is what  *)
(* Routing assumes of its variable link.                                   *)
(***************************************************************************)
EXTENDS Naturals, Sequences

CONSTANTS Nodes, Packets

VARIABLES
  path,     \* path[m][n]: packets on their way from m to n
  phase     \* of the SNP process of a node: "starting", "up" or "stopped"

Init ==
  /\ path = [m \in Nodes |-> [n \in Nodes |-> <<>>]]
  /\ phase = [n \in Nodes |-> "starting"]

(* A packet for one neighbour or several. *)
Hand(m) ==
  /\ phase[m] = "up"
  /\ \E p \in Packets, to \in SUBSET Nodes :
       path' = [path EXCEPT ![m] = [n \in Nodes |->
                  IF n \in to THEN Append(path[m][n], p) ELSE path[m][n]]]
  /\ UNCHANGED phase

Take(n) ==
  /\ phase[n] = "up"
  /\ \E m \in Nodes :
       /\ path[m][n] # <<>>
       /\ path' = [path EXCEPT ![m][n] = Tail(@)]
  /\ UNCHANGED phase

(* A process connects, or is gone for good. *)
Change(n) ==
  \/ phase[n] = "starting" /\ phase' = [phase EXCEPT ![n] = "up"]
  \/ phase' = [phase EXCEPT ![n] = "stopped"]

(* s is what is left of t, in its order. *)
IsLeftOf(s, t) ==
  \E kept \in [DOMAIN s -> DOMAIN t] :
    /\ \A i, j \in DOMAIN s : i < j => kept[i] < kept[j]
    /\ \A i \in DOMAIN s : s[i] = t[kept[i]]

(* Packets are lost on some of the ways of which an end is not connected. *)
Lose ==
  \A m, n \in Nodes :
    \/ path'[m][n] = path[m][n]
    \/ /\ phase'[n] # "up" \/ phase'[m] # "up"
       /\ IsLeftOf(path'[m][n], path[m][n])

Next ==
  \/ \E n \in Nodes : Hand(n) \/ Take(n)
  \/ Lose /\ (UNCHANGED phase \/ \E n \in Nodes : Change(n))

Spec == Init /\ [][Next]_<<path, phase>>
=============================================================================
