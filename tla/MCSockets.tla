----------------------------- MODULE MCSockets -----------------------------
(***************************************************************************)
(* Sockets for TLC.  The clients are alike, and so are the port numbers.   *)
(* After a stray thread nothing is claimed any more, and no such state is  *)
(* followed.                                                               *)
(***************************************************************************)
EXTENDS Sockets, TLC, FiniteSets

Symmetry == Permutations(Clients) \cup Permutations(ClientPorts)

InUse(state) == {k \in DOMAIN state : state[k] # "NULL"}

HaveConnected == {seg.from : seg \in {s \in net : s.type = "SYN"}}

(* Bounds: two clients' sockets are in use at a time, on one node or on     *)
(* two, and one server's.  Where a timer is left over from a failed accept, *)
(* one client's socket is in use at a time, and two have connected in all:  *)
(* enough for the timer to meet the connection of the next.                 *)
Bounds ==
  /\ ~stray
  /\ Cardinality(InUse(cState)) <= 2
  /\ Cardinality(InUse(sState)) <= 1
  /\ late # {} => /\ Cardinality(InUse(cState)) <= 1
                  /\ Cardinality(HaveConnected) <= 2
=============================================================================
