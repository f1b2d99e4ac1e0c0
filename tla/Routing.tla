------------------------------- MODULE Routing -------------------------------
(***************************************************************************)
(* The SNP process of every node (network/network.c) with its three tables *)
(* (nbrcosttable.c, dvtable.c, routingtable.c): distance-vector routing    *)
(* over the links of topology.dat, and the forwarding of SNP packets by    *)
(* the routing table, while the tables change.                             *)
(*                                                                         *)
(* The threads of a node: pkthandler, which alone writes the tables;       *)
(* routeupdate_daemon, which reads the distance vector without the mutex;  *)
(* waitTransport, which looks up the routing table for the local SRT.      *)
(* The overlay (overlay/overlay.c) is the TCP link from each node to each  *)
(* neighbour: it keeps the order and hands packets to an SNP process only  *)
(* while that one is connected.                                            *)
(***************************************************************************)
EXTENDS Naturals, SequencesExt

CONSTANTS
  Nodes,              \* node IDs
  LinkCost,           \* cost of the direct link, INFINITE_COST without one
  INFINITE_COST,      \* 999
  Shortest,           \* reference: cost of the shortest path
  None,               \* no next hop (-1), no packet, no neighbour
  MaxQueue,           \* bound: updates queued when the daemon reads again
  Flows,              \* bound: who sends SNP packets to whom
  MayStop             \* bound: nodes whose SNP process may stop

VARIABLES
  phase,              \* of the SNP process: "starting", "up" or "stopped"
  dv,                 \* dv[n][d]: n's own distance vector
  row,                \* row[n][m]: the distance vector of neighbour m at n
  nextHop,            \* nextHop[n][d]: n's routing table
  relaxing,           \* the neighbour whose update n's pkthandler works in
  pending,            \* the destination whose new hop n has not set yet
  snapshot,           \* what n's routeupdate_daemon has read to send
  link,               \* link[m][n]: route updates on their way from m to n
  pkt                 \* an SNP packet on its way

vars == <<phase, dv, row, nextHop, relaxing, pending, snapshot, link, pkt>>

ASSUME RoutingAssumption ==
  /\ INFINITE_COST \in Nat
  /\ LinkCost \in [Nodes -> [Nodes -> 0 .. INFINITE_COST]]
  /\ \A n \in Nodes : LinkCost[n][n] = 0
  /\ \A n, m \in Nodes : n # m => LinkCost[n][m] > 0
  /\ \A n, m \in Nodes : LinkCost[n][m] = LinkCost[m][n]
  /\ None \notin Nodes
  /\ Shortest \in [Nodes -> [Nodes -> 0 .. INFINITE_COST]]
  /\ \A n \in Nodes : Shortest[n][n] = 0
  /\ \A n, m, d \in Nodes : Shortest[n][d] <= LinkCost[n][m] + Shortest[m][d]
  /\ \A n, d \in Nodes : n # d =>
       \/ Shortest[n][d] = INFINITE_COST
       \/ \E m \in Nodes \ {n} :
            Shortest[n][d] = LinkCost[n][m] + Shortest[m][d]
  /\ Flows \subseteq Nodes \X Nodes
  /\ MaxQueue \in Nat /\ MayStop \subseteq Nodes

Vectors == [Nodes -> 0 .. INFINITE_COST]

Nbrs(n) == {m \in Nodes \ {n} : LinkCost[n][m] < INFINITE_COST}

----------------------------------------------------------------------------
(* mutant of RowOf: the row starts with the neighbour's own links *)
RowOfLinks(m) == [d \in Nodes |-> LinkCost[m][d]]

(* dvtable_create: what a neighbour will tell is not known yet. *)
RowOf(m) == [d \in Nodes |-> INFINITE_COST]

Init ==
  /\ phase = [n \in Nodes |-> "starting"]
  /\ dv = [n \in Nodes |-> [d \in Nodes |-> LinkCost[n][d]]]
  /\ row = [n \in Nodes |-> [m \in Nodes |-> RowOf(m)]]
  /\ nextHop = [n \in Nodes |-> [d \in Nodes |->
                  IF d \in Nbrs(n) THEN d ELSE None]]
  /\ relaxing = [n \in Nodes |-> None]
  /\ pending = [n \in Nodes |-> None]
  /\ snapshot = [n \in Nodes |-> None]
  /\ link = [m \in Nodes |-> [n \in Nodes |-> <<>>]]
  /\ pkt = None

(* The local ON process accepts the connection: from now on it hands over   *)
(* what the neighbours send.                                                *)
Start(n) ==
  /\ phase[n] = "starting"
  /\ phase' = [phase EXCEPT ![n] = "up"]
  /\ UNCHANGED <<dv, row, nextHop, relaxing, pending, snapshot, link, pkt>>

(* SIGINT: the process is gone, wherever its threads are; its ON neither    *)
(* takes another one nor tells the neighbours, and no table ever forgets a  *)
(* route through it.                                                        *)
Stop(n) ==
  /\ phase[n] = "up" /\ n \in MayStop
  /\ phase' = [phase EXCEPT ![n] = "stopped"]
  /\ snapshot' = [snapshot EXCEPT ![n] = None]
  /\ UNCHANGED <<dv, row, nextHop, relaxing, pending, link, pkt>>

----------------------------------------------------------------------------
(* A broadcast of n reaches the link to each neighbour.  An update equal to *)
(* the one in front of it changes nothing at the receiver: it is left out,  *)
(* so that the periodic updates do not fill the link.                       *)
Broadcast(n, v) ==
  link' = [link EXCEPT ![n] = [m \in Nodes |->
             IF m \in Nbrs(n) /\ (link[n][m] = <<>> \/ Last(link[n][m]) # v)
               THEN Append(link[n][m], v) ELSE link[n][m]]]

(* routeupdate_daemon starts to read the vector, entry by entry and without *)
(* the mutex.                                                               *)
DaemonRead(n) ==
  /\ phase[n] = "up" /\ snapshot[n] = None
  /\ \A m \in Nbrs(n) : Len(link[n][m]) <= MaxQueue
  /\ snapshot' = [snapshot EXCEPT ![n] = dv[n]]
  /\ UNCHANGED <<phase, dv, row, nextHop, relaxing, pending, link, pkt>>

(* It sends what it has read: each entry as it was when the reading began   *)
(* or as pkthandler has made it since.                                      *)
DaemonSend(n) ==
  /\ phase[n] = "up" /\ snapshot[n] # None
  /\ \E late \in SUBSET {d \in Nodes : dv[n][d] # snapshot[n][d]} :
       Broadcast(n, [d \in Nodes |->
                       IF d \in late THEN dv[n][d] ELSE snapshot[n][d]])
  /\ snapshot' = [snapshot EXCEPT ![n] = None]
  /\ UNCHANGED <<phase, dv, row, nextHop, relaxing, pending, pkt>>

----------------------------------------------------------------------------
(* pkthandler *)

(* mutant of CostThrough: the cost of the link is forgotten *)
CostThroughFree(n, m, v, d) == v[d]

CostThrough(n, m, v, d) == LinkCost[n][m] + v[d]

(* mutant of Shorter: the latest offer is taken, shorter or longer *)
ShorterOrLonger(n, m, v) == {d \in Nodes : CostThrough(n, m, v, d) # dv[n][d]}

(* The destinations to which m with vector v offers n a shorter way. *)
Shorter(n, m, v) == {d \in Nodes : CostThrough(n, m, v, d) < dv[n][d]}

(* A route update of the neighbour m: its row is overwritten, and if that   *)
(* changed anything n's own vector is looked at again.                      *)
Receive(n, m) ==
  /\ phase[n] = "up" /\ relaxing[n] = None
  /\ link[m][n] # <<>>
  /\ LET v == Head(link[m][n])
     IN  /\ row' = [row EXCEPT ![n][m] = v]
         /\ relaxing' = [relaxing EXCEPT ![n] =
              IF v # row[n][m] /\ Shorter(n, m, v) # {} THEN m ELSE None]
  /\ link' = [link EXCEPT ![m][n] = Tail(@)]
  /\ UNCHANGED <<phase, dv, nextHop, pending, snapshot, pkt>>

(* A destination with a shorter way (the code looks at one after the other, *)
(* here the order is any): first the vector changes.  Neither the daemon    *)
(* nor waitTransport takes the mutexes that pkthandler holds meanwhile.     *)
RelaxCost(n, d) ==
  /\ phase[n] = "up" /\ relaxing[n] # None /\ pending[n] = None
  /\ d \in Shorter(n, relaxing[n], row[n][relaxing[n]])
  /\ dv' = [dv EXCEPT ![n][d] =
              CostThrough(n, relaxing[n], row[n][relaxing[n]], d)]
  /\ pending' = [pending EXCEPT ![n] = d]
  /\ UNCHANGED <<phase, row, nextHop, relaxing, snapshot, link, pkt>>

(* Then the routing table, and the vector is broadcast, once per            *)
(* destination.                                                             *)
RelaxHop(n) ==
  /\ phase[n] = "up" /\ relaxing[n] # None /\ pending[n] # None
  /\ nextHop' = [nextHop EXCEPT ![n][pending[n]] = relaxing[n]]
  /\ pending' = [pending EXCEPT ![n] = None]
  /\ relaxing' = [relaxing EXCEPT ![n] =
       IF Shorter(n, relaxing[n], row[n][relaxing[n]]) = {} THEN None ELSE @]
  /\ Broadcast(n, dv[n])
  /\ UNCHANGED <<phase, dv, row, snapshot, pkt>>

(* A route update for an SNP process that is not connected is dropped.      *)
DropUpdate(n, m) ==
  /\ phase[n] # "up" /\ link[m][n] # <<>>
  /\ link' = [link EXCEPT ![m][n] = Tail(@)]
  /\ UNCHANGED <<phase, dv, row, nextHop, relaxing, pending, snapshot, pkt>>

----------------------------------------------------------------------------
(* SNP packets.  "cost" is what the node that sent the packet on took its   *)
(* distance from the destination to be at that moment; None if its vector   *)
(* had changed and its routing table had not.                               *)

SendOn(n, d) ==
  pkt' = [to |-> nextHop[n][d], dest |-> d,
          cost |-> IF pending[n] = d THEN None ELSE dv[n][d]]

(* waitTransport: a segment of the local SRT.  A destination without an     *)
(* entry gives next hop -1, to which the ON sends nothing.                  *)
SendPacket(n, d) ==
  /\ phase[n] = "up" /\ pkt = None
  /\ <<n, d>> \in Flows
  /\ nextHop[n][d] # None
  /\ SendOn(n, d)
  /\ UNCHANGED <<phase, dv, row, nextHop, relaxing, pending, snapshot, link>>

(* pkthandler: a packet for another node goes to the next hop. *)
Forward(n) ==
  /\ phase[n] = "up" /\ relaxing[n] = None
  /\ pkt # None /\ pkt.to = n /\ pkt.dest # n
  /\ IF nextHop[n][pkt.dest] # None THEN SendOn(n, pkt.dest) ELSE pkt' = None
  /\ UNCHANGED <<phase, dv, row, nextHop, relaxing, pending, snapshot, link>>

(* A packet for this node goes to the local SRT; one for an SNP process     *)
(* that is not connected is dropped.                                        *)
TakePacket(n) ==
  /\ pkt # None /\ pkt.to = n
  /\ phase[n] # "up" \/ (pkt.dest = n /\ relaxing[n] = None)
  /\ pkt' = None
  /\ UNCHANGED <<phase, dv, row, nextHop, relaxing, pending, snapshot, link>>

----------------------------------------------------------------------------
Next ==
  \E n \in Nodes :
    \/ Start(n) \/ Stop(n)
    \/ DaemonRead(n) \/ DaemonSend(n)
    \/ RelaxHop(n) \/ Forward(n) \/ TakePacket(n)
    \/ \E m \in Nodes :
         \/ Receive(n, m) \/ DropUpdate(n, m)
         \/ RelaxCost(n, m) \/ SendPacket(n, m)

Spec == Init /\ [][Next]_vars

(* Every process is started and its threads run; the daemon sends again and *)
(* again (it sleeps ROUTEUPDATE_INTERVAL in between).                       *)
Fairness ==
  \A n \in Nodes :
    /\ WF_vars(Start(n))
    /\ WF_vars(DaemonRead(n)) /\ WF_vars(DaemonSend(n))
    /\ WF_vars(RelaxHop(n) \/ \E d \in Nodes : RelaxCost(n, d))
    /\ \A m \in Nodes : WF_vars(Receive(n, m))

FairSpec == Spec /\ Fairness

----------------------------------------------------------------------------
Packets == [to : Nodes, dest : Nodes, cost : 0 .. INFINITE_COST \cup {None}]

(* Every variable has a value the code can give it. *)
TypeOK ==
  /\ phase \in [Nodes -> {"starting", "up", "stopped"}]
  /\ dv \in [Nodes -> Vectors]
  /\ row \in [Nodes -> [Nodes -> Vectors]]
  /\ nextHop \in [Nodes -> [Nodes -> Nodes \cup {None}]]
  /\ relaxing \in [Nodes -> Nodes \cup {None}]
  /\ pending \in [Nodes -> Nodes \cup {None}]
  /\ snapshot \in [Nodes -> Vectors \cup {None}]
  /\ link \in [Nodes -> [Nodes -> Seq(Vectors)]]
  /\ pkt \in Packets \cup {None}

(* The next hop is closer to the destination than the node itself, by the   *)
(* cost of the link at least, although the two vectors are changed by two   *)
(* processes and what one knows of the other is out of date; only between   *)
(* the two assignments of pkthandler it need not be.                        *)
NextHopCloser ==
  \A n, d \in Nodes :
    nextHop[n][d] # None /\ pending[n] # d =>
      dv[nextHop[n][d]][d] + LinkCost[n][nextHop[n][d]] <= dv[n][d]

(* The routing tables never make a loop, except through a node that is      *)
(* changing its route just then: out of any other set of nodes that does    *)
(* not hold the destination, the table of some node leads out.              *)
LoopFree ==
  \A d \in Nodes : \A S \in SUBSET {n \in Nodes \ {d} : pending[n] # d} :
    S # {} => \E n \in S : nextHop[n][d] \notin S

(* A packet gets closer with every hop, whatever the tables do while it     *)
(* travels: the node it goes to is closer to the destination than the one   *)
(* it left was when it left.  So it makes finitely many hops: only its      *)
(* first one, by waitTransport, may be made while the route changes.        *)
PacketCloser ==
  pkt # None /\ pkt.cost # None => dv[pkt.to][pkt.dest] < pkt.cost

(* No vector promises less than the shortest path costs, wherever it is:    *)
(* in a table, in a row or on a link.                                       *)
NeverTooShort ==
  \A n, d \in Nodes :
    /\ Shortest[n][d] <= dv[n][d]
    /\ \A m \in Nodes : Shortest[m][d] <= row[n][m][d]
    /\ \A m \in Nodes : \A i \in DOMAIN link[n][m] :
         Shortest[n][d] <= link[n][m][i][d]

(* Vectors only decrease, so that whatever is known of m's vector is never  *)
(* below it; with this the properties above are inductive.                  *)
KnownAbove ==
  \A m, d \in Nodes :
    /\ snapshot[m] # None => dv[m][d] <= snapshot[m][d]
    /\ \A n \in Nodes : dv[m][d] <= row[n][m][d]
    /\ \A n \in Nodes : \A i \in DOMAIN link[m][n] :
         dv[m][d] <= link[m][n][i][d]

(* What pkthandler has put into the vector is what the neighbour offered.   *)
PendingOffer ==
  \A n \in Nodes :
    /\ relaxing[n] # n
    /\ pending[n] # None =>
         /\ relaxing[n] # None
         /\ dv[n][pending[n]] = CostThrough(n, relaxing[n],
                                   row[n][relaxing[n]], pending[n])

(* No route of a node leads to itself. *)
HopElsewhere == \A n, d \in Nodes : nextHop[n][d] # n

(* No node's own vector promises too little. *)
AboveShortest == \A n, d \in Nodes : Shortest[n][d] <= dv[n][d]

RoutingInv ==
  /\ TypeOK /\ KnownAbove /\ HopElsewhere /\ AboveShortest
  /\ PendingOffer /\ NextHopCloser /\ PacketCloser

(* All tables become those of the shortest paths and stay so, although the  *)
(* updates sent before a neighbour has started are lost and a stale vector  *)
(* may overtake a newer one on its way out of the process.                  *)
Converged ==
  \A n, d \in Nodes :
    /\ dv[n][d] = Shortest[n][d]
    /\ n # d /\ Shortest[n][d] < INFINITE_COST =>
         /\ nextHop[n][d] # None
         /\ LinkCost[n][nextHop[n][d]] + Shortest[nextHop[n][d]][d]
              = Shortest[n][d]

Converges ==
  <>[]((\A n \in Nodes : phase[n] # "stopped") => Converged)
=============================================================================
