---------------------------- MODULE RoutingProofs ----------------------------
(***************************************************************************)
(* RoutingInv is an inductive invariant of Routing, for every set of nodes, *)
(* every topology with symmetric positive costs and whichever stop.        *)
(***************************************************************************)
EXTENDS Routing, TLAPS, SequenceTheorems, WellFoundedInduction

(* The entries of a vector are costs. *)
LEMMA VectorNat == \A v \in Vectors : \A d \in Nodes : v[d] \in Nat
  BY RoutingAssumption DEF Vectors

(* What a broadcast of n adds to the links. *)
LEMMA BroadcastAdds ==
  ASSUME link \in [Nodes -> [Nodes -> Seq(Vectors)]],
         NEW n \in Nodes, NEW v \in Vectors, Broadcast(n, v)
  PROVE  /\ link' \in [Nodes -> [Nodes -> Seq(Vectors)]]
         /\ \A m, k \in Nodes : \A i \in DOMAIN link'[m][k] :
              \/ i \in DOMAIN link[m][k] /\ link'[m][k][i] = link[m][k][i]
              \/ m = n /\ link'[m][k][i] = v
<1>1. \A k \in Nodes : /\ link[n][k] \in Seq(Vectors)
                       /\ Append(link[n][k], v) \in Seq(Vectors)
  OBVIOUS
<1>2. link' \in [Nodes -> [Nodes -> Seq(Vectors)]]
  BY <1>1 DEF Broadcast
<1>3. ASSUME NEW m \in Nodes, NEW k \in Nodes, NEW i \in DOMAIN link'[m][k]
      PROVE  \/ i \in DOMAIN link[m][k] /\ link'[m][k][i] = link[m][k][i]
             \/ m = n /\ link'[m][k][i] = v
  <2>1. CASE link'[m][k] = link[m][k]
    BY <2>1, <1>3
  <2>2. CASE m = n /\ link'[m][k] = Append(link[n][k], v)
    <3>1. link[n][k] \in Seq(Vectors)
      BY <1>1, <1>3
    <3>2. i \in 1 .. Len(link[n][k]) + 1
      BY <2>2, <3>1, <1>3
    <3>3. QED
      BY <2>2, <3>1, <3>2
  <2>3. QED
    BY <2>1, <2>2 DEF Broadcast
<1>4. QED
  BY <1>2, <1>3

(* What is left on the links when the first update of one is taken off. *)
LEMMA PopKeeps ==
  ASSUME link \in [Nodes -> [Nodes -> Seq(Vectors)]],
         NEW m \in Nodes, NEW n \in Nodes, link[m][n] # <<>>,
         link' = [link EXCEPT ![m][n] = Tail(@)]
  PROVE  /\ link' \in [Nodes -> [Nodes -> Seq(Vectors)]]
         /\ Head(link[m][n]) \in Vectors
         /\ 1 \in DOMAIN link[m][n] /\ Head(link[m][n]) = link[m][n][1]
         /\ \A a, b \in Nodes : \A i \in DOMAIN link'[a][b] :
              \E j \in DOMAIN link[a][b] : link'[a][b][i] = link[a][b][j]
<1>1. link[m][n] \in Seq(Vectors) /\ Len(link[m][n]) > 0
  OBVIOUS
<1>2. Tail(link[m][n]) \in Seq(Vectors)
  BY <1>1
<1>3. link' \in [Nodes -> [Nodes -> Seq(Vectors)]]
  BY <1>2
<1>4. Head(link[m][n]) = link[m][n][1] /\ 1 \in DOMAIN link[m][n]
  BY <1>1
<1>5. ASSUME NEW a \in Nodes, NEW b \in Nodes, NEW i \in DOMAIN link'[a][b]
      PROVE  \E j \in DOMAIN link[a][b] : link'[a][b][i] = link[a][b][j]
  <2>1. CASE a = m /\ b = n
    <3>1. link'[a][b] = Tail(link[m][n])
      BY <2>1
    <3>2. i \in 1 .. Len(link[m][n]) - 1 /\ link'[a][b][i] = link[m][n][i + 1]
      <4> DEFINE s == link[m][n]
      <4>1. s \in Seq(Vectors) /\ s # <<>>
        BY <1>1
      <4>2. i \in DOMAIN Tail(s)
        BY <3>1, <1>5
      <4> HIDE DEF s
      <4>3. i \in 1 .. Len(s) - 1 /\ Tail(s)[i] = s[i + 1]
        BY <4>1, <4>2
      <4>4. QED
        BY <4>3, <3>1 DEF s
    <3>3. i + 1 \in DOMAIN link[m][n]
      BY <3>2, <1>1, SMTT(40)
    <3>4. \E j \in DOMAIN link[m][n] : link'[a][b][i] = link[m][n][j]
      BY <3>2, <3>3
    <3>5. QED
      BY <3>4, <2>1
  <2>2. CASE ~(a = m /\ b = n)
    BY <2>2, <1>5
  <2>3. QED
    BY <2>1, <2>2
<1>6. QED
  BY <1>1, <1>3, <1>4, <1>5, SMTT(40)

(* The tables a process starts with. *)
LEMMA InitInv == Init => RoutingInv
<1> SUFFICES ASSUME Init PROVE RoutingInv
  OBVIOUS
<1> USE RoutingAssumption
<1>1. \A n \in Nodes : Nbrs(n) \subseteq Nodes \ {n}
  BY DEF Nbrs
<1>2. \A n, d \in Nodes : LinkCost[n][d] \in 0 .. INFINITE_COST
  OBVIOUS
<1>3. TypeOK
  <2>1. dv \in [Nodes -> Vectors]
    BY <1>2 DEF Init, Vectors
  <2>2. row \in [Nodes -> [Nodes -> Vectors]]
    BY DEF Init, Vectors, RowOf
  <2>3. nextHop \in [Nodes -> [Nodes -> Nodes \cup {None}]]
    BY <1>1 DEF Init
  <2>4. link \in [Nodes -> [Nodes -> Seq(Vectors)]]
    BY DEF Init
  <2>5. QED
    BY <2>1, <2>2, <2>3, <2>4 DEF Init, TypeOK
<1>4. KnownAbove
  BY <1>2 DEF Init, KnownAbove, RowOf
<1>5. HopElsewhere
  BY <1>1 DEF Init, HopElsewhere
<1>6. AboveShortest
  <2> SUFFICES ASSUME NEW n \in Nodes, NEW d \in Nodes
               PROVE  Shortest[n][d] <= LinkCost[n][d]
    BY DEF Init, AboveShortest
  <2>1. CASE n = d
    BY <2>1
  <2>2. CASE n # d
    <3>1. Shortest[n][d] <= LinkCost[n][d] + Shortest[d][d]
      BY <2>2
    <3>2. QED
      BY <3>1, <1>2
  <2>3. QED
    BY <2>1, <2>2
<1>7. NextHopCloser
  <2> SUFFICES ASSUME NEW n \in Nodes, NEW d \in Nodes, nextHop[n][d] # None
               PROVE  dv[nextHop[n][d]][d] + LinkCost[n][nextHop[n][d]] <= dv[n][d]
    BY DEF NextHopCloser
  <2>1. nextHop[n][d] = d
    BY DEF Init
  <2>2. dv[d][d] = 0 /\ dv[n][d] = LinkCost[n][d]
    BY DEF Init
  <2>3. QED
    BY <2>1, <2>2, <1>2
<1>8. PacketCloser
  BY DEF Init, PacketCloser
<1>9. PendingOffer
  BY DEF Init, PendingOffer
<1>10. QED
  BY <1>3, <1>4, <1>5, <1>6, <1>7, <1>8, <1>9 DEF RoutingInv

(* Every action that sends on or takes the packet sends it closer. *)
LEMMA SendOnCloser ==
  ASSUME RoutingInv, NEW n \in Nodes, NEW d \in Nodes,
         nextHop[n][d] # None, SendOn(n, d), UNCHANGED dv
  PROVE  /\ pkt' \in Packets
         /\ pkt'.cost # None => dv'[pkt'.to][pkt'.dest] < pkt'.cost
<1> DEFINE h == nextHop[n][d]
           c == IF pending[n] = d THEN None ELSE dv[n][d]
<1> USE RoutingAssumption
<1>1. h \in Nodes /\ h # n
  BY DEF RoutingInv, TypeOK, HopElsewhere
<1>2. pending[n] # d => dv[h][d] + LinkCost[n][h] <= dv[n][d]
  BY DEF RoutingInv, NextHopCloser
<1>3. dv[h][d] \in Nat /\ dv[n][d] \in Nat /\ dv[n][d] \in 0 .. INFINITE_COST
  BY <1>1 DEF RoutingInv, TypeOK, Vectors
<1>4. LinkCost[n][h] \in Nat /\ LinkCost[n][h] > 0
  BY <1>1
<1>5. pkt' = [to |-> h, dest |-> d, cost |-> c]
  BY DEF SendOn
<1> HIDE DEF h
<1>6. pending[n] # d => dv[h][d] < dv[n][d]
  BY <1>2, <1>3, <1>4
<1>7. c \in 0 .. INFINITE_COST \cup {None} /\ (c # None => dv[h][d] < c)
  BY <1>3, <1>6
<1> HIDE DEF c
<1>8. QED
  BY <1>1, <1>5, <1>7 DEF Packets

(* What a relaxation does: a vector decreases, to a cost that the neighbour *)
(* through which it goes can keep.                                          *)
LEMMA RelaxProperties ==
  ASSUME RoutingInv, NEW n \in Nodes, NEW d \in Nodes, RelaxCost(n, d)
  PROVE  \E m \in Nodes \ {n} :
           /\ relaxing[n] = m
           /\ dv' = [dv EXCEPT ![n][d] = LinkCost[n][m] + row[n][m][d]]
           /\ dv'[n][d] = LinkCost[n][m] + row[n][m][d]
           /\ dv'[n][d] \in 0 .. INFINITE_COST
           /\ dv'[n][d] < dv[n][d]
           /\ dv[m][d] <= row[n][m][d]
           /\ dv' \in [Nodes -> Vectors]
           /\ \A a, b \in Nodes : dv'[a][b] <= dv[a][b]
<1> DEFINE m == relaxing[n]
<1> USE RoutingAssumption
<1>1. m \in Nodes
  BY DEF RelaxCost, RoutingInv, TypeOK
<1>2. row[n][m] \in Vectors /\ row[n][m][d] \in 0 .. INFINITE_COST
  BY <1>1 DEF RoutingInv, TypeOK, Vectors
<1>3. dv \in [Nodes -> Vectors]
  BY DEF RoutingInv, TypeOK
<1>4. \A a, b \in Nodes : dv[a][b] \in 0 .. INFINITE_COST
  BY <1>3 DEF Vectors
<1>5. LinkCost[n][m] \in Nat
  BY <1>1
<1>6. LinkCost[n][m] + row[n][m][d] < dv[n][d]
  BY DEF RelaxCost, Shorter, CostThrough
<1>7. dv[m][d] <= row[n][m][d]
  BY <1>1 DEF RoutingInv, KnownAbove
<1>8. m # n
  BY DEF RoutingInv, PendingOffer
<1>9. dv' = [dv EXCEPT ![n][d] = LinkCost[n][m] + row[n][m][d]]
  BY DEF RelaxCost, CostThrough
<1>11. LinkCost[n][m] + row[n][m][d] \in 0 .. INFINITE_COST
  BY <1>2, <1>4, <1>5, <1>6
<1>12. dv' \in [Nodes -> Vectors]
  BY <1>3, <1>9, <1>11 DEF Vectors
<1>13. dv'[n][d] = LinkCost[n][m] + row[n][m][d]
  BY <1>3, <1>9 DEF Vectors
<1>14. \A a, b \in Nodes : dv'[a][b] <= dv[a][b]
  <2> SUFFICES ASSUME NEW a \in Nodes, NEW b \in Nodes
               PROVE  dv'[a][b] <= dv[a][b]
    OBVIOUS
  <2>1. CASE a = n /\ b = d
    BY <2>1, <1>13, <1>6, <1>4, <1>11
  <2>2. CASE ~(a = n /\ b = d)
    <3>1. dv'[a][b] = dv[a][b]
      BY <2>2, <1>9, <1>3 DEF Vectors
    <3>2. QED
      BY <3>1, <1>4, SMTT(40)
  <2>3. QED
    BY <2>1, <2>2
<1>15. QED
  BY <1>1, <1>6, <1>7, <1>8, <1>9, <1>11, <1>12, <1>13, <1>14, ZenonT(40)

(* Steps that change neither the vectors, the routing tables nor what is    *)
(* known of the vectors, but for forgetting some of it.                     *)
LEMMA ForgettingStep ==
  ASSUME RoutingInv, TypeOK',
         UNCHANGED <<dv, row, nextHop, relaxing, pending>>,
         \A n \in Nodes : snapshot'[n] # None =>
            snapshot'[n] = snapshot[n] \/ snapshot'[n] = dv[n],
         \A m, n \in Nodes : \A i \in DOMAIN link'[m][n] :
            \E j \in DOMAIN link[m][n] : link'[m][n][i] = link[m][n][j],
         PacketCloser'
  PROVE  RoutingInv'
<1>1. \A n, d \in Nodes : dv[n][d] \in Nat
  BY RoutingAssumption DEF RoutingInv, TypeOK, Vectors
<1>2. KnownAbove'
  <2> SUFFICES ASSUME NEW m \in Nodes, NEW d \in Nodes
               PROVE  /\ snapshot'[m] # None => dv[m][d] <= snapshot'[m][d]
                      /\ \A n \in Nodes : dv[m][d] <= row[n][m][d]
                      /\ \A n \in Nodes : \A i \in DOMAIN link'[m][n] :
                           dv[m][d] <= link'[m][n][i][d]
    BY DEF KnownAbove
  <2>1. snapshot'[m] # None => dv[m][d] <= snapshot'[m][d]
    BY <1>1 DEF RoutingInv, KnownAbove
  <2>2. \A n \in Nodes : dv[m][d] <= row[n][m][d]
    BY DEF RoutingInv, KnownAbove
  <2>3. \A n \in Nodes : \A i \in DOMAIN link'[m][n] :
          dv[m][d] <= link'[m][n][i][d]
    BY DEF RoutingInv, KnownAbove
  <2>4. QED
    BY <2>1, <2>2, <2>3
<1>3. HopElsewhere' /\ AboveShortest' /\ NextHopCloser' /\ PendingOffer'
  BY DEF RoutingInv, HopElsewhere, AboveShortest, NextHopCloser, PendingOffer,
         CostThrough
<1>4. QED
  BY <1>2, <1>3 DEF RoutingInv

(* The daemon sends a mixture of what it has read and what is there now. *)
LEMMA DaemonSendStep ==
  ASSUME RoutingInv, NEW n \in Nodes, DaemonSend(n)
  PROVE  RoutingInv'
<1>1. PICK late \in SUBSET {d \in Nodes : dv[n][d] # snapshot[n][d]} :
        Broadcast(n, [d \in Nodes |->
                        IF d \in late THEN dv[n][d] ELSE snapshot[n][d]])
  BY DEF DaemonSend
<1> DEFINE w == [d \in Nodes |-> IF d \in late THEN dv[n][d] ELSE snapshot[n][d]]
<1>2. snapshot[n] \in Vectors /\ dv[n] \in Vectors
  BY DEF DaemonSend, RoutingInv, TypeOK
<1>3. w \in Vectors
  BY <1>2 DEF Vectors
<1>4. \A d \in Nodes : dv[n][d] <= w[d]
  <2> SUFFICES ASSUME NEW d \in Nodes PROVE dv[n][d] <= w[d]
    OBVIOUS
  <2>1. dv[n][d] <= snapshot[n][d]
    BY DEF DaemonSend, RoutingInv, KnownAbove
  <2>2. dv[n][d] \in Nat
    BY <1>2, RoutingAssumption DEF Vectors
  <2>3. QED
    BY <2>1, <2>2
<1>5. PICK v \in Vectors : Broadcast(n, v) /\ \A d \in Nodes : dv[n][d] <= v[d]
  BY <1>1, <1>3, <1>4
<1>6. /\ link' \in [Nodes -> [Nodes -> Seq(Vectors)]]
      /\ \A m, k \in Nodes : \A i \in DOMAIN link'[m][k] :
           \/ i \in DOMAIN link[m][k] /\ link'[m][k][i] = link[m][k][i]
           \/ m = n /\ link'[m][k][i] = v
  <2>1. link \in [Nodes -> [Nodes -> Seq(Vectors)]]
    BY DEF RoutingInv, TypeOK
  <2>2. QED
    BY <1>5, <2>1, BroadcastAdds
<1>7. TypeOK'
  BY <1>6 DEF DaemonSend, RoutingInv, TypeOK
<1>8. KnownAbove'
  <2> SUFFICES ASSUME NEW m \in Nodes, NEW d \in Nodes
               PROVE  /\ snapshot'[m] # None => dv[m][d] <= snapshot'[m][d]
                      /\ \A k \in Nodes : dv[m][d] <= row[k][m][d]
                      /\ \A k \in Nodes : \A i \in DOMAIN link'[m][k] :
                           dv[m][d] <= link'[m][k][i][d]
    BY DEF KnownAbove, DaemonSend
  <2>1. snapshot'[m] # None => dv[m][d] <= snapshot'[m][d]
    BY DEF DaemonSend, RoutingInv, TypeOK, KnownAbove
  <2>2. \A k \in Nodes : dv[m][d] <= row[k][m][d]
    BY DEF RoutingInv, KnownAbove
  <2>3. ASSUME NEW k \in Nodes, NEW i \in DOMAIN link'[m][k]
        PROVE  dv[m][d] <= link'[m][k][i][d]
    <3>1. CASE i \in DOMAIN link[m][k] /\ link'[m][k][i] = link[m][k][i]
      BY <3>1 DEF RoutingInv, KnownAbove
    <3>2. CASE m = n /\ link'[m][k][i] = v
      BY <3>2, <1>5
    <3>3. QED
      BY <3>1, <3>2, <1>6
  <2>4. QED
    BY <2>1, <2>2, <2>3
<1>9. /\ HopElsewhere' /\ AboveShortest' /\ NextHopCloser' /\ PacketCloser'
      /\ PendingOffer'
  BY DEF DaemonSend, RoutingInv, HopElsewhere, AboveShortest, NextHopCloser,
         PacketCloser, PendingOffer, CostThrough
<1>10. QED
  BY <1>7, <1>8, <1>9 DEF RoutingInv

(* A row is overwritten by an update, which is above the vector it is of. *)
LEMMA ReceiveStep ==
  ASSUME RoutingInv, NEW n \in Nodes, NEW m \in Nodes, Receive(n, m)
  PROVE  RoutingInv'
<1> DEFINE v == link[m][n][1]
<1>1. /\ link \in [Nodes -> [Nodes -> Seq(Vectors)]] /\ link[m][n] # <<>>
      /\ link' = [link EXCEPT ![m][n] = Tail(@)]
  BY DEF Receive, RoutingInv, TypeOK
<1>2. /\ link' \in [Nodes -> [Nodes -> Seq(Vectors)]]
      /\ Head(link[m][n]) \in Vectors
      /\ 1 \in DOMAIN link[m][n] /\ Head(link[m][n]) = link[m][n][1]
      /\ \A a, b \in Nodes : \A i \in DOMAIN link'[a][b] :
           \E j \in DOMAIN link[a][b] : link'[a][b][i] = link[a][b][j]
  BY <1>1, PopKeeps
<1>3. row' = [row EXCEPT ![n][m] = v]
  BY <1>2 DEF Receive
<1>4. row' \in [Nodes -> [Nodes -> Vectors]]
  BY <1>2, <1>3 DEF RoutingInv, TypeOK
<1>5. relaxing' \in [Nodes -> Nodes \cup {None}]
  BY DEF Receive, RoutingInv, TypeOK
<1>6. TypeOK'
  BY <1>2, <1>4, <1>5 DEF Receive, RoutingInv, TypeOK
<1>7. KnownAbove'
  <2> SUFFICES ASSUME NEW a \in Nodes, NEW d \in Nodes
               PROVE  /\ snapshot[a] # None => dv[a][d] <= snapshot[a][d]
                      /\ \A k \in Nodes : dv[a][d] <= row'[k][a][d]
                      /\ \A k \in Nodes : \A i \in DOMAIN link'[a][k] :
                           dv[a][d] <= link'[a][k][i][d]
    BY DEF KnownAbove, Receive
  <2>1. snapshot[a] # None => dv[a][d] <= snapshot[a][d]
    BY DEF RoutingInv, KnownAbove
  <2>2. ASSUME NEW k \in Nodes PROVE dv[a][d] <= row'[k][a][d]
    <3>1. CASE k = n /\ a = m
      <4>1. row'[k][a] = v
        BY <3>1, <1>3 DEF RoutingInv, TypeOK
      <4>2. dv[m][d] <= v[d]
        BY <1>2 DEF RoutingInv, KnownAbove
      <4>3. QED
        BY <4>1, <4>2, <3>1
    <3>2. CASE ~(k = n /\ a = m)
      <4>1. row'[k][a] = row[k][a]
        BY <3>2, <1>3 DEF RoutingInv, TypeOK
      <4>2. QED
        BY <4>1 DEF RoutingInv, KnownAbove
    <3>3. QED
      BY <3>1, <3>2
  <2>3. ASSUME NEW k \in Nodes, NEW i \in DOMAIN link'[a][k]
        PROVE  dv[a][d] <= link'[a][k][i][d]
    <3>1. PICK j \in DOMAIN link[a][k] : link'[a][k][i] = link[a][k][j]
      BY <1>2
    <3>2. QED
      BY <3>1 DEF RoutingInv, KnownAbove
  <2>4. QED
    BY <2>1, <2>2, <2>3
<1>8. HopElsewhere' /\ AboveShortest' /\ NextHopCloser' /\ PacketCloser'
  BY DEF Receive, RoutingInv, HopElsewhere, AboveShortest, NextHopCloser,
         PacketCloser
<1>9. PendingOffer'
  <2> SUFFICES ASSUME NEW k \in Nodes
               PROVE  /\ relaxing'[k] # k
                      /\ pending[k] # None =>
                           /\ relaxing'[k] # None
                           /\ dv[k][pending[k]] = LinkCost[k][relaxing'[k]]
                                + row'[k][relaxing'[k]][pending[k]]
    BY DEF PendingOffer, CostThrough, Receive
  <2>1. CASE k # n
    <3>1. relaxing'[k] = relaxing[k]
      BY <2>1 DEF Receive, RoutingInv, TypeOK
    <3>2. row'[k] = row[k]
      BY <2>1, <1>3 DEF RoutingInv, TypeOK
    <3>3. QED
      BY <3>1, <3>2 DEF RoutingInv, PendingOffer, CostThrough
  <2>2. CASE k = n
    <3>1. pending[n] = None
      BY DEF Receive, RoutingInv, PendingOffer
    <3>2. relaxing'[n] = IF v # row[n][m] /\ Shorter(n, m, v) # {} THEN m ELSE None
      BY <1>2 DEF Receive, RoutingInv, TypeOK
    <3>3. m = n => Shorter(n, m, v) = {}
      <4> SUFFICES ASSUME m = n, NEW d \in Nodes
                   PROVE  ~(LinkCost[n][n] + v[d] < dv[n][d])
        BY DEF Shorter, CostThrough
      <4>1. dv[n][d] <= v[d]
        BY <1>2 DEF RoutingInv, KnownAbove
      <4>2. v[d] \in Nat /\ dv[n][d] \in Nat
        <5>1. v \in Vectors /\ dv[n] \in Vectors
          BY <1>2 DEF RoutingInv, TypeOK
        <5>2. QED
          BY <5>1, VectorNat
      <4>3. LinkCost[n][n] = 0
        BY RoutingAssumption
      <4>4. QED
        BY <4>1, <4>2, <4>3
    <3>4. None # n
      BY RoutingAssumption
    <3>5. QED
      BY <2>2, <3>1, <3>2, <3>3, <3>4
  <2>3. QED
    BY <2>1, <2>2
<1>10. QED
  BY <1>6, <1>7, <1>8, <1>9 DEF RoutingInv

(* The vector decreases: nothing that is known of it becomes too small, and *)
(* the way over the neighbour can be kept.                                  *)
LEMMA RelaxCostStep ==
  ASSUME RoutingInv, NEW n \in Nodes, NEW d \in Nodes, RelaxCost(n, d)
  PROVE  RoutingInv'
<1>1. PICK m \in Nodes \ {n} :
        /\ relaxing[n] = m
        /\ dv' = [dv EXCEPT ![n][d] = LinkCost[n][m] + row[n][m][d]]
        /\ dv'[n][d] = LinkCost[n][m] + row[n][m][d]
        /\ dv'[n][d] \in 0 .. INFINITE_COST
        /\ dv'[n][d] < dv[n][d]
        /\ dv[m][d] <= row[n][m][d]
        /\ dv' \in [Nodes -> Vectors]
        /\ \A a, b \in Nodes : dv'[a][b] <= dv[a][b]
  BY RelaxProperties
<1>2. /\ dv \in [Nodes -> Vectors]
      /\ pending \in [Nodes -> Nodes \cup {None}]
      /\ row \in [Nodes -> [Nodes -> Vectors]]
  BY DEF RoutingInv, TypeOK
<1>3. \A a, b \in Nodes : dv[a][b] \in Nat /\ dv'[a][b] \in Nat
  BY <1>1, <1>2, VectorNat
<1>4. \A a, b \in Nodes : ~(a = n /\ b = d) => dv'[a][b] = dv[a][b]
  BY <1>1, <1>2 DEF Vectors
<1>5. pending[n] = None /\ pending' = [pending EXCEPT ![n] = d]
  BY DEF RelaxCost
<1>6. TypeOK'
  BY <1>1, <1>2, <1>5 DEF RelaxCost, RoutingInv, TypeOK
<1>7. KnownAbove'
  <2> SUFFICES ASSUME NEW a \in Nodes, NEW b \in Nodes
               PROVE  /\ snapshot[a] # None => dv'[a][b] <= snapshot[a][b]
                      /\ \A k \in Nodes : dv'[a][b] <= row[k][a][b]
                      /\ \A k \in Nodes : \A i \in DOMAIN link[a][k] :
                           dv'[a][b] <= link[a][k][i][b]
    BY DEF KnownAbove, RelaxCost
  <2>1. dv'[a][b] <= dv[a][b] /\ dv[a][b] \in Nat /\ dv'[a][b] \in Nat
    BY <1>1, <1>3
  <2>2. snapshot[a] # None => dv'[a][b] <= snapshot[a][b]
    <3>1. snapshot[a] # None => dv[a][b] <= snapshot[a][b]
      BY DEF RoutingInv, KnownAbove
    <3>2. snapshot[a] # None => snapshot[a] \in Vectors
      BY DEF RoutingInv, TypeOK
    <3>3. snapshot[a] # None => snapshot[a][b] \in Nat
      BY <3>2, VectorNat
    <3>4. QED
      BY <2>1, <3>1, <3>3
  <2>3. ASSUME NEW k \in Nodes PROVE dv'[a][b] <= row[k][a][b]
    <3>1. dv[a][b] <= row[k][a][b]
      BY DEF RoutingInv, KnownAbove
    <3>2. row[k][a][b] \in Nat
      BY <1>2, VectorNat
    <3>3. QED
      BY <2>1, <3>1, <3>2
  <2>4. ASSUME NEW k \in Nodes, NEW i \in DOMAIN link[a][k]
        PROVE  dv'[a][b] <= link[a][k][i][b]
    <3>1. dv[a][b] <= link[a][k][i][b]
      BY DEF RoutingInv, KnownAbove
    <3>2. link[a][k] \in Seq(Vectors)
      BY DEF RoutingInv, TypeOK
    <3>3. link[a][k][i] \in Vectors
      BY <3>2
    <3>4. link[a][k][i][b] \in Nat
      BY <3>3, VectorNat
    <3>5. QED
      BY <2>1, <3>1, <3>4
  <2>5. QED
    BY <2>2, <2>3, <2>4
<1>8. HopElsewhere'
  BY DEF RoutingInv, HopElsewhere, RelaxCost
<1>9. AboveShortest'
  <2> SUFFICES ASSUME NEW a \in Nodes, NEW b \in Nodes
               PROVE  Shortest[a][b] <= dv'[a][b]
    BY DEF AboveShortest
  <2>1. CASE a = n /\ b = d
    <3>1. Shortest[n][d] <= LinkCost[n][m] + Shortest[m][d]
      BY RoutingAssumption
    <3>2. Shortest[m][d] <= dv[m][d]
      BY DEF RoutingInv, AboveShortest
    <3>3. /\ Shortest[n][d] \in Nat /\ Shortest[m][d] \in Nat
          /\ LinkCost[n][m] \in Nat
      BY RoutingAssumption
    <3>4. dv[m][d] \in Nat /\ dv'[n][d] \in Nat /\ row[n][m][d] \in Nat
      BY <1>2, <1>3, VectorNat
    <3>5. QED
      BY <3>1, <3>2, <3>3, <3>4, <1>1, <2>1
  <2>2. CASE ~(a = n /\ b = d)
    BY <2>2, <1>4 DEF RoutingInv, AboveShortest
  <2>3. QED
    BY <2>1, <2>2
<1>10. NextHopCloser'
  <2> SUFFICES ASSUME NEW a \in Nodes, NEW b \in Nodes,
                      nextHop[a][b] # None, pending'[a] # b
               PROVE  dv'[nextHop[a][b]][b] + LinkCost[a][nextHop[a][b]]
                        <= dv'[a][b]
    BY DEF NextHopCloser, RelaxCost
  <2>1. ~(a = n /\ b = d) /\ pending[a] # b
    BY <1>2, <1>5, RoutingAssumption
  <2>2. dv'[a][b] = dv[a][b]
    BY <2>1, <1>4
  <2>3. PICK h \in Nodes : h = nextHop[a][b]
    <3>1. nextHop \in [Nodes -> [Nodes -> Nodes \cup {None}]]
      BY DEF RoutingInv, TypeOK
    <3>2. nextHop[a][b] \in Nodes
      BY <3>1
    <3>3. QED
      BY <3>2
  <2>4. dv[h][b] + LinkCost[a][h] <= dv[a][b]
    BY <2>1, <2>3 DEF RoutingInv, NextHopCloser
  <2>5. dv'[h][b] <= dv[h][b]
    BY <1>1
  <2>6. LinkCost[a][h] \in Nat
    BY RoutingAssumption
  <2>7. dv'[h][b] \in Nat /\ dv[h][b] \in Nat /\ dv[a][b] \in Nat
    BY <1>3
  <2>8. dv'[h][b] + LinkCost[a][h] <= dv[a][b]
    BY <2>4, <2>5, <2>6, <2>7
  <2>9. QED
    BY <2>2, <2>3, <2>8
<1>11. PacketCloser'
  <2> SUFFICES ASSUME pkt # None, pkt.cost # None
               PROVE  dv'[pkt.to][pkt.dest] < pkt.cost
    BY DEF PacketCloser, RelaxCost
  <2>1. pkt.to \in Nodes /\ pkt.dest \in Nodes /\ pkt.cost \in Nat
    <3>1. pkt \in Packets
      BY DEF RoutingInv, TypeOK
    <3>2. QED
      BY <3>1, RoutingAssumption DEF Packets
  <2>2. dv[pkt.to][pkt.dest] < pkt.cost
    BY DEF RoutingInv, PacketCloser
  <2>3. dv'[pkt.to][pkt.dest] <= dv[pkt.to][pkt.dest]
    BY <1>1, <2>1
  <2>4. dv[pkt.to][pkt.dest] \in Nat /\ dv'[pkt.to][pkt.dest] \in Nat
    BY <1>3, <2>1
  <2>5. QED
    BY <2>1, <2>2, <2>3, <2>4
<1>12. PendingOffer'
  <2> SUFFICES ASSUME NEW k \in Nodes
               PROVE  /\ relaxing[k] # k
                      /\ pending'[k] # None =>
                           /\ relaxing[k] # None
                           /\ dv'[k][pending'[k]] = LinkCost[k][relaxing[k]]
                                + row[k][relaxing[k]][pending'[k]]
    BY DEF PendingOffer, CostThrough, RelaxCost
  <2>1. CASE k = n
    BY <2>1, <1>1, <1>2, <1>5, RoutingAssumption
  <2>2. CASE k # n
    <3>1. pending'[k] = pending[k] /\ pending[k] \in Nodes \cup {None}
      BY <2>2, <1>2, <1>5
    <3>2. pending[k] # None => dv'[k][pending[k]] = dv[k][pending[k]]
      BY <2>2, <3>1, <1>4
    <3>3. QED
      BY <3>1, <3>2 DEF RoutingInv, PendingOffer, CostThrough
  <2>3. QED
    BY <2>1, <2>2
<1>13. QED
  BY <1>6, <1>7, <1>8, <1>9, <1>10, <1>11, <1>12 DEF RoutingInv

(* The route follows the vector, which is then broadcast as it is. *)
LEMMA RelaxHopStep ==
  ASSUME RoutingInv, NEW n \in Nodes, RelaxHop(n)
  PROVE  RoutingInv'
<1>1. PICK m \in Nodes, d \in Nodes : m = relaxing[n] /\ d = pending[n]
  BY DEF RelaxHop, RoutingInv, TypeOK
<1>2. /\ nextHop' = [nextHop EXCEPT ![n][d] = m]
      /\ pending' = [pending EXCEPT ![n] = None]
      /\ UNCHANGED <<dv, row, snapshot, pkt>>
  BY <1>1 DEF RelaxHop
<1>3. /\ nextHop \in [Nodes -> [Nodes -> Nodes \cup {None}]]
      /\ pending \in [Nodes -> Nodes \cup {None}]
      /\ relaxing \in [Nodes -> Nodes \cup {None}]
      /\ dv \in [Nodes -> Vectors] /\ row \in [Nodes -> [Nodes -> Vectors]]
  BY DEF RoutingInv, TypeOK
<1>4. m # n /\ dv[n][d] = LinkCost[n][m] + row[n][m][d]
  BY <1>1, RoutingAssumption DEF RoutingInv, PendingOffer, CostThrough
<1>5. PICK v \in Vectors : Broadcast(n, v) /\ \A b \in Nodes : v[b] = dv[n][b]
  BY <1>3 DEF RelaxHop
<1>6. /\ link' \in [Nodes -> [Nodes -> Seq(Vectors)]]
      /\ \A a, k \in Nodes : \A i \in DOMAIN link'[a][k] :
           \/ i \in DOMAIN link[a][k] /\ link'[a][k][i] = link[a][k][i]
           \/ a = n /\ link'[a][k][i] = v
  <2>1. link \in [Nodes -> [Nodes -> Seq(Vectors)]]
    BY DEF RoutingInv, TypeOK
  <2>2. QED
    BY <1>5, <2>1, BroadcastAdds
<1>7. relaxing' = [relaxing EXCEPT ![n] = m] \/ relaxing' = [relaxing EXCEPT ![n] = None]
  BY <1>1 DEF RelaxHop
<1>8. TypeOK'
  <2>1. nextHop' \in [Nodes -> [Nodes -> Nodes \cup {None}]]
    BY <1>2, <1>3
  <2>2. /\ pending' \in [Nodes -> Nodes \cup {None}]
        /\ relaxing' \in [Nodes -> Nodes \cup {None}]
    BY <1>2, <1>3, <1>7
  <2>3. phase' = phase
    BY DEF RelaxHop
  <2>4. QED
    BY <1>2, <1>6, <2>1, <2>2, <2>3 DEF RoutingInv, TypeOK
<1>9. KnownAbove'
  <2> SUFFICES ASSUME NEW a \in Nodes, NEW b \in Nodes
               PROVE  /\ snapshot[a] # None => dv[a][b] <= snapshot[a][b]
                      /\ \A k \in Nodes : dv[a][b] <= row[k][a][b]
                      /\ \A k \in Nodes : \A i \in DOMAIN link'[a][k] :
                           dv[a][b] <= link'[a][k][i][b]
    BY <1>2 DEF KnownAbove
  <2>1. /\ snapshot[a] # None => dv[a][b] <= snapshot[a][b]
        /\ \A k \in Nodes : dv[a][b] <= row[k][a][b]
    BY DEF RoutingInv, KnownAbove
  <2>2. ASSUME NEW k \in Nodes, NEW i \in DOMAIN link'[a][k]
        PROVE  dv[a][b] <= link'[a][k][i][b]
    <3>1. CASE i \in DOMAIN link[a][k] /\ link'[a][k][i] = link[a][k][i]
      BY <3>1 DEF RoutingInv, KnownAbove
    <3>2. CASE a = n /\ link'[a][k][i] = v
      <4>1. dv[n][b] \in Nat
        BY <1>3, VectorNat
      <4>2. QED
        BY <3>2, <4>1, <1>5
    <3>3. QED
      BY <3>1, <3>2, <1>6
  <2>3. QED
    BY <2>1, <2>2
<1>10. HopElsewhere'
  BY <1>2, <1>3, <1>4 DEF RoutingInv, HopElsewhere
<1>11. AboveShortest' /\ PacketCloser'
  BY <1>2 DEF RoutingInv, AboveShortest, PacketCloser
<1>12. NextHopCloser'
  <2> SUFFICES ASSUME NEW a \in Nodes, NEW b \in Nodes,
                      nextHop'[a][b] # None, pending'[a] # b
               PROVE  dv[nextHop'[a][b]][b] + LinkCost[a][nextHop'[a][b]]
                        <= dv[a][b]
    BY <1>2 DEF NextHopCloser
  <2>1. CASE a = n /\ b = d
    <3>1. nextHop'[a][b] = m
      BY <2>1, <1>2, <1>3
    <3>2. dv[m][d] <= row[n][m][d]
      BY DEF RoutingInv, KnownAbove
    <3>3. LinkCost[n][m] \in Nat
      BY RoutingAssumption
    <3>4. row[n][m][d] \in Nat /\ dv[m][d] \in Nat
      BY <1>3, VectorNat
    <3>5. dv[m][d] + LinkCost[n][m] <= dv[n][d]
      BY <3>2, <3>3, <3>4, <1>4
    <3>6. QED
      BY <2>1, <3>1, <3>5
  <2>2. CASE ~(a = n /\ b = d)
    <3>1. nextHop'[a][b] = nextHop[a][b]
      BY <2>2, <1>2, <1>3
    <3>2. pending[a] # b
      BY <2>2, <1>1, <1>2, <1>3
    <3>3. QED
      BY <3>1, <3>2 DEF RoutingInv, NextHopCloser
  <2>3. QED
    BY <2>1, <2>2
<1>13. PendingOffer'
  <2> SUFFICES ASSUME NEW k \in Nodes
               PROVE  /\ relaxing'[k] # k
                      /\ pending'[k] # None =>
                           /\ relaxing'[k] # None
                           /\ dv[k][pending'[k]] = LinkCost[k][relaxing'[k]]
                                + row[k][relaxing'[k]][pending'[k]]
    BY <1>2 DEF PendingOffer, CostThrough
  <2>1. CASE k = n
    <3>1. pending'[k] = None
      BY <2>1, <1>2, <1>3
    <3>2. relaxing'[k] = m \/ relaxing'[k] = None
      BY <2>1, <1>3, <1>7
    <3>3. QED
      BY <2>1, <3>1, <3>2, <1>4, RoutingAssumption
  <2>2. CASE k # n
    <3>1. pending'[k] = pending[k] /\ relaxing'[k] = relaxing[k]
      BY <2>2, <1>2, <1>3, <1>7
    <3>2. QED
      BY <3>1 DEF RoutingInv, PendingOffer, CostThrough
  <2>3. QED
    BY <2>1, <2>2
<1>14. QED
  BY <1>8, <1>9, <1>10, <1>11, <1>12, <1>13 DEF RoutingInv

(* The other steps of a process: starting, stopping, reading and dropping. *)
LEMMA ProcessStep ==
  ASSUME RoutingInv, NEW n \in Nodes, NEW m \in Nodes,
         Start(n) \/ Stop(n) \/ DaemonRead(n) \/ DropUpdate(n, m)
  PROVE  RoutingInv'
<1>1. PacketCloser'
  BY DEF RoutingInv, PacketCloser, Start, Stop, DaemonRead, DropUpdate
<1>2. CASE Start(n)
  <2>1. TypeOK'
    BY <1>2 DEF Start, RoutingInv, TypeOK
  <2>2. QED
    BY <1>1, <1>2, <2>1, ForgettingStep DEF Start
<1>3. CASE Stop(n)
  <2>1. snapshot' = [snapshot EXCEPT ![n] = None]
    BY <1>3 DEF Stop
  <2>2. snapshot \in [Nodes -> Vectors \cup {None}]
    BY DEF RoutingInv, TypeOK
  <2>3. TypeOK'
    BY <1>3 DEF Stop, RoutingInv, TypeOK
  <2>4. \A k \in Nodes : snapshot'[k] # None => snapshot'[k] = snapshot[k]
    BY <2>1, <2>2
  <2>5. QED
    BY <1>1, <1>3, <2>3, <2>4, ForgettingStep DEF Stop
<1>4. CASE DaemonRead(n)
  <2>1. snapshot' = [snapshot EXCEPT ![n] = dv[n]]
    BY <1>4 DEF DaemonRead
  <2>2. snapshot \in [Nodes -> Vectors \cup {None}] /\ dv[n] \in Vectors
    BY DEF RoutingInv, TypeOK
  <2>3. TypeOK'
    BY <1>4, <2>1, <2>2 DEF DaemonRead, RoutingInv, TypeOK
  <2>4. \A k \in Nodes : snapshot'[k] = snapshot[k] \/ snapshot'[k] = dv[k]
    BY <2>1, <2>2
  <2>5. QED
    BY <1>1, <1>4, <2>3, <2>4, ForgettingStep DEF DaemonRead
<1>5. CASE DropUpdate(n, m)
  <2>1. /\ link \in [Nodes -> [Nodes -> Seq(Vectors)]] /\ link[m][n] # <<>>
        /\ link' = [link EXCEPT ![m][n] = Tail(@)]
    BY <1>5 DEF DropUpdate, RoutingInv, TypeOK
  <2>2. /\ link' \in [Nodes -> [Nodes -> Seq(Vectors)]]
        /\ \A a, b \in Nodes : \A i \in DOMAIN link'[a][b] :
             \E j \in DOMAIN link[a][b] : link'[a][b][i] = link[a][b][j]
    BY <2>1, PopKeeps
  <2>3. TypeOK'
    BY <1>5, <2>2 DEF DropUpdate, RoutingInv, TypeOK
  <2>4. QED
    BY <1>1, <1>5, <2>2, <2>3, ForgettingStep DEF DropUpdate
<1>6. QED
  BY <1>2, <1>3, <1>4, <1>5

(* The steps that only move the packet. *)
LEMMA PacketStep ==
  ASSUME RoutingInv, NEW n \in Nodes, NEW d \in Nodes,
         SendPacket(n, d) \/ Forward(n) \/ TakePacket(n)
  PROVE  RoutingInv'
<1>1. UNCHANGED <<phase, dv, row, nextHop, relaxing, pending, snapshot, link>>
  BY DEF SendPacket, Forward, TakePacket
<1>2. \/ pkt' = None
      \/ /\ pkt' \in Packets
         /\ pkt'.cost # None => dv'[pkt'.to][pkt'.dest] < pkt'.cost
  <2>1. CASE SendPacket(n, d)
    BY <1>1, <2>1, SendOnCloser DEF SendPacket
  <2>2. CASE Forward(n)
    <3>1. PICK e \in Nodes : e = pkt.dest
      BY <2>2 DEF Forward, RoutingInv, TypeOK, Packets
    <3>2. CASE nextHop[n][e] # None
      <4>1. SendOn(n, e)
        BY <2>2, <3>1, <3>2 DEF Forward
      <4>2. QED
        BY <1>1, <3>2, <4>1, SendOnCloser
    <3>3. CASE nextHop[n][e] = None
      BY <2>2, <3>1, <3>3 DEF Forward
    <3>4. QED
      BY <3>2, <3>3
  <2>3. CASE TakePacket(n)
    BY <2>3 DEF TakePacket
  <2>4. QED
    BY <2>1, <2>2, <2>3
<1>3. TypeOK' /\ PacketCloser'
  BY <1>1, <1>2 DEF RoutingInv, TypeOK, PacketCloser
<1>4. \A a, b \in Nodes : \A i \in DOMAIN link'[a][b] :
        \E j \in DOMAIN link[a][b] : link'[a][b][i] = link[a][b][j]
  BY <1>1
<1>5. QED
  BY <1>1, <1>3, <1>4, ForgettingStep

(* RoutingInv is inductive. *)
LEMMA NextInv == RoutingInv /\ [Next]_vars => RoutingInv'
<1> SUFFICES ASSUME RoutingInv, [Next]_vars PROVE RoutingInv'
  OBVIOUS
<1>1. CASE UNCHANGED vars
  BY <1>1 DEF vars, RoutingInv, TypeOK, KnownAbove, HopElsewhere,
              AboveShortest, NextHopCloser, PacketCloser, PendingOffer,
              CostThrough
<1>2. CASE Next
  <2>1. PICK n \in Nodes, m \in Nodes :
          \/ Start(n) \/ Stop(n) \/ DaemonRead(n) \/ DropUpdate(n, m)
          \/ DaemonSend(n)
          \/ Receive(n, m)
          \/ RelaxCost(n, m)
          \/ RelaxHop(n)
          \/ SendPacket(n, m) \/ Forward(n) \/ TakePacket(n)
    BY <1>2 DEF Next
  <2>2. CASE Start(n) \/ Stop(n) \/ DaemonRead(n) \/ DropUpdate(n, m)
    BY <2>2, ProcessStep
  <2>3. CASE DaemonSend(n)
    BY <2>3, DaemonSendStep
  <2>4. CASE Receive(n, m)
    BY <2>4, ReceiveStep
  <2>5. CASE RelaxCost(n, m)
    BY <2>5, RelaxCostStep
  <2>6. CASE RelaxHop(n)
    BY <2>6, RelaxHopStep
  <2>7. CASE SendPacket(n, m) \/ Forward(n) \/ TakePacket(n)
    BY <2>7, PacketStep
  <2>8. QED
    BY <2>1, <2>2, <2>3, <2>4, <2>5, <2>6, <2>7
<1>3. QED
  BY <1>1, <1>2

(* Whatever the threads of the SNP processes and the overlay do, the tables *)
(* of network.c keep the inductive invariant.                               *)
THEOREM RoutingSafety == Spec => []RoutingInv
  BY InitInv, NextInv, PTL DEF Spec

(* The tables and the links hold values of their types. *)
THEOREM RoutingTypeCorrect == Spec => []TypeOK
<1>1. RoutingInv => TypeOK
  BY DEF RoutingInv
<1>2. QED
  BY RoutingSafety, <1>1, PTL

(* The next hop in a routing table is always closer to the destination,     *)
(* however stale the rows are from which pkthandler computed it, unless     *)
(* pkthandler is between the vector and the table just then.                *)
THEOREM NextHopsAreCloser == Spec => []NextHopCloser
<1>1. RoutingInv => NextHopCloser
  BY DEF RoutingInv
<1>2. QED
  BY RoutingSafety, <1>1, PTL

(* A packet gets strictly closer with every hop that pkthandler makes it    *)
(* take, although the tables change while it travels.                       *)
THEOREM PacketsGetCloser == Spec => []PacketCloser
<1>1. RoutingInv => PacketCloser
  BY DEF RoutingInv
<1>2. QED
  BY RoutingSafety, <1>1, PTL

(* No vector of dvtable.c promises less than the shortest path costs.       *)
THEOREM NoVectorTooShort == Spec => []NeverTooShort
<1>1. RoutingInv => NeverTooShort
  <2> SUFFICES ASSUME RoutingInv, NEW n \in Nodes, NEW d \in Nodes
               PROVE  /\ Shortest[n][d] <= dv[n][d]
                      /\ \A m \in Nodes : Shortest[m][d] <= row[n][m][d]
                      /\ \A m \in Nodes : \A i \in DOMAIN link[n][m] :
                           Shortest[n][d] <= link[n][m][i][d]
    BY DEF NeverTooShort
  <2>1. \A k \in Nodes : /\ Shortest[k][d] <= dv[k][d]
                         /\ Shortest[k][d] \in Nat /\ dv[k][d] \in Nat
    BY RoutingAssumption DEF RoutingInv, AboveShortest, TypeOK, Vectors
  <2>2. ASSUME NEW m \in Nodes PROVE Shortest[m][d] <= row[n][m][d]
    <3>1. dv[m][d] <= row[n][m][d]
      BY DEF RoutingInv, KnownAbove
    <3>2. row[n][m][d] \in Nat
      BY RoutingAssumption DEF RoutingInv, TypeOK, Vectors
    <3>3. QED
      BY <2>1, <3>1, <3>2
  <2>3. ASSUME NEW m \in Nodes, NEW i \in DOMAIN link[n][m]
        PROVE  Shortest[n][d] <= link[n][m][i][d]
    <3>1. dv[n][d] <= link[n][m][i][d]
      BY DEF RoutingInv, KnownAbove
    <3>2. link[n][m][i] \in Vectors
      BY DEF RoutingInv, TypeOK
    <3>3. link[n][m][i][d] \in Nat
      BY <3>2, RoutingAssumption DEF Vectors
    <3>4. QED
      BY <2>1, <3>1, <3>3
  <2>4. QED
    BY <2>1, <2>2, <2>3
<1>2. QED
  BY RoutingSafety, <1>1, PTL

(* A set of numbers that is not empty has a least one. *)
LEMMA LeastNumber ==
  ASSUME NEW T \in SUBSET Nat, T # {}
  PROVE  \E x \in T : \A y \in T : x <= y
<1>1. PICK x \in T : \A y \in T : <<y, x>> \notin OpToRel(<, Nat)
  BY NatLessThanWellFounded, WFMin, Zenon
<1>2. ASSUME NEW y \in T PROVE x <= y
  <2>1. x \in Nat /\ y \in Nat
    OBVIOUS
  <2>2. ~ (y < x)
    BY <1>1, <2>1 DEF OpToRel
  <2>3. QED
    BY <2>1, <2>2
<1>3. QED
  BY <1>2

(* The routing tables of settled nodes never make a loop, however the       *)
(* vectors from which pkthandler computes them are delayed: among the nodes *)
(* of a loop one is the closest, and its next hop is closer still.          *)
THEOREM RoutesAreLoopFree == Spec => []LoopFree
<1>1. RoutingInv => LoopFree
  <2> SUFFICES ASSUME RoutingInv, NEW d \in Nodes,
                      NEW S \in SUBSET {n \in Nodes \ {d} : pending[n] # d},
                      S # {}
               PROVE  \E n \in S : nextHop[n][d] \notin S
    BY DEF LoopFree
  <2> DEFINE T == {dv[n][d] : n \in S}
  <2>1. \A n \in Nodes : dv[n][d] \in Nat
    BY RoutingAssumption DEF RoutingInv, TypeOK, Vectors
  <2>2. T \in SUBSET Nat /\ T # {}
    BY <2>1
  <2>3. PICK x \in T : \A y \in T : x <= y
    BY <2>2, LeastNumber
  <2>4. PICK n \in S : dv[n][d] = x
    BY <2>3
  <2>5. SUFFICES ASSUME nextHop[n][d] \in S PROVE FALSE
    BY <2>4
  <2> DEFINE m == nextHop[n][d]
  <2>6. n \in Nodes /\ m \in Nodes /\ pending[n] # d
    BY <2>5
  <2>7. m # None /\ m # n
    BY <2>6, RoutingAssumption DEF RoutingInv, HopElsewhere
  <2>8. dv[m][d] + LinkCost[n][m] <= dv[n][d]
    BY <2>6, <2>7 DEF RoutingInv, NextHopCloser
  <2>9. LinkCost[n][m] \in Nat /\ LinkCost[n][m] > 0
    BY <2>6, <2>7, RoutingAssumption
  <2>10. dv[n][d] <= dv[m][d]
    BY <2>3, <2>4, <2>5
  <2>11. QED
    BY <2>1, <2>6, <2>8, <2>9, <2>10
<1>2. QED
  BY RoutingSafety, <1>1, PTL
=============================================================================
