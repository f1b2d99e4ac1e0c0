--------------------------- MODULE OverlayProofs ---------------------------
(***************************************************************************)
(* Overlay for every set of nodes, neighbour tables, bounds and order of   *)
(* starts: the types, that the neighbours have found each other, who reads *)
(* a connection that is full, and that the whole implements Links.         *)
(***************************************************************************)
EXTENDS Overlay, PickingProofs, TLAPS, FiniteSetTheorems, SequenceTheorems,
        WellFoundedInduction

(* Those with larger IDs that have connected to m, or will never.           *)
Came(m) == {n \in Larger(m) : m \in conn[n] \/ ~Alive(n)}

Quiet == inTime /\ AllAlive

(* The connections: who has one has it at both ends, or still in the        *)
(* backlog; and waitNbrs, which only counts, has counted each node once.    *)
StartInv ==
  /\ \A n \in Nodes : conn[n] \subseteq Nbrs(n)
  /\ \A n \in Nodes : ~Alive(n) => conn[n] = {}
  /\ \A n \in Nodes : Range(backlog[n]) \subseteq Larger(n)
  /\ \A n, m \in Nodes :
       Alive(m) /\ m \in conn[n] => n \in conn[m] \/ n \in Range(backlog[m])
  /\ \A n, m \in Nodes :
       Alive(n) /\ Alive(m) /\ n \in Range(backlog[m]) => m \in conn[n]
  /\ \A m \in Nodes :
       Alive(m) => accepted[m] + Len(backlog[m]) <= Cardinality(Came(m))
  /\ \A n \in Nodes : Up(n) => AllAccepted(n)

(* As long as all are alive and started in time no connect has failed.      *)
QuietInv ==
  Quiet =>
    /\ \A n, m \in Nodes :
         main[n] \in {"connecting", "joining", "up"} => main[m] # "off"
    /\ \A n \in Nodes :
         main[n] \in {"joining", "up"} => Smaller(n) \subseteq conn[n]

(* A connection with packets on it, or at whose other end there is somebody *)
(* to put some there, has its listener.                                     *)
RelayInv ==
  /\ \A n, m \in Nodes : sock[n][m] # <<>> => n \in Nbrs(m)
  /\ \A n, m \in Nodes :
       Up(m) /\ snp[m] # "gone" /\ (sock[n][m] # <<>> \/ n \in conn[m])
         => n \in listening[m]

----------------------------------------------------------------------------
(* Types *)

(* The neighbours of a node are nodes, a finite number of them.             *)
LEMMA NbrsAreNodes ==
  \A n \in Nodes : /\ Nbrs(n) \subseteq Nodes /\ IsFiniteSet(Larger(n))
                   /\ Smaller(n) \subseteq Nbrs(n)
                   /\ Larger(n) \subseteq Nbrs(n)
                   /\ Nbrs(n) = Smaller(n) \cup Larger(n)
                   /\ Table[n] \in Seq(Nodes) /\ Table[n] # <<>>
<1> SUFFICES ASSUME NEW n \in Nodes
             PROVE  /\ Nbrs(n) \subseteq Nodes /\ IsFiniteSet(Larger(n))
                    /\ Smaller(n) \subseteq Nbrs(n)
                    /\ Larger(n) \subseteq Nbrs(n)
                    /\ Nbrs(n) = Smaller(n) \cup Larger(n)
                    /\ Table[n] \in Seq(Nodes) /\ Table[n] # <<>>
  OBVIOUS
<1>1. Table[n] \in Seq(Nodes) /\ Table[n] # <<>>
  BY OverlayAssumption
<1>2. Nbrs(n) \subseteq Nodes
  BY <1>1 DEF Nbrs, Range
<1>3. Smaller(n) \subseteq Nbrs(n) /\ Larger(n) \subseteq Nbrs(n)
  BY DEF Smaller, Larger
<1>4. IsFiniteSet(Larger(n))
  BY <1>2, <1>3, FS_Subset, OverlayAssumption
<1>5. \A m \in Nbrs(n) : m # n /\ m \in Nat /\ n \in Nat
  BY <1>2, OverlayAssumption
<1>6. Nbrs(n) = Smaller(n) \cup Larger(n)
  BY <1>5 DEF Smaller, Larger
<1> QED
  BY <1>1, <1>2, <1>3, <1>4, <1>6

(* A set of numbers that is not empty has a least one. *)
LEMMA LeastPosition ==
  ASSUME NEW T \in SUBSET Nat, T # {}
  PROVE  \E x \in T : \A y \in T : x <= y
<1>1. PICK x \in T : \A y \in T : <<y, x>> \notin OpToRel(<, Nat)
  BY NatLessThanWellFounded, WFMin, Zenon
<1>2. ASSUME NEW y \in T PROVE x <= y
  <2>1. x \in Nat /\ y \in Nat
    OBVIOUS
  <2>2. ~ (y < x)
    BY <1>1, <2>1 DEF OpToRel
  <2> QED
    BY <2>1, <2>2
<1> QED
  BY <1>2

(* connectNbrs, as long as it is not at its end, goes on with a neighbour   *)
(* that is smaller and not connected.                                       *)
LEMMA NextIsMissing ==
  ASSUME NEW n \in Nodes, Missing(n) # {}
  PROVE  NextToConnect(n) \in Smaller(n) \ conn[n]
<1> DEFINE least == CHOOSE i \in Missing(n) : \A j \in Missing(n) : i <= j
<1>1. Missing(n) \subseteq Nat
  BY NbrsAreNodes DEF Missing
<1>2. \E i \in Missing(n) : \A j \in Missing(n) : i <= j
  BY <1>1, LeastPosition
<1>3. least \in Missing(n)
  BY <1>2
<1> QED
  BY <1>3 DEF NextToConnect, Missing

(* One step of one thread or process; the steps of a node that dies come    *)
(* first, because three actions may end so.                                 *)
LEMMA InitTypes == Init => TypeOK
  BY DEF Init, TypeOK

LEMMA DieTypes ==
  ASSUME TypeOK, NEW n \in Nodes, Die(n)
  PROVE  TypeOK'
BY DEF TypeOK, Die

LEMMA StartTypes ==
  ASSUME TypeOK, NEW n \in Nodes, Starting(n)
  PROVE  TypeOK'
<1>1. CASE Start(n)
  BY <1>1 DEF Start, TypeOK, relayVars
<1>2. CASE Wake(n)
  BY <1>2 DEF Wake, TypeOK, relayVars
<1>3. CASE Connect(n)
  <2> DEFINE m == NextToConnect(n)
  <2>1. m \in Nodes
    BY <1>3, NextIsMissing, NbrsAreNodes DEF Connect
  <2>2. backlog' \in [Nodes -> Seq(Nodes)]
    <3> Append(backlog[m], n) \in Seq(Nodes)
      BY <2>1 DEF TypeOK
    <3> QED
      BY <1>3, <2>1 DEF Connect, TypeOK
  <2>3. conn' \in [Nodes -> SUBSET Nodes]
    BY <1>3, <2>1 DEF Connect, TypeOK
  <2> QED
    BY <1>3, <2>2, <2>3 DEF Connect, TypeOK, relayVars
<1>4. CASE ConnectNbrsReturns(n)
  BY <1>4 DEF ConnectNbrsReturns, TypeOK, relayVars
<1>5. CASE Accept(n)
  <2>1. Head(backlog[n]) \in Nodes /\ Tail(backlog[n]) \in Seq(Nodes)
    BY <1>5 DEF Accept, TypeOK
  <2>2. {Head(backlog[n])} \cap Nbrs(n) \subseteq Nodes
    BY NbrsAreNodes
  <2>3. /\ backlog' \in [Nodes -> Seq(Nodes)]
        /\ accepted' \in [Nodes -> Nat]
        /\ conn' \in [Nodes -> SUBSET Nodes]
    <3>1. backlog' \in [Nodes -> Seq(Nodes)]
      <4>1. backlog' = [backlog EXCEPT ![n] = Tail(backlog[n])]
        BY <1>5 DEF Accept
      <4>2. backlog \in [Nodes -> Seq(Nodes)]
        BY DEF TypeOK
      <4> QED
        BY <2>1, <4>1, <4>2
    <3>2. accepted' \in [Nodes -> Nat]
      <4>1. accepted' = [accepted EXCEPT ![n] = accepted[n] + 1]
        BY <1>5 DEF Accept
      <4>2. accepted \in [Nodes -> Nat]
        BY DEF TypeOK
      <4> QED
        BY <4>1, <4>2
    <3>3. conn[n] \cup ({Head(backlog[n])} \cap Nbrs(n)) \in SUBSET Nodes
      BY <2>2 DEF TypeOK
    <3>4. conn' \in [Nodes -> SUBSET Nodes]
      BY <1>5, <3>3 DEF Accept, TypeOK
    <3> QED
      BY <3>1, <3>2, <3>4
  <2>4. UNCHANGED <<inTime, main, relayVars>>
    BY <1>5 DEF Accept
  <2> QED
    BY <2>3, <2>4 DEF TypeOK, relayVars
<1>6. CASE Join(n)
  BY <1>6, NbrsAreNodes DEF Join, StartThreads, TypeOK
<1> QED
  BY <1>1, <1>2, <1>3, <1>4, <1>5, <1>6 DEF Starting

LEMMA SnpTypes ==
  ASSUME TypeOK, NEW n \in Nodes,
         SnpConnect(n) \/ SnpHand(n) \/ SnpTake(n) \/ SnpStop(n)
  PROVE  TypeOK'
<1>1. CASE SnpConnect(n)
  BY <1>1 DEF SnpConnect, TypeOK, startVars
<1>2. CASE SnpHand(n)
  <2>1. PICK to \in {<<m>> : m \in Nbrs(n)} \cup {Table[n]} :
          fromSnp' = [fromSnp EXCEPT ![n] =
            Append(@, [pkt |-> [from |-> n, no |-> handed[n] + 1],
                       left |-> to])]
    BY <1>2 DEF SnpHand
  <2>2. to \in Seq(Nodes) \ {<<>>}
    <3>1. CASE to = Table[n]
      BY <3>1, NbrsAreNodes
    <3>2. ASSUME NEW m \in Nbrs(n), to = <<m>>
          PROVE  to \in Seq(Nodes) \ {<<>>}
      BY <3>2, NbrsAreNodes
    <3> QED
      BY <3>1, <3>2
  <2>3. [from |-> n, no |-> handed[n] + 1] \in Packets
    <3>1. handed[n] + 1 \in 1 .. MaxPackets[n]
      <4>1. handed[n] < MaxPackets[n] /\ handed[n] \in Nat
        BY <1>2 DEF SnpHand, TypeOK
      <4>2. MaxPackets[n] \in Nat
        BY OverlayAssumption
      <4> QED
        BY <4>1, <4>2
    <3> QED
      BY <3>1 DEF Packets
  <2>4. [pkt |-> [from |-> n, no |-> handed[n] + 1], left |-> to] \in Jobs
    BY <2>2, <2>3 DEF Jobs
  <2>5. fromSnp' \in [Nodes -> Seq(Jobs)]
    BY <2>1, <2>4 DEF TypeOK
  <2> QED
    BY <1>2, <2>5 DEF SnpHand, TypeOK, startVars
<1>3. CASE SnpTake(n)
  <2>1. Tail(toSnp[n]) \in Seq(Packets)
    BY <1>3 DEF SnpTake, TypeOK
  <2> QED
    BY <1>3, <2>1 DEF SnpTake, TypeOK, startVars
<1>4. CASE SnpStop(n)
  BY <1>4 DEF SnpStop, TypeOK, startVars
<1> QED
  BY <1>1, <1>2, <1>3, <1>4

LEMMA WaitNetworkTypes ==
  ASSUME TypeOK, NEW n \in Nodes, WaitNetwork(n)
  PROVE  TypeOK'
<1>1. CASE GetPacket(n)
  <2>1. Head(fromSnp[n]) \in Jobs /\ Tail(fromSnp[n]) \in Seq(Jobs)
    BY <1>1 DEF GetPacket, TypeOK
  <2> QED
    BY <1>1, <2>1 DEF GetPacket, TypeOK, startVars
<1>2. CASE SendPacket(n)
  <2> DEFINE m == Head(sending[n].left)
  <2>1. /\ sending[n] \in Jobs /\ sending[n].pkt \in Packets
        /\ m \in Nodes /\ Tail(sending[n].left) \in Seq(Nodes)
    <3>1. sending[n] \in Jobs
      BY <1>2 DEF SendPacket, TypeOK
    <3>2. sending[n].pkt \in Packets /\ sending[n].left \in Seq(Nodes) \ {<<>>}
      BY <3>1 DEF Jobs
    <3> QED
      BY <3>1, <3>2
  <2>2. SendingRest(n) \in Jobs \cup {None}
    BY <2>1 DEF SendingRest, Jobs
  <2>3. CASE /\ sock' = [sock EXCEPT ![n][m] = Append(@, sending[n].pkt)]
             /\ sending' = [sending EXCEPT ![n] = SendingRest(n)]
             /\ UNCHANGED <<startVars, listening, held, snp, fromSnp, toSnp,
                            handed>>
    <3> Append(sock[n][m], sending[n].pkt) \in Seq(Packets)
      <4> sock[n][m] \in Seq(Packets)
        BY <2>1 DEF TypeOK
      <4> QED
        BY <2>1
    <3> QED
      BY <2>1, <2>2, <2>3 DEF TypeOK, startVars
  <2>4. CASE /\ sending' = [sending EXCEPT ![n] = SendingRest(n)]
             /\ UNCHANGED <<startVars, listening, held, sock, snp, fromSnp,
                            toSnp, handed>>
    BY <2>2, <2>4 DEF TypeOK, startVars
  <2>5. CASE Die(n)
    BY <2>5, DieTypes
  <2> QED
    BY <1>2, <2>3, <2>4, <2>5 DEF SendPacket
<1>3. CASE WaitNetworkEnds(n)
  BY <1>3 DEF WaitNetworkEnds, TypeOK, startVars
<1> QED
  BY <1>1, <1>2, <1>3 DEF WaitNetwork

(* What Receive does to the types. *)
LEMMA ReceiveTypes ==
  ASSUME TypeOK, NEW n \in Nodes, NEW m \in Nodes, Receive(n, m)
  PROVE  /\ Head(sock[m][n]) \in Packets
         /\ sock' \in [Nodes -> [Nodes -> Seq(Packets)]]
<1>1. Head(sock[m][n]) \in Packets /\ Tail(sock[m][n]) \in Seq(Packets)
  BY DEF Receive, TypeOK
<1> QED
  BY <1>1 DEF Receive, TypeOK

LEMMA ListenerTypes ==
  ASSUME TypeOK, NEW n \in Nodes, NEW m \in Nodes, Listener(n, m)
  PROVE  TypeOK'
<1>1. CASE ReceiveEarly(n, m)
  BY <1>1, ReceiveTypes DEF ReceiveEarly, Receive, TypeOK, startVars
<1>2. CASE ReceivePacket(n, m)
  BY <1>2, ReceiveTypes DEF ReceivePacket, Receive, TypeOK, startVars
<1>3. CASE ReceiveLate(n, m)
  BY <1>3, ReceiveTypes DEF ReceiveLate, Receive, TypeOK, startVars
<1>4. CASE Forward(n, m)
  <2>1. CASE /\ toSnp' = [toSnp EXCEPT ![n] = Append(@, held[n][m])]
             /\ held' = [held EXCEPT ![n][m] = None]
             /\ UNCHANGED <<startVars, listening, sock, snp, fromSnp,
                            sending, handed>>
    <3> held[n][m] \in Packets /\ Append(toSnp[n], held[n][m]) \in Seq(Packets)
      BY <1>4 DEF Forward, TypeOK
    <3> QED
      BY <2>1 DEF TypeOK, startVars
  <2>2. CASE /\ held' = [held EXCEPT ![n][m] = None]
             /\ UNCHANGED <<startVars, listening, sock, snp, fromSnp, toSnp,
                            sending, handed>>
    BY <2>2 DEF TypeOK, startVars
  <2>3. CASE Die(n)
    BY <2>3, DieTypes
  <2> QED
    BY <1>4, <2>1, <2>2, <2>3 DEF Forward
<1>5. CASE ListenerEnds(n, m)
  <2>1. /\ conn' \in [Nodes -> SUBSET Nodes]
        /\ listening' \in [Nodes -> SUBSET Nodes]
    BY <1>5 DEF ListenerEnds, TypeOK
  <2>2. sock' \in [Nodes -> [Nodes -> Seq(Packets)]]
    BY <1>5 DEF ListenerEnds, TypeOK
  <2> QED
    BY <1>5, <2>1, <2>2 DEF ListenerEnds, TypeOK
<1> QED
  BY <1>1, <1>2, <1>3, <1>4, <1>5 DEF Listener

LEMMA TypeStep ==
  ASSUME TypeOK, [Next]_vars
  PROVE  TypeOK'
<1>1. CASE UNCHANGED vars
  BY <1>1 DEF vars, startVars, relayVars, TypeOK
<1>2. CASE Next
  BY <1>2, StartTypes, WaitNetworkTypes, SnpTypes, ListenerTypes, DieTypes
     DEF Next, Interrupt
<1> QED
  BY <1>1, <1>2

(* Every variable of the overlay keeps its type, in every step of every     *)
(* thread of every ON and SNP process.                                      *)
THEOREM TypeCorrect == Spec => []TypeOK
<1> QED
  BY InitTypes, TypeStep, PTL DEF Spec

----------------------------------------------------------------------------
(* Finding each other *)

(* Who is in a queue that grows or shrinks by one.                          *)
LEMMA RangeOfQueue ==
  ASSUME NEW s \in Seq(Nodes)
  PROVE  /\ \A n \in Nodes : /\ Range(Append(s, n)) = Range(s) \cup {n}
                             /\ Len(Append(s, n)) = Len(s) + 1
         /\ s # <<>> => /\ Head(s) \in Range(s)
                        /\ Range(s) = {Head(s)} \cup Range(Tail(s))
                        /\ Len(Tail(s)) = Len(s) - 1
<1>1. ASSUME NEW n \in Nodes
      PROVE  /\ Range(Append(s, n)) = Range(s) \cup {n}
             /\ Len(Append(s, n)) = Len(s) + 1
  <2> DEFINE t == Append(s, n)
  <2>1. /\ DOMAIN s = 1 .. Len(s) /\ DOMAIN t = 1 .. Len(s) + 1
        /\ \A i \in 1 .. Len(s) : t[i] = s[i]
        /\ t[Len(s) + 1] = n /\ Len(s) \in Nat /\ Len(t) = Len(s) + 1
    BY AppendProperties
  <2>2. \A i : i \in 1 .. Len(s) + 1 <=> i \in 1 .. Len(s) \/ i = Len(s) + 1
    BY <2>1
  <2> QED
    BY <2>1, <2>2 DEF Range
<1>2. ASSUME s # <<>>
      PROVE  /\ Head(s) \in Range(s)
             /\ Range(s) = {Head(s)} \cup Range(Tail(s))
             /\ Len(Tail(s)) = Len(s) - 1
  <2>1. /\ Len(s) \in Nat /\ Len(s) > 0 /\ Head(s) = s[1]
        /\ DOMAIN s = 1 .. Len(s) /\ DOMAIN Tail(s) = 1 .. Len(s) - 1
        /\ \A i \in 1 .. Len(s) - 1 : Tail(s)[i] = s[i + 1]
        /\ Len(Tail(s)) = Len(s) - 1
    BY <1>2, HeadTailProperties
  <2>2. ASSUME NEW i \in 1 .. Len(s), i # 1
        PROVE  s[i] \in Range(Tail(s))
    <3>1. i - 1 \in 1 .. Len(s) - 1 /\ (i - 1) + 1 = i
      BY <2>1, <2>2
    <3> QED
      BY <2>1, <3>1 DEF Range
  <2>3. ASSUME NEW i \in 1 .. Len(s) - 1
        PROVE  Tail(s)[i] \in Range(s)
    <3>1. i + 1 \in 1 .. Len(s)
      BY <2>1
    <3> QED
      BY <2>1, <3>1 DEF Range
  <2>4. 1 \in DOMAIN s /\ Head(s) \in Range(s)
    BY <2>1 DEF Range
  <2>5. Range(s) \subseteq {Head(s)} \cup Range(Tail(s))
    BY <2>1, <2>2 DEF Range
  <2>6. Range(Tail(s)) \subseteq Range(s)
    BY <2>1, <2>3 DEF Range
  <2> QED
    BY <2>1, <2>4, <2>5, <2>6
<1> QED
  BY <1>1, <1>2

LEMMA CameIsFinite ==
  ASSUME NEW m \in Nodes
  PROVE  /\ IsFiniteSet(Came(m)) /\ Cardinality(Came(m)) \in Nat
         /\ Cardinality(Came(m)) <= Cardinality(Larger(m))
         /\ Cardinality(Larger(m)) \in Nat
         /\ Cardinality(Came(m)) = Cardinality(Larger(m))
              => Came(m) = Larger(m)
<1>1. Came(m) \in SUBSET Larger(m)
  BY DEF Came
<1> QED
  BY <1>1, NbrsAreNodes, FS_Subset, FS_CardinalityType

(* When more have come, there is room for as many accepts and more.         *)
LEMMA CameGrows ==
  ASSUME NEW m \in Nodes, Came(m) \subseteq Came(m)'
  PROVE  /\ Cardinality(Came(m)) \in Nat /\ Cardinality(Came(m)') \in Nat
         /\ Cardinality(Came(m)) <= Cardinality(Came(m)')
<1>1. IsFiniteSet(Came(m)')
  <2>1. Came(m)' \in SUBSET Larger(m)
    BY DEF Came
  <2> QED
    BY <2>1, NbrsAreNodes, FS_Subset
<1> QED
  BY <1>1, CameIsFinite, FS_Subset, FS_CardinalityType

LEMMA InitStart == Init => StartInv /\ QuietInv
<1> SUFFICES ASSUME Init PROVE StartInv /\ QuietInv
  OBVIOUS
<1>1. \A n \in Nodes : /\ main[n] = "off" /\ backlog[n] = <<>>
                       /\ conn[n] = {} /\ accepted[n] = 0
  BY DEF Init
<1>2. Range(<<>>) = {} /\ Len(<<>>) = 0
  BY DEF Range
<1>3. \A m \in Nodes : Cardinality(Came(m)) \in Nat
  BY CameIsFinite
<1>4. StartInv
  BY <1>1, <1>2, <1>3 DEF StartInv, Alive, Up
<1> QED
  BY <1>1, <1>4 DEF QuietInv

LEMMA DieStart ==
  ASSUME TypeOK, StartInv, NEW n \in Nodes, Die(n)
  PROVE  StartInv' /\ ~Quiet'
<1>1. /\ main' = [main EXCEPT ![n] = "dead"]
      /\ backlog' = [backlog EXCEPT ![n] = <<>>]
      /\ conn' = [conn EXCEPT ![n] = {}] /\ accepted' = accepted
  BY DEF Die
<1>2. /\ main'[n] = "dead" /\ backlog'[n] = <<>> /\ conn'[n] = {}
      /\ \A k \in Nodes \ {n} : /\ main'[k] = main[k] /\ conn'[k] = conn[k]
                                /\ backlog'[k] = backlog[k]
      /\ \A k \in Nodes : accepted[k] \in Nat /\ Len(backlog[k]) \in Nat
  BY <1>1 DEF TypeOK
<1>3. Range(<<>>) = {}
  BY DEF Range
<1>4. \A m \in Nodes : Came(m) \subseteq Came(m)'
  BY <1>2, NbrsAreNodes DEF Came, Alive, StartInv
<1>5. \A m \in Nodes : Alive(m)' =>
        accepted'[m] + Len(backlog'[m]) <= Cardinality(Came(m)')
  BY <1>1, <1>2, <1>4, CameGrows DEF StartInv, Alive
<1>6. \A k \in Nodes : Up(k)' => AllAccepted(k)'
  BY <1>1, <1>2 DEF StartInv, Up, AllAccepted
<1> QED
  BY <1>2, <1>3, <1>5, <1>6 DEF StartInv, Alive, Quiet, AllAlive

LEMMA EndStart ==
  ASSUME TypeOK, StartInv, QuietInv, NEW n \in Nodes, NEW m \in Nodes,
         ListenerEnds(n, m)
  PROVE  StartInv' /\ QuietInv'
<1>1. /\ main' = main /\ backlog' = backlog /\ accepted' = accepted
      /\ conn' = [conn EXCEPT ![n] = @ \ {m}] /\ inTime' = inTime
      /\ m \notin conn[n] \/ ~Alive(m)
  BY DEF ListenerEnds
<1>2. /\ conn'[n] = conn[n] \ {m}
      /\ \A k \in Nodes \ {n} : conn'[k] = conn[k]
      /\ \A k \in Nodes : accepted[k] \in Nat /\ Len(backlog[k]) \in Nat
  BY <1>1 DEF TypeOK
<1>3. \A k, j \in Nodes : Alive(j) => (j \in conn'[k] <=> j \in conn[k])
  BY <1>1, <1>2
<1>4. \A j \in Nodes : Alive(j) => Came(j) \subseteq Came(j)'
  BY <1>1, <1>3, NbrsAreNodes DEF Came, Alive
<1>5. \A j \in Nodes : Alive(j)' =>
        accepted'[j] + Len(backlog'[j]) <= Cardinality(Came(j)')
  BY <1>1, <1>2, <1>4, CameGrows DEF StartInv, Alive
<1>6. StartInv'
  BY <1>1, <1>2, <1>3, <1>5 DEF StartInv, Alive, Up, AllAccepted
<1>7. QuietInv'
  BY <1>1, <1>2, <1>3, NbrsAreNodes DEF QuietInv, Quiet, Alive, AllAlive
<1> QED
  BY <1>6, <1>7

(* Steps that change only where a main thread is.                           *)
LEMMA MainStart ==
  ASSUME TypeOK, StartInv, NEW n \in Nodes, NEW to, Alive(n), to # "dead",
         main' = [main EXCEPT ![n] = to], to = "up" => AllAccepted(n),
         UNCHANGED <<inTime, backlog, accepted, conn>>
  PROVE  /\ StartInv' /\ (Quiet' <=> Quiet)
         /\ main'[n] = to /\ \A k \in Nodes \ {n} : main'[k] = main[k]
<1>1. /\ main'[n] = to /\ \A k \in Nodes \ {n} : main'[k] = main[k]
      /\ \A k \in Nodes : Alive(k)' <=> Alive(k)
  BY DEF TypeOK, Alive
<1>2. \A m \in Nodes : Came(m)' = Came(m)
  BY <1>1, NbrsAreNodes DEF Came
<1>3. \A k \in Nodes : Up(k)' => AllAccepted(k)'
  BY <1>1 DEF Up, AllAccepted, StartInv
<1>4. StartInv'
  BY <1>1, <1>2, <1>3 DEF StartInv
<1> QED
  BY <1>1, <1>4 DEF Quiet, AllAlive

LEMMA ConnectStart ==
  ASSUME TypeOK, StartInv, QuietInv, NEW n \in Nodes, Connect(n)
  PROVE  StartInv' /\ QuietInv'
<1>0. PICK m \in Nodes : m = NextToConnect(n)
  BY NextIsMissing, NbrsAreNodes DEF Connect
<1>1. /\ m \in Smaller(n) /\ m \notin conn[n] /\ m \in Nodes /\ m # n
      /\ n \in Larger(m) /\ m \in Nbrs(n) /\ n \in Nbrs(m)
  <2>1. m \in Smaller(n) /\ m \notin conn[n]
    BY <1>0, NextIsMissing DEF Connect
  <2>2. m \in Nbrs(n) /\ m \in Nodes
    BY <2>1, NbrsAreNodes
  <2>3. n \in Nbrs(m) /\ m # n
    BY <2>2, OverlayAssumption
  <2> QED
    BY <2>1, <2>2, <2>3 DEF Smaller, Larger
<1>2. /\ main' = main /\ accepted' = accepted /\ inTime' = inTime
      /\ main[n] = "connecting" /\ Alive(n) /\ Alive(m)
      /\ backlog' = [backlog EXCEPT ![m] = Append(@, n)]
      /\ conn' = [conn EXCEPT ![n] = @ \cup {m}]
  BY <1>0 DEF Connect, Alive
<1>3. /\ backlog'[m] = Append(backlog[m], n)
      /\ \A k \in Nodes \ {m} : backlog'[k] = backlog[k]
      /\ conn'[n] = conn[n] \cup {m}
      /\ \A k \in Nodes \ {n} : conn'[k] = conn[k]
      /\ \A k \in Nodes : /\ accepted[k] \in Nat
                           /\ Len(backlog[k]) \in Nat
                           /\ backlog[k] \in Seq(Nodes)
  BY <1>1, <1>2 DEF TypeOK
<1>4. /\ Range(backlog'[m]) = Range(backlog[m]) \cup {n}
      /\ Len(backlog'[m]) = Len(backlog[m]) + 1
  BY <1>1, <1>3, RangeOfQueue
<1>5. /\ Came(m)' = Came(m) \cup {n} /\ n \notin Came(m)
      /\ \A k \in Nodes : Came(k) \subseteq Came(k)'
  <2>1. /\ m \in conn'[n] /\ m \notin conn[n] /\ Alive(n) /\ Alive(n)'
        /\ \A k \in Nodes : Alive(k)' <=> Alive(k)
        /\ \A k \in Nodes \ {n} : conn'[k] = conn[k]
        /\ \A k \in Nodes \ {m} : k \in conn'[n] <=> k \in conn[n]
    BY <1>1, <1>2, <1>3 DEF Alive
  <2>2. Larger(m) \subseteq Nodes
    BY <1>1, NbrsAreNodes
  <2>3. Came(m)' = Came(m) \cup {n} /\ n \notin Came(m)
    BY <1>1, <2>1, <2>2 DEF Came
  <2>4. ASSUME NEW k \in Nodes, NEW j \in Came(k)
        PROVE  j \in Came(k)'
    <3>1. j \in Larger(k) /\ j \in Nodes /\ (k \in conn[j] \/ ~Alive(j))
      BY NbrsAreNodes DEF Came
    <3>2. k \in conn'[j] \/ ~Alive(j)'
      BY <1>3, <2>1, <3>1
    <3> QED
      BY <3>1, <3>2 DEF Came
  <2> QED
    BY <2>3, <2>4
<1>6. Cardinality(Came(m)') = Cardinality(Came(m)) + 1
  BY <1>1, <1>5, CameIsFinite, FS_AddElement
<1>7. \A k \in Nodes : Alive(k)' =>
        accepted'[k] + Len(backlog'[k]) <= Cardinality(Came(k)')
  <2>2. ASSUME NEW k \in Nodes, Alive(k)'
        PROVE  accepted'[k] + Len(backlog'[k]) <= Cardinality(Came(k)')
    <3>1. accepted[k] + Len(backlog[k]) <= Cardinality(Came(k))
      BY <1>2, <2>2 DEF StartInv, Alive
    <3>2. CASE k = m
      <4>1. accepted'[m] = accepted[m] /\ accepted[m] \in Nat
        BY <1>1, <1>2, <1>3
      <4>2. Cardinality(Came(m)) \in Nat /\ Len(backlog[m]) \in Nat
        BY <1>1, <1>3, CameIsFinite
      <4>3. accepted[m] + Len(backlog[m]) <= Cardinality(Came(m))
        BY <3>1, <3>2
      <4>4. accepted'[m] + Len(backlog'[m]) <= Cardinality(Came(m)')
        BY <1>4, <1>6, <4>1, <4>2, <4>3
      <4> QED
        BY <3>2, <4>4
    <3>3. CASE k # m
      BY <1>2, <1>3, <1>5, <3>1, <3>3, CameGrows
    <3> QED
      BY <3>2, <3>3
  <2> QED
    BY <2>2
<1>8. StartInv'
  <2>1. \A k \in Nodes : conn'[k] \subseteq Nbrs(k)
    BY <1>1, <1>3 DEF StartInv
  <2>2. \A k \in Nodes : ~Alive(k)' => conn'[k] = {}
    BY <1>2, <1>3 DEF StartInv, Alive
  <2>3. \A k \in Nodes : Range(backlog'[k]) \subseteq Larger(k)
    BY <1>1, <1>3, <1>4 DEF StartInv
  <2>4. \A k, j \in Nodes :
          Alive(j)' /\ j \in conn'[k] =>
            k \in conn'[j] \/ k \in Range(backlog'[j])
    BY <1>2, <1>3, <1>4 DEF StartInv, Alive
  <2>5. \A k, j \in Nodes :
          Alive(k)' /\ Alive(j)' /\ k \in Range(backlog'[j]) => j \in conn'[k]
    BY <1>2, <1>3, <1>4 DEF StartInv, Alive
  <2>6. \A k \in Nodes : Up(k)' => AllAccepted(k)'
    BY <1>2 DEF Up, AllAccepted, StartInv
  <2> QED
    BY <1>7, <2>1, <2>2, <2>3, <2>4, <2>5, <2>6 DEF StartInv
<1>9. QuietInv'
  BY <1>2, <1>3, NbrsAreNodes DEF QuietInv, Quiet, Alive, AllAlive
<1> QED
  BY <1>8, <1>9

LEMMA AcceptStart ==
  ASSUME TypeOK, StartInv, QuietInv, NEW n \in Nodes, Accept(n)
  PROVE  StartInv' /\ QuietInv'
<1> DEFINE h == Head(backlog[n])
<1>1. /\ main' = main /\ inTime' = inTime /\ Alive(n) /\ ~AllAccepted(n)
      /\ backlog' = [backlog EXCEPT ![n] = Tail(@)]
      /\ accepted' = [accepted EXCEPT ![n] = @ + 1]
      /\ conn' = [conn EXCEPT ![n] = @ \cup ({h} \cap Nbrs(n))]
      /\ backlog[n] # <<>>
  BY DEF Accept, Alive
<1>2. \A k \in Nodes : /\ accepted[k] \in Nat /\ Len(backlog[k]) \in Nat
                       /\ backlog[k] \in Seq(Nodes)
  BY DEF TypeOK
<1>3. /\ h \in Range(backlog[n])
      /\ Range(backlog[n]) = {h} \cup Range(Tail(backlog[n]))
      /\ Len(Tail(backlog[n])) = Len(backlog[n]) - 1
  BY <1>1, <1>2, RangeOfQueue
<1>4. h \in Larger(n) /\ h \in Nbrs(n) /\ h \in Nodes
  BY <1>3, NbrsAreNodes DEF StartInv
<1>5. conn' = [conn EXCEPT ![n] = @ \cup {h}]
  BY <1>1, <1>4
<1>6. /\ backlog'[n] = Tail(backlog[n]) /\ conn'[n] = conn[n] \cup {h}
      /\ accepted'[n] = accepted[n] + 1
  BY <1>1, <1>5 DEF TypeOK
<1>7. \A k \in Nodes \ {n} : /\ backlog'[k] = backlog[k]
                             /\ conn'[k] = conn[k]
                             /\ accepted'[k] = accepted[k]
  BY <1>1, <1>5 DEF TypeOK
<1>8. \A k \in Nodes : Came(k) \subseteq Came(k)'
  BY <1>1, <1>6, <1>7, NbrsAreNodes DEF Came, Alive
<1>9. ASSUME NEW k \in Nodes, Alive(k)'
      PROVE  accepted'[k] + Len(backlog'[k]) <= Cardinality(Came(k)')
  <2>1. accepted[k] + Len(backlog[k]) <= Cardinality(Came(k))
    BY <1>1, <1>9 DEF StartInv, Alive
  <2>2. accepted'[k] + Len(backlog'[k]) = accepted[k] + Len(backlog[k])
    <3>1. CASE k = n
      <4>1. accepted'[n] + Len(backlog'[n]) = accepted[n] + Len(backlog[n])
        BY <1>2, <1>3, <1>6
      <4> QED
        BY <3>1, <4>1
    <3>2. CASE k # n
      BY <1>7, <3>2
    <3> QED
      BY <3>1, <3>2
  <2> QED
    BY <1>2, <1>8, <2>1, <2>2, CameGrows
<1>10. StartInv'
  <2>1. \A k \in Nodes : conn'[k] \subseteq Nbrs(k)
    BY <1>4, <1>6, <1>7 DEF StartInv
  <2>2. \A k \in Nodes : ~Alive(k)' => conn'[k] = {}
    BY <1>1, <1>6, <1>7 DEF StartInv, Alive
  <2>3. \A k \in Nodes : Range(backlog'[k]) \subseteq Larger(k)
    BY <1>3, <1>6, <1>7 DEF StartInv
  <2>4. \A k, j \in Nodes :
          Alive(j)' /\ j \in conn'[k] =>
            k \in conn'[j] \/ k \in Range(backlog'[j])
    BY <1>1, <1>3, <1>4, <1>6, <1>7 DEF StartInv, Alive
  <2>5. \A k, j \in Nodes :
          Alive(k)' /\ Alive(j)' /\ k \in Range(backlog'[j]) => j \in conn'[k]
    BY <1>1, <1>3, <1>6, <1>7 DEF StartInv, Alive
  <2>6. \A k \in Nodes : Up(k)' => AllAccepted(k)'
    BY <1>1, <1>7 DEF Up, AllAccepted, StartInv
  <2> QED
    BY <1>9, <2>1, <2>2, <2>3, <2>4, <2>5, <2>6 DEF StartInv
<1>11. QuietInv'
  BY <1>1, <1>6, <1>7, NbrsAreNodes DEF QuietInv, Quiet, Alive, AllAlive
<1> QED
  BY <1>10, <1>11

(* connectNbrs returns having connected to all smaller neighbours if all    *)
(* are there.                                                               *)
LEMMA ReturnStart ==
  ASSUME TypeOK, StartInv, QuietInv, NEW n \in Nodes, ConnectNbrsReturns(n)
  PROVE  StartInv' /\ QuietInv'
<1>1. /\ main[n] = "connecting" /\ Alive(n)
      /\ main' = [main EXCEPT ![n] = "joining"]
      /\ UNCHANGED <<inTime, backlog, accepted, conn>>
      /\ Missing(n) # {} => main[NextToConnect(n)] \in {"off", "dead"}
  BY DEF ConnectNbrsReturns, Alive
<1>2. /\ StartInv' /\ (Quiet' <=> Quiet)
      /\ main'[n] = "joining" /\ \A k \in Nodes \ {n} : main'[k] = main[k]
  BY <1>1, MainStart
<1>3. ASSUME Quiet PROVE Smaller(n) \subseteq conn[n]
  <2>1. Missing(n) = {}
    <3> SUFFICES ASSUME Missing(n) # {} PROVE FALSE
      OBVIOUS
    <3>1. NextToConnect(n) \in Nodes
      BY NextIsMissing, NbrsAreNodes
    <3> QED
      BY <1>1, <1>3, <3>1 DEF QuietInv, Quiet, Alive, AllAlive
  <2>2. ASSUME NEW m \in Smaller(n) PROVE m \in conn[n]
    <3>1. PICK i \in DOMAIN Table[n] : Table[n][i] = m
      BY NbrsAreNodes DEF Nbrs, Range
    <3> QED
      BY <2>1, <3>1 DEF Missing
  <2> QED
    BY <2>2
<1>4. QuietInv'
  BY <1>1, <1>2, <1>3 DEF QuietInv
<1> QED
  BY <1>2, <1>4

LEMMA StartingStart ==
  ASSUME TypeOK, StartInv, QuietInv, NEW n \in Nodes, Starting(n)
  PROVE  StartInv' /\ QuietInv'
<1>1. CASE Start(n)
  <2>1. /\ main[n] = "off" /\ Alive(n)
        /\ main' = [main EXCEPT ![n] = "sleeping"]
        /\ UNCHANGED <<inTime, backlog, accepted, conn>>
    BY <1>1 DEF Start, Alive
  <2>2. /\ StartInv' /\ (Quiet' <=> Quiet) /\ main'[n] = "sleeping"
        /\ \A k \in Nodes \ {n} : main'[k] = main[k]
    BY <2>1, MainStart
  <2> QED
    BY <2>1, <2>2 DEF QuietInv
<1>2. CASE Wake(n)
  <2>1. /\ main[n] = "sleeping" /\ Alive(n)
        /\ main' = [main EXCEPT ![n] = "connecting"]
        /\ UNCHANGED <<inTime, backlog, accepted, conn>>
        /\ inTime => \A m \in Nodes : main[m] # "off"
    BY <1>2 DEF Wake, Alive
  <2>2. /\ StartInv' /\ (Quiet' <=> Quiet) /\ main'[n] = "connecting"
        /\ \A k \in Nodes \ {n} : main'[k] = main[k]
    BY <2>1, MainStart
  <2> QED
    BY <2>1, <2>2 DEF QuietInv, Quiet, AllAlive
<1>3. CASE Join(n)
  <2>1. /\ main[n] = "joining" /\ Alive(n) /\ AllAccepted(n)
        /\ main' = [main EXCEPT ![n] = "up"]
        /\ UNCHANGED <<inTime, backlog, accepted, conn>>
    BY <1>3 DEF Join, StartThreads, Alive
  <2>2. /\ StartInv' /\ (Quiet' <=> Quiet) /\ main'[n] = "up"
        /\ \A k \in Nodes \ {n} : main'[k] = main[k]
    BY <2>1, MainStart
  <2> QED
    BY <2>1, <2>2 DEF QuietInv
<1> QED
  BY <1>1, <1>2, <1>3, ConnectStart, AcceptStart, ReturnStart DEF Starting

(* What a step can be, for the connections.                                 *)
LEMMA Kinds ==
  ASSUME [Next]_vars
  PROVE  \/ \E n \in Nodes : Starting(n) \/ Die(n)
         \/ \E n, m \in Nodes : ListenerEnds(n, m)
         \/ UNCHANGED startVars
<1>1. CASE UNCHANGED vars
  BY <1>1 DEF vars
<1>2. ASSUME NEW n \in Nodes, WaitNetwork(n)
      PROVE  Die(n) \/ UNCHANGED startVars
  BY <1>2 DEF WaitNetwork, GetPacket, SendPacket, WaitNetworkEnds
<1>3. ASSUME NEW n \in Nodes,
             SnpConnect(n) \/ SnpHand(n) \/ SnpTake(n) \/ SnpStop(n)
      PROVE  UNCHANGED startVars
  BY <1>3 DEF SnpConnect, SnpHand, SnpTake, SnpStop
<1>4. ASSUME NEW n \in Nodes, NEW m \in Nodes, Listener(n, m)
      PROVE  Die(n) \/ ListenerEnds(n, m) \/ UNCHANGED startVars
  BY <1>4 DEF Listener, ReceiveEarly, ReceivePacket, ReceiveLate, Receive,
              Forward
<1>5. CASE Next
  BY <1>2, <1>3, <1>4, <1>5 DEF Next, Interrupt
<1> QED
  BY <1>1, <1>5

LEMMA StepStart ==
  ASSUME TypeOK, StartInv, QuietInv, [Next]_vars
  PROVE  StartInv' /\ QuietInv'
<1>1. CASE UNCHANGED startVars
  <2>1. \A m \in Nodes : Came(m)' = Came(m)
    BY <1>1, NbrsAreNodes DEF Came, startVars, Alive
  <2>2. StartInv'
    BY <1>1, <2>1 DEF startVars, StartInv, Alive, Up, AllAccepted
  <2> QED
    BY <1>1, <2>2 DEF startVars, QuietInv, Quiet, Alive, AllAlive
<1>2. ASSUME NEW n \in Nodes, Die(n)
      PROVE  StartInv' /\ QuietInv'
  BY <1>2, DieStart DEF QuietInv
<1> QED
  BY <1>1, <1>2, Kinds, StartingStart, EndStart

(* When a node is up waitNbrs has accepted everybody who came, and all      *)
(* larger neighbours have come.                                             *)
LEMMA UpIsComplete ==
  ASSUME TypeOK, StartInv, NEW m \in Nodes, Up(m)
  PROVE  backlog[m] = <<>> /\ Came(m) = Larger(m)
<1>1. /\ accepted[m] = Cardinality(Larger(m))
      /\ accepted[m] + Len(backlog[m]) <= Cardinality(Came(m))
      /\ backlog[m] \in Seq(Nodes) /\ Len(backlog[m]) \in Nat
  BY DEF StartInv, Up, AllAccepted, Alive, TypeOK
<1>2. Len(backlog[m]) = 0 /\ Cardinality(Came(m)) = Cardinality(Larger(m))
  BY <1>1, CameIsFinite
<1> QED
  BY <1>1, <1>2, CameIsFinite, EmptySeq

----------------------------------------------------------------------------
(* Carrying packets *)

LEMMA InitRelay == Init => RelayInv
  BY DEF Init, RelayInv, Up

LEMMA StartingRelay ==
  ASSUME TypeOK, StartInv, RelayInv, NEW n \in Nodes, Starting(n)
  PROVE  RelayInv'
<1>1. CASE Join(n)
  <2>1. /\ UNCHANGED <<sock, snp, conn>>
        /\ listening'[n] = Nbrs(n)
        /\ \A k \in Nodes \ {n} : /\ listening'[k] = listening[k]
                                  /\ main'[k] = main[k]
    BY <1>1 DEF Join, StartThreads, TypeOK
  <2> QED
    BY <2>1 DEF RelayInv, StartInv, Up
<1>2. CASE ~Join(n)
  <2>1. /\ UNCHANGED <<sock, snp, listening>>
        /\ ~Up(n)' /\ \A k \in Nodes \ {n} : main'[k] = main[k]
        /\ \A k \in Nodes : Up(k) => conn'[k] = conn[k]
    <3>1. CASE Start(n)
      BY <3>1 DEF Start, relayVars, Up, TypeOK
    <3>2. CASE Wake(n)
      BY <3>2 DEF Wake, relayVars, Up, TypeOK
    <3>3. CASE ConnectNbrsReturns(n)
      BY <3>3 DEF ConnectNbrsReturns, relayVars, Up, TypeOK
    <3>4. CASE Connect(n)
      BY <3>4 DEF Connect, relayVars, Up, TypeOK
    <3>5. CASE Accept(n)
      <4>1. ~Up(n)
        BY <3>5 DEF Accept, StartInv
      <4> QED
        BY <3>5, <4>1 DEF Accept, relayVars, Up, TypeOK
    <3> QED
      BY <1>2, <3>1, <3>2, <3>3, <3>4, <3>5 DEF Starting
  <2> QED
    BY <2>1 DEF RelayInv, Up
<1> QED
  BY <1>1, <1>2

LEMMA DieRelay ==
  ASSUME TypeOK, RelayInv, NEW n \in Nodes, Die(n)
  PROVE  RelayInv'
<1>1. /\ main'[n] = "dead" /\ \A k \in Nodes \ {n} : main'[k] = main[k]
      /\ \A k \in Nodes \ {n} : /\ conn'[k] = conn[k]
                                /\ listening'[k] = listening[k]
                                /\ snp'[k] = snp[k]
  BY DEF Die, TypeOK
<1>2. \A m \in Nodes : /\ sock'[m][n] = <<>>
                       /\ \A k \in Nodes \ {n} : sock'[m][k] = sock[m][k]
  BY DEF Die, TypeOK
<1> QED
  BY <1>1, <1>2 DEF RelayInv, Up

(* Nobody starts to listen, connects or comes up, nothing is sent; who is   *)
(* gone stays so.                                                           *)
LEMMA LessRelay ==
  ASSUME RelayInv, UNCHANGED <<main, conn, listening>>,
         \A k \in Nodes : snp[k] = "gone" => snp'[k] = "gone",
         \A k, j \in Nodes : sock[k][j] = <<>> => sock'[k][j] = <<>>
  PROVE  RelayInv'
BY DEF RelayInv, Up

(* What is sent is sent to somebody who listens, or will.                   *)
LEMMA SendRelay ==
  ASSUME TypeOK, StartInv, RelayInv, NEW n \in Nodes, SendPacket(n)
  PROVE  RelayInv'
<1>1. PICK m : m = Head(sending[n].left)
  OBVIOUS
<1>2. CASE /\ m \in conn[n] /\ Alive(m)
           /\ sock' = [sock EXCEPT ![n][m] = Append(@, sending[n].pkt)]
           /\ UNCHANGED <<startVars, listening, held, snp, fromSnp, toSnp,
                          handed>>
  <2>1. m \in Nodes /\ n \in Nbrs(m)
    BY <1>2, NbrsAreNodes, OverlayAssumption DEF StartInv
  <2>2. \A k, j \in Nodes : k # n \/ j # m => sock'[k][j] = sock[k][j]
    BY <1>2 DEF TypeOK
  <2>3. Up(m) => n \in conn[m]
    <3>1. Up(m) => Range(backlog[m]) = {}
      BY <2>1, UpIsComplete DEF Range
    <3> QED
      BY <1>2, <2>1, <3>1 DEF StartInv
  <2> QED
    BY <1>2, <2>1, <2>2, <2>3 DEF RelayInv, Up, startVars
<1>3. CASE UNCHANGED <<startVars, listening, sock, snp>>
  BY <1>3 DEF RelayInv, Up, startVars
<1>4. CASE Die(n)
  BY <1>4, DieRelay
<1> QED
  BY <1>1, <1>2, <1>3, <1>4 DEF SendPacket

LEMMA WaitNetworkRelay ==
  ASSUME TypeOK, StartInv, RelayInv, NEW n \in Nodes, WaitNetwork(n)
  PROVE  RelayInv'
<1>1. CASE GetPacket(n)
  BY <1>1, LessRelay DEF GetPacket, startVars
<1>2. CASE WaitNetworkEnds(n)
  BY <1>2, LessRelay DEF WaitNetworkEnds, startVars, TypeOK
<1> QED
  BY <1>1, <1>2, SendRelay DEF WaitNetwork

LEMMA SnpRelay ==
  ASSUME TypeOK, RelayInv, NEW n \in Nodes,
         SnpConnect(n) \/ SnpHand(n) \/ SnpTake(n) \/ SnpStop(n)
  PROVE  RelayInv'
<1>1. CASE SnpConnect(n)
  BY <1>1, LessRelay DEF SnpConnect, startVars, TypeOK
<1>2. CASE SnpHand(n)
  BY <1>2, LessRelay DEF SnpHand, startVars
<1>3. CASE SnpTake(n)
  BY <1>3, LessRelay DEF SnpTake, startVars
<1>4. CASE SnpStop(n)
  BY <1>4, LessRelay DEF SnpStop, startVars, TypeOK
<1> QED
  BY <1>1, <1>2, <1>3, <1>4

LEMMA ReceiveShrinks ==
  ASSUME TypeOK, NEW n \in Nodes, NEW m \in Nodes, Receive(n, m)
  PROVE  \A k, j \in Nodes : sock[k][j] = <<>> => sock'[k][j] = <<>>
BY DEF Receive, TypeOK

LEMMA ListenerRelay ==
  ASSUME TypeOK, StartInv, RelayInv, NEW n \in Nodes, NEW m \in Nodes,
         Listener(n, m)
  PROVE  RelayInv'
<1>1. CASE ReceiveEarly(n, m)
  BY <1>1, ReceiveShrinks, LessRelay DEF ReceiveEarly, Receive, startVars
<1>2. CASE ReceivePacket(n, m)
  BY <1>2, ReceiveShrinks, LessRelay DEF ReceivePacket, Receive, startVars
<1>3. CASE ReceiveLate(n, m)
  <2>1. /\ snp[n] = "gone" /\ UNCHANGED <<main, conn, snp>>
        /\ \A k \in Nodes \ {n} : listening'[k] = listening[k]
    BY <1>3 DEF ReceiveLate, Receive, startVars, TypeOK
  <2>2. \A k, j \in Nodes : sock[k][j] = <<>> => sock'[k][j] = <<>>
    BY <1>3, ReceiveShrinks DEF ReceiveLate
  <2> QED
    BY <2>1, <2>2 DEF RelayInv, Up
<1>4. CASE Forward(n, m)
  <2>1. CASE UNCHANGED <<startVars, listening, sock, snp>>
    BY <2>1, LessRelay DEF startVars
  <2> QED
    BY <1>4, <2>1, DieRelay DEF Forward
<1>5. CASE ListenerEnds(n, m)
  <2>1. /\ UNCHANGED <<main, snp>> /\ sock'[m][n] = <<>>
        /\ conn'[n] = conn[n] \ {m} /\ listening'[n] = listening[n] \ {m}
        /\ \A k \in Nodes \ {n} : /\ conn'[k] = conn[k]
                                  /\ listening'[k] = listening[k]
    BY <1>5 DEF ListenerEnds, TypeOK
  <2>2. \A k, j \in Nodes : sock[k][j] = <<>> => sock'[k][j] = <<>>
    BY <1>5 DEF ListenerEnds, TypeOK
  <2> QED
    BY <2>1, <2>2 DEF RelayInv, Up
<1> QED
  BY <1>1, <1>2, <1>3, <1>4, <1>5 DEF Listener

OverlayInv == TypeOK /\ StartInv /\ QuietInv /\ RelayInv

(* The invariant of the overlay is inductive.                               *)
THEOREM OverlaySafety == Spec => []OverlayInv
<1>1. Init => OverlayInv
  BY InitTypes, InitStart, InitRelay DEF OverlayInv
<1>2. OverlayInv /\ [Next]_vars => OverlayInv'
  <2> SUFFICES ASSUME OverlayInv, [Next]_vars PROVE OverlayInv'
    OBVIOUS
  <2>1. TypeOK' /\ StartInv' /\ QuietInv'
    BY TypeStep, StepStart DEF OverlayInv
  <2>2. RelayInv'
    <3>1. CASE UNCHANGED vars
      BY <3>1 DEF vars, startVars, relayVars, OverlayInv, RelayInv, Up
    <3>2. CASE Next
      BY <3>2, StartingRelay, WaitNetworkRelay, SnpRelay, ListenerRelay,
         DieRelay DEF Next, Interrupt, OverlayInv
    <3> QED
      BY <3>1, <3>2
  <2> QED
    BY <2>1, <2>2 DEF OverlayInv
<1> QED
  BY <1>1, <1>2, PTL DEF Spec

(* For every network whose processes are started within the delay: as long  *)
(* as none has stopped, a node that starts its listeners is connected to    *)
(* all its neighbours, although no connect waits for the accept.            *)
THEOREM NeighborsAreLinked == Spec => []AllLinked
<1>1. OverlayInv => AllLinked
  <2> SUFFICES ASSUME OverlayInv, Quiet, NEW n \in Nodes, Up(n)
               PROVE  conn[n] = Nbrs(n)
    BY DEF AllLinked, Quiet, AllAlive
  <2>1. Smaller(n) \subseteq conn[n]
    BY DEF OverlayInv, QuietInv, Up
  <2>2. backlog[n] = <<>> /\ Came(n) = Larger(n)
    BY UpIsComplete DEF OverlayInv
  <2>3. ASSUME NEW m \in Larger(n) PROVE m \in conn[n]
    <3>1. m \in Nodes /\ n \in conn[m]
      BY <2>2, NbrsAreNodes DEF Came, Quiet, AllAlive
    <3>2. m \notin Range(backlog[n])
      BY <2>2 DEF Range
    <3> QED
      BY <3>1, <3>2 DEF OverlayInv, StartInv, Quiet, AllAlive
  <2>4. conn[n] \subseteq Nbrs(n)
    BY DEF OverlayInv, StartInv
  <2> QED
    BY <2>1, <2>3, <2>4, NbrsAreNodes
<1> QED
  BY <1>1, OverlaySafety, PTL

(* Whoever was started late or has stopped: the connection on which a node  *)
(* waits for room is read by a thread, unless the SNP process of the        *)
(* neighbour has gone or the neighbour is still waiting for its own         *)
(* neighbours; and if all are started in time and none has stopped, those   *)
(* have not given up on it.                                                 *)
THEOREM FullIsRead == Spec => []FullOnlyIfRead
<1>1. OverlayInv => FullOnlyIfRead
  <2> SUFFICES ASSUME OverlayInv, NEW n \in Nodes, NEW m \in Nodes,
                      Len(sock[n][m]) = SockCap, snp[m] # "gone"
               PROVE  \/ n \in listening[m]
                      \/ ~Up(m) /\ (Quiet => ~GivenUpOn(m))
    BY Zenon DEF FullOnlyIfRead, Quiet, AllAlive
  <2>1. sock[n][m] # <<>>
    BY OverlayAssumption
  <2>2. Up(m) => n \in listening[m]
    BY <2>1 DEF OverlayInv, RelayInv
  <2>3. ASSUME Quiet PROVE ~GivenUpOn(m)
    <3> SUFFICES ASSUME NEW k \in Larger(m),
                        main[k] \in {"joining", "up", "dead"}
                 PROVE  m \in conn[k]
      BY DEF GivenUpOn
    <3>1. k \in Nodes /\ m \in Smaller(k)
      BY NbrsAreNodes, OverlayAssumption DEF Larger, Smaller
    <3>2. main[k] \in {"joining", "up"}
      BY <2>3, <3>1 DEF Quiet, AllAlive, Alive
    <3> QED
      BY <2>3, <3>1, <3>2 DEF OverlayInv, QuietInv
  <2> QED
    BY <2>2, <2>3
<1> QED
  BY <1>1, OverlaySafety, PTL

----------------------------------------------------------------------------
(* The ways from node to node *)

(* A job of waitNetwork at n: a packet of n for some of its neighbours.     *)
GoesOut(n, job) ==
  /\ job.pkt.from = n
  /\ Range(job.left) \subseteq Nbrs(n) /\ IsInjective(job.left)

(* Packets are of the node they seem to come from, and nobody is sent one   *)
(* twice; an SNP process that is connected has a complete ON process.       *)
WayInv ==
  /\ \A n \in Nodes : snp[n] = "up" => Up(n)
  /\ \A n \in Nodes : sending[n] # None => GoesOut(n, sending[n])
  /\ \A n \in Nodes : \A i \in DOMAIN fromSnp[n] : GoesOut(n, fromSnp[n][i])
  /\ \A n, m \in Nodes : held[n][m] # None => held[n][m].from = m
  /\ \A n, m \in Nodes : \A i \in DOMAIN sock[m][n] : sock[m][n][i].from = m

(* What holds of all elements of a sequence when it grows and shrinks.      *)
LEMMA ElementsOf ==
  ASSUME NEW S, NEW s \in Seq(S)
  PROVE  /\ \A e \in S : \A i \in DOMAIN Append(s, e) :
              (i \in DOMAIN s /\ Append(s, e)[i] = s[i]) \/ Append(s, e)[i] = e
         /\ s # <<>> => /\ Head(s) = s[1] /\ 1 \in DOMAIN s
                        /\ \A i \in DOMAIN Tail(s) :
                             i + 1 \in DOMAIN s /\ Tail(s)[i] = s[i + 1]
<1>1. ASSUME NEW e \in S, NEW i \in DOMAIN Append(s, e)
      PROVE  (i \in DOMAIN s /\ Append(s, e)[i] = s[i]) \/ Append(s, e)[i] = e
  <2> DEFINE t == Append(s, e)
  <2>1. /\ DOMAIN t = 1 .. Len(s) + 1 /\ DOMAIN s = 1 .. Len(s)
        /\ \A k \in 1 .. Len(s) : t[k] = s[k]
        /\ t[Len(s) + 1] = e /\ Len(s) \in Nat
    BY AppendProperties
  <2> HIDE DEF t
  <2>2. i \in 1 .. Len(s) + 1
    BY <2>1 DEF t
  <2>3. i = Len(s) + 1 \/ i \in 1 .. Len(s)
    BY <2>1, <2>2
  <2> QED
    BY <2>1, <2>3 DEF t
<1>2. ASSUME s # <<>>
      PROVE  /\ Head(s) = s[1] /\ 1 \in DOMAIN s
             /\ \A i \in DOMAIN Tail(s) :
                  i + 1 \in DOMAIN s /\ Tail(s)[i] = s[i + 1]
  <2> DEFINE t == Tail(s)
  <2>1. /\ Len(s) \in Nat /\ Len(s) > 0 /\ Head(s) = s[1]
        /\ DOMAIN s = 1 .. Len(s) /\ DOMAIN t = 1 .. Len(s) - 1
        /\ \A i \in 1 .. Len(s) - 1 : t[i] = s[i + 1]
    BY <1>2, HeadTailProperties
  <2> HIDE DEF t
  <2>2. \A i \in DOMAIN t : i + 1 \in DOMAIN s /\ t[i] = s[i + 1]
    BY <2>1
  <2> QED
    BY <2>1, <2>2 DEF t
<1> QED
  BY <1>1, <1>2

(* What is left of the neighbours to send to.                               *)
LEMMA RestGoesOut ==
  ASSUME NEW n \in Nodes, NEW job \in Jobs, GoesOut(n, job)
  PROVE  LET rest == Tail(job.left)
         IN  /\ Head(job.left) \in Nbrs(n) /\ rest \in Seq(Nodes)
             /\ Range(rest) = Range(job.left) \ {Head(job.left)}
             /\ Head(job.left) \in Range(job.left)
             /\ GoesOut(n, [job EXCEPT !.left = rest])
<1> DEFINE left == job.left
           rest == Tail(left)
<1>1. left \in Seq(Nodes) /\ left # <<>> /\ job.pkt \in Packets
  BY DEF Jobs
<1>2. /\ Head(left) = left[1] /\ 1 \in DOMAIN left
      /\ \A i \in DOMAIN rest : i + 1 \in DOMAIN left /\ rest[i] = left[i + 1]
  BY <1>1, ElementsOf
<1>3. Head(left) \in Range(left) /\ Range(left) = {Head(left)} \cup Range(rest)
  BY <1>1, RangeOfQueue
<1>4. rest \in Seq(Nodes) /\ DOMAIN rest \subseteq Nat
  BY <1>1
<1>5. \A i, j \in DOMAIN left : left[i] = left[j] => i = j
  BY DEF GoesOut, IsInjective
<1>6. [job EXCEPT !.left = rest].left = rest
      /\ [job EXCEPT !.left = rest].pkt = job.pkt
  BY DEF Jobs
<1> HIDE DEF left, rest
<1>7. Head(left) \notin Range(rest)
  <2> SUFFICES ASSUME NEW i \in DOMAIN rest, rest[i] = Head(left) PROVE FALSE
    BY DEF Range
  <2>1. i + 1 = 1 /\ i \in Nat /\ i \in 1 .. Len(rest)
    BY <1>2, <1>4, <1>5
  <2> QED
    BY <2>1
<1>8. IsInjective(rest)
  <2> SUFFICES ASSUME NEW i \in DOMAIN rest, NEW j \in DOMAIN rest,
                      rest[i] = rest[j]
               PROVE  i = j
    BY DEF IsInjective
  <2>1. i + 1 = j + 1 /\ i \in Nat /\ j \in Nat
    BY <1>2, <1>4, <1>5
  <2> QED
    BY <2>1
<1>9. GoesOut(n, [job EXCEPT !.left = rest])
  BY <1>3, <1>6, <1>8 DEF GoesOut, left
<1> QED
  BY <1>3, <1>4, <1>7, <1>9 DEF GoesOut, left, rest

LEMMA InitWay == Init => WayInv
  BY DEF Init, WayInv

LEMMA DieWay ==
  ASSUME TypeOK, WayInv, NEW n \in Nodes, Die(n)
  PROVE  WayInv'
<1>1. /\ snp'[n] = "gone" /\ sending'[n] = None /\ fromSnp'[n] = <<>>
      /\ \A m \in Nodes : held'[n][m] = None /\ sock'[m][n] = <<>>
      /\ \A k \in Nodes \ {n} :
           /\ main'[k] = main[k] /\ snp'[k] = snp[k]
           /\ sending'[k] = sending[k] /\ fromSnp'[k] = fromSnp[k]
           /\ held'[k] = held[k]
           /\ \A m \in Nodes : sock'[m][k] = sock[m][k]
  BY DEF Die, TypeOK
<1>2. \A k \in Nodes : snp'[k] = "up" => Up(k)'
  BY <1>1 DEF WayInv, Up
<1>3. \A k \in Nodes : sending'[k] # None => GoesOut(k, sending'[k])
  BY <1>1 DEF WayInv
<1>4. \A k \in Nodes : \A i \in DOMAIN fromSnp'[k] :
        GoesOut(k, fromSnp'[k][i])
  BY <1>1 DEF WayInv
<1>5. \A k, m \in Nodes : held'[k][m] # None => held'[k][m].from = m
  BY <1>1 DEF WayInv
<1>6. \A k, m \in Nodes : \A i \in DOMAIN sock'[m][k] : sock'[m][k][i].from = m
  BY <1>1 DEF WayInv
<1> QED
  BY <1>2, <1>3, <1>4, <1>5, <1>6 DEF WayInv, GoesOut

LEMMA StartingWay ==
  ASSUME TypeOK, StartInv, WayInv, NEW n \in Nodes, Starting(n)
  PROVE  WayInv'
<1>1. \A k \in Nodes : Up(k) => Up(k)'
  BY DEF Starting, Start, Wake, Connect, ConnectNbrsReturns, Accept, Join,
         StartThreads, Up, TypeOK
<1>2. UNCHANGED <<snp, sending, fromSnp, held, sock>>
  BY DEF Starting, Start, Wake, Connect, ConnectNbrsReturns, Accept, Join,
         StartThreads, relayVars
<1> QED
  BY <1>1, <1>2 DEF WayInv, GoesOut

LEMMA SnpWay ==
  ASSUME TypeOK, WayInv, NEW n \in Nodes,
         SnpConnect(n) \/ SnpHand(n) \/ SnpTake(n) \/ SnpStop(n)
  PROVE  WayInv'
<1>1. CASE SnpConnect(n)
  BY <1>1 DEF SnpConnect, startVars, WayInv, Up, GoesOut, TypeOK
<1>2. CASE SnpHand(n)
  <2>1. PICK to \in {<<m>> : m \in Nbrs(n)} \cup {Table[n]} :
          fromSnp' = [fromSnp EXCEPT ![n] =
            Append(@, [pkt |-> [from |-> n, no |-> handed[n] + 1],
                       left |-> to])]
    BY <1>2 DEF SnpHand
  <2> DEFINE job == [pkt |-> [from |-> n, no |-> handed[n] + 1], left |-> to]
  <2>2. GoesOut(n, job)
    <3>1. CASE to = Table[n]
      BY <3>1, OverlayAssumption DEF GoesOut, Nbrs
    <3>2. ASSUME NEW m \in Nbrs(n), to = <<m>>
          PROVE  GoesOut(n, job)
      BY <3>2 DEF GoesOut, Range, IsInjective
    <3> QED
      BY <3>1, <3>2
  <2> HIDE DEF job
  <2>3. /\ fromSnp'[n] = Append(fromSnp[n], job)
        /\ \A k \in Nodes \ {n} : fromSnp'[k] = fromSnp[k]
        /\ fromSnp'[n] \in Seq(Jobs) /\ fromSnp[n] \in Seq(Jobs)
    BY <1>2, <2>1, SnpTypes DEF TypeOK, job
  <2>4. UNCHANGED <<main, snp, sending, held, sock>>
    BY <1>2 DEF SnpHand, startVars
  <2>5. ASSUME NEW i \in DOMAIN fromSnp'[n] PROVE GoesOut(n, fromSnp'[n][i])
    <3>1. job \in Jobs
      <4>1. job = fromSnp'[n][Len(fromSnp[n]) + 1]
        BY <2>3
      <4> QED
        BY <2>3, <4>1
    <3>2. \/ i \in DOMAIN fromSnp[n] /\ fromSnp'[n][i] = fromSnp[n][i]
          \/ fromSnp'[n][i] = job
      BY <2>3, <2>5, <3>1, ElementsOf
    <3> QED
      BY <2>2, <3>2 DEF WayInv
  <2>6. \A k \in Nodes : \A i \in DOMAIN fromSnp'[k] :
          GoesOut(k, fromSnp'[k][i])
    BY <2>3, <2>5 DEF WayInv
  <2> QED
    BY <2>4, <2>6 DEF WayInv, Up, GoesOut
<1>3. CASE SnpTake(n)
  BY <1>3 DEF SnpTake, startVars, WayInv, Up, GoesOut
<1>4. CASE SnpStop(n)
  BY <1>4 DEF SnpStop, startVars, WayInv, Up, GoesOut, TypeOK
<1> QED
  BY <1>1, <1>2, <1>3, <1>4

LEMMA WaitNetworkWay ==
  ASSUME TypeOK, WayInv, NEW n \in Nodes, WaitNetwork(n)
  PROVE  WayInv'
<1>1. CASE GetPacket(n)
  <2>1. /\ fromSnp[n] \in Seq(Jobs) /\ fromSnp[n] # <<>>
        /\ sending' = [sending EXCEPT ![n] = Head(fromSnp[n])]
        /\ fromSnp'[n] = Tail(fromSnp[n])
        /\ \A k \in Nodes \ {n} : fromSnp'[k] = fromSnp[k]
        /\ UNCHANGED <<main, snp, held, sock>>
    BY <1>1 DEF GetPacket, TypeOK, startVars
  <2>2. /\ Head(fromSnp[n]) = fromSnp[n][1] /\ 1 \in DOMAIN fromSnp[n]
        /\ \A i \in DOMAIN fromSnp'[n] :
             i + 1 \in DOMAIN fromSnp[n] /\ fromSnp'[n][i] = fromSnp[n][i + 1]
    BY <2>1, ElementsOf
  <2>3. sending'[n] = fromSnp[n][1]
        /\ \A k \in Nodes \ {n} : sending'[k] = sending[k]
    BY <2>1, <2>2 DEF TypeOK
  <2>4. \A k \in Nodes : sending'[k] # None => GoesOut(k, sending'[k])
    BY <2>2, <2>3 DEF WayInv
  <2>5. ASSUME NEW k \in Nodes, NEW i \in DOMAIN fromSnp'[k]
        PROVE  GoesOut(k, fromSnp'[k][i])
    <3>1. CASE k = n
      <4>1. GoesOut(n, fromSnp[n][i + 1])
        BY <2>2, <2>5, <3>1 DEF WayInv
      <4> QED
        BY <2>2, <2>5, <3>1, <4>1
    <3>2. CASE k # n
      BY <2>1, <2>5, <3>2 DEF WayInv
    <3> QED
      BY <3>1, <3>2
  <2> QED
    BY <2>1, <2>4, <2>5 DEF WayInv, Up, GoesOut
<1>2. CASE SendPacket(n)
  <2> DEFINE m == Head(sending[n].left)
  <2>1. sending[n] \in Jobs /\ GoesOut(n, sending[n])
    BY <1>2 DEF SendPacket, TypeOK, WayInv
  <2>2. m \in Nodes /\ sending[n].pkt \in Packets /\ sending[n].pkt.from = n
    BY <2>1, RestGoesOut, NbrsAreNodes DEF GoesOut, Jobs
  <2>3. SendingRest(n) # None => GoesOut(n, SendingRest(n))
    BY <2>1, RestGoesOut DEF SendingRest
  <2>4. CASE sending' = [sending EXCEPT ![n] = SendingRest(n)]
               /\ UNCHANGED <<main, snp, fromSnp, held>>
    <3>1. \A k \in Nodes : sending'[k] # None => GoesOut(k, sending'[k])
      BY <2>3, <2>4 DEF TypeOK, WayInv
    <3>2. CASE sock' = [sock EXCEPT ![n][m] = Append(@, sending[n].pkt)]
      <4>1. /\ sock'[n][m] = Append(sock[n][m], sending[n].pkt)
            /\ \A k, j \in Nodes : k # n \/ j # m => sock'[k][j] = sock[k][j]
            /\ sock[n][m] \in Seq(Packets)
        <5> DEFINE k == m
        <5>1. /\ sock' = [sock EXCEPT ![n][k] = Append(@, sending[n].pkt)]
              /\ sock \in [Nodes -> [Nodes -> Seq(Packets)]] /\ k \in Nodes
          BY <2>2, <3>2 DEF TypeOK
        <5> HIDE DEF k
        <5>2. /\ sock'[n][k] = Append(sock[n][k], sending[n].pkt)
              /\ \A i, j \in Nodes : i # n \/ j # k => sock'[i][j] = sock[i][j]
              /\ sock[n][k] \in Seq(Packets)
          BY <5>1
        <5> QED
          BY <5>2 DEF k
      <4>2. ASSUME NEW i \in DOMAIN sock'[n][m]
            PROVE  sock'[n][m][i].from = n
        <5>1. \/ i \in DOMAIN sock[n][m] /\ sock'[n][m][i] = sock[n][m][i]
              \/ sock'[n][m][i] = sending[n].pkt
          <6> DEFINE q == sock[n][m]
                     r == sock'[n][m]
                     e == sending[n].pkt
          <6>1. /\ q \in Seq(Packets) /\ e \in Packets /\ r = Append(q, e)
                /\ i \in DOMAIN r
            BY <2>2, <4>1, <4>2
          <6> HIDE DEF q, r, e
          <6>2. (i \in DOMAIN q /\ r[i] = q[i]) \/ r[i] = e
            BY <6>1, ElementsOf
          <6> QED
            BY <6>2 DEF q, r, e
        <5> QED
          BY <2>2, <5>1 DEF WayInv
      <4>3. \A k, j \in Nodes : \A i \in DOMAIN sock'[j][k] :
              sock'[j][k][i].from = j
        BY <4>1, <4>2 DEF WayInv
      <4> QED
        BY <2>4, <3>1, <4>3 DEF WayInv, Up, GoesOut
    <3>3. CASE UNCHANGED sock
      BY <2>4, <3>1, <3>3 DEF WayInv, Up, GoesOut
    <3> QED
      BY <1>2, <2>4, <3>2, <3>3, DieWay DEF SendPacket
  <2> QED
    BY <1>2, <2>4, DieWay DEF SendPacket, startVars
<1>3. CASE WaitNetworkEnds(n)
  <2>1. /\ UNCHANGED <<main, sending, held, sock>>
        /\ fromSnp'[n] = <<>> /\ \A k \in Nodes \ {n} : fromSnp'[k] = fromSnp[k]
        /\ \A k \in Nodes : snp'[k] = "up" => snp[k] = "up"
    BY <1>3 DEF WaitNetworkEnds, startVars, TypeOK
  <2> QED
    BY <2>1 DEF WayInv, Up, GoesOut
<1> QED
  BY <1>1, <1>2, <1>3 DEF WaitNetwork

LEMMA ReceiveWay ==
  ASSUME TypeOK, WayInv, NEW n \in Nodes, NEW m \in Nodes, Receive(n, m)
  PROVE  /\ Head(sock[m][n]).from = m
         /\ \A k, j \in Nodes : \A i \in DOMAIN sock'[j][k] :
              sock'[j][k][i].from = j
<1>1. /\ sock[m][n] \in Seq(Packets) /\ sock[m][n] # <<>>
      /\ sock'[m][n] = Tail(sock[m][n])
      /\ \A k, j \in Nodes : k # n \/ j # m => sock'[j][k] = sock[j][k]
  BY DEF Receive, TypeOK
<1>2. /\ Head(sock[m][n]) = sock[m][n][1] /\ 1 \in DOMAIN sock[m][n]
      /\ \A i \in DOMAIN sock'[m][n] :
           i + 1 \in DOMAIN sock[m][n] /\ sock'[m][n][i] = sock[m][n][i + 1]
  BY <1>1, ElementsOf
<1>3. Head(sock[m][n]).from = m
  BY <1>2 DEF WayInv
<1>4. ASSUME NEW k \in Nodes, NEW j \in Nodes, NEW i \in DOMAIN sock'[j][k]
      PROVE  sock'[j][k][i].from = j
  <2>1. CASE k = n /\ j = m
    <3>1. sock[m][n][i + 1].from = m
      BY <1>2, <1>4, <2>1 DEF WayInv
    <3> QED
      BY <1>2, <1>4, <2>1, <3>1
  <2>2. CASE k # n \/ j # m
    BY <1>1, <1>4, <2>2 DEF WayInv
  <2> QED
    BY <2>1, <2>2
<1> QED
  BY <1>3, <1>4

LEMMA ListenerWay ==
  ASSUME TypeOK, WayInv, NEW n \in Nodes, NEW m \in Nodes, Listener(n, m)
  PROVE  WayInv'
<1>1. CASE Receive(n, m) /\ UNCHANGED held
  BY <1>1, ReceiveWay DEF Receive, startVars, WayInv, Up, GoesOut
<1>2. CASE ReceivePacket(n, m)
  <2>1. /\ UNCHANGED <<main, snp, sending, fromSnp>>
        /\ \A k, j \in Nodes :
             held'[k][j] = IF k = n /\ j = m THEN Head(sock[m][n]) ELSE held[k][j]
    BY <1>2 DEF ReceivePacket, Receive, startVars, TypeOK
  <2>2. /\ Head(sock[m][n]).from = m
        /\ \A k, j \in Nodes : \A i \in DOMAIN sock'[j][k] :
             sock'[j][k][i].from = j
    BY <1>2, ReceiveWay DEF ReceivePacket
  <2>3. \A k, j \in Nodes : held'[k][j] # None => held'[k][j].from = j
    BY <2>1, <2>2 DEF WayInv
  <2> QED
    BY <2>1, <2>2, <2>3 DEF WayInv, Up, GoesOut
<1>3. CASE held' = [held EXCEPT ![n][m] = None]
             /\ UNCHANGED <<main, sock, snp, sending, fromSnp>>
  <2>1. \A k, j \in Nodes : held'[k][j] # None => held'[k][j] = held[k][j]
    BY <1>3 DEF TypeOK
  <2> QED
    BY <1>3, <2>1 DEF WayInv, Up, GoesOut
<1>4. CASE ListenerEnds(n, m)
  <2>1. /\ UNCHANGED <<main, snp, sending, fromSnp, held>>
        /\ \A k, j \in Nodes : sock'[j][k] = <<>> \/ sock'[j][k] = sock[j][k]
    BY <1>4 DEF ListenerEnds, TypeOK
  <2>2. \A k, j \in Nodes : \A i \in DOMAIN sock'[j][k] :
          sock'[j][k][i].from = j
    BY <2>1 DEF WayInv
  <2> QED
    BY <2>1, <2>2 DEF WayInv, Up, GoesOut
<1>5. CASE ReceiveEarly(n, m) \/ ReceiveLate(n, m)
  BY <1>1, <1>5 DEF ReceiveEarly, ReceiveLate
<1>6. CASE Forward(n, m)
  BY <1>3, <1>6, DieWay DEF Forward, startVars
<1> QED
  BY <1>2, <1>4, <1>5, <1>6 DEF Listener

LEMMA StepWay ==
  ASSUME TypeOK, StartInv, WayInv, [Next]_vars
  PROVE  WayInv'
<1>1. CASE UNCHANGED vars
  BY <1>1 DEF vars, startVars, relayVars, WayInv, Up, GoesOut
<1>2. CASE Next
  BY <1>2, StartingWay, WaitNetworkWay, SnpWay, ListenerWay, DieWay
     DEF Next, Interrupt
<1> QED
  BY <1>1, <1>2

(* The parts of a way, as their sequences grow and shrink.                  *)
From(s, m) == Pick(s, {i \in DOMAIN s : s[i].from = m})
For(jobs, n) ==
  Pick(PacketsOf(jobs), {i \in DOMAIN jobs : n \in Range(jobs[i].left)})

LEMMA FromNothing == \A m : From(<<>>, m) = <<>>
<1> SUFFICES ASSUME NEW m PROVE From(<<>>, m) = <<>>
  OBVIOUS
<1>1. {i \in DOMAIN <<>> : <<>>[i].from = m} = {}
  OBVIOUS
<1> QED
  BY <1>1, PickNone DEF From

LEMMA FromGrows ==
  ASSUME NEW s \in Seq(Packets), NEW p \in Packets, NEW m
  PROVE  /\ From(s, m) \in Seq(Packets)
         /\ From(Append(s, p), m)
              = IF p.from = m THEN Append(From(s, m), p) ELSE From(s, m)
<1> DEFINE I == {i \in DOMAIN s : s[i].from = m}
           t == Append(s, p)
           K == {i \in DOMAIN t : t[i].from = m}
           n == Len(s) + 1
<1>1. /\ DOMAIN t = 1 .. n /\ DOMAIN s = 1 .. Len(s) /\ Len(s) \in Nat
      /\ t[n] = p /\ \A i \in 1 .. Len(s) : t[i] = s[i]
  BY AppendProperties
<1>2. \A i : i \in 1 .. n <=> i \in 1 .. Len(s) \/ i = n
  BY <1>1
<1> HIDE DEF t, n
<1>3. I \in SUBSET DOMAIN s /\ K = IF p.from = m THEN I \cup {n} ELSE I
  BY <1>1, <1>2
<1> HIDE DEF I, K
<1>4. Pick(s, I) \in Seq(Packets)
  BY <1>3, PickSeq
<1>5. Pick(t, I) = Pick(s, I) /\ Pick(t, I \cup {n}) = Append(Pick(s, I), p)
  BY <1>3, PickAppend DEF t, n
<1>6. Pick(t, K) = IF p.from = m THEN Append(Pick(s, I), p) ELSE Pick(s, I)
  BY <1>3, <1>5
<1> QED
  BY <1>4, <1>6 DEF From, I, K, t

LEMMA FromShrinks ==
  ASSUME NEW s \in Seq(Packets), s # <<>>, NEW m
  PROVE  /\ From(Tail(s), m) \in Seq(Packets)
         /\ From(s, m) = IF Head(s).from = m
                           THEN <<Head(s)>> \o From(Tail(s), m)
                           ELSE From(Tail(s), m)
<1> DEFINE I == {i \in DOMAIN s : s[i].from = m}
           t == Tail(s)
           J == {i \in DOMAIN t : t[i].from = m}
<1>1. /\ DOMAIN t = 1 .. Len(s) - 1 /\ DOMAIN s = 1 .. Len(s)
      /\ Len(s) \in Nat /\ Len(s) > 0 /\ Head(s) = s[1]
      /\ \A i \in DOMAIN t : t[i] = s[i + 1] /\ i + 1 \in DOMAIN s
  BY HeadTailProperties
<1> HIDE DEF t
<1>2. I \in SUBSET DOMAIN s /\ J = Before(I, Len(s) - 1)
  BY <1>1 DEF Before
<1>3. 1 \in I <=> Head(s).from = m
  BY <1>1
<1> HIDE DEF I, J
<1>4. /\ Pick(t, J) \in Seq(Packets)
      /\ Pick(s, I) = IF 1 \in I THEN <<Head(s)>> \o Pick(t, J) ELSE Pick(t, J)
  BY <1>2, PickTail DEF t
<1> QED
  BY <1>3, <1>4 DEF From, I, J, t

LEMMA Jobpackets ==
  ASSUME NEW jobs \in Seq(Jobs)
  PROVE  /\ PacketsOf(jobs) \in Seq(Packets)
         /\ Len(PacketsOf(jobs)) = Len(jobs)
         /\ DOMAIN PacketsOf(jobs) = DOMAIN jobs
         /\ \A j \in Jobs :
              PacketsOf(Append(jobs, j)) = Append(PacketsOf(jobs), j.pkt)
         /\ jobs # <<>> => /\ PacketsOf(jobs) # <<>>
                           /\ Head(PacketsOf(jobs)) = Head(jobs).pkt
                           /\ PacketsOf(Tail(jobs)) = Tail(PacketsOf(jobs))
<1>1. ASSUME NEW u \in Seq(Jobs)
      PROVE  /\ PacketsOf(u) \in Seq(Packets) /\ Len(PacketsOf(u)) = Len(u)
             /\ \A i \in 1 .. Len(u) : PacketsOf(u)[i] = u[i].pkt
  <2>1. PacketsOf(u) = [i \in 1 .. Len(u) |-> u[i].pkt] /\ Len(u) \in Nat
    BY DEF PacketsOf
  <2>2. \A i \in 1 .. Len(u) : u[i].pkt \in Packets
    <3>1. \A j \in Jobs : j.pkt \in Packets
      BY DEF Jobs
    <3> QED
      BY <3>1
  <2>3. PacketsOf(u) \in [1 .. Len(u) -> Packets]
    BY <2>1, <2>2
  <2> QED
    BY <2>1, <2>3, FunctionIsSeq
<1>2. ASSUME NEW j \in Jobs
      PROVE  PacketsOf(Append(jobs, j)) = Append(PacketsOf(jobs), j.pkt)
  <2> DEFINE a == Append(jobs, j)
             b == PacketsOf(jobs)
             c == Append(b, j.pkt)
  <2>1. /\ a \in Seq(Jobs) /\ Len(a) = Len(jobs) + 1 /\ a[Len(jobs) + 1] = j
        /\ \A i \in 1 .. Len(jobs) : a[i] = jobs[i]
    BY AppendProperties
  <2>2. j.pkt \in Packets /\ b \in Seq(Packets) /\ Len(b) = Len(jobs)
    BY <1>1 DEF Jobs
  <2>3. /\ c \in Seq(Packets) /\ Len(c) = Len(jobs) + 1
        /\ c[Len(jobs) + 1] = j.pkt /\ \A i \in 1 .. Len(jobs) : c[i] = b[i]
    <3> HIDE DEF b
    <3> QED
      BY <2>2, AppendProperties
  <2> HIDE DEF a, c
  <2>4. \A i \in 1 .. Len(jobs) + 1 : PacketsOf(a)[i] = c[i]
    <3>1. \A i \in 1 .. Len(jobs) + 1 : i \in 1 .. Len(jobs) \/ i = Len(jobs) + 1
      OBVIOUS
    <3> QED
      BY <1>1, <2>1, <2>3, <3>1
  <2>5. PacketsOf(a) = c
    BY <1>1, <2>1, <2>3, <2>4, SeqEqual
  <2> QED
    BY <2>5 DEF a, c
<1>3. ASSUME jobs # <<>>
      PROVE  /\ PacketsOf(jobs) # <<>>
             /\ Head(PacketsOf(jobs)) = Head(jobs).pkt
             /\ PacketsOf(Tail(jobs)) = Tail(PacketsOf(jobs))
  <2> DEFINE a == Tail(jobs)
             b == PacketsOf(jobs)
             c == Tail(b)
  <2>1. /\ a \in Seq(Jobs) /\ Len(a) = Len(jobs) - 1 /\ Len(jobs) \in Nat
        /\ Len(jobs) > 0 /\ Head(jobs) = jobs[1]
        /\ \A i \in 1 .. Len(jobs) - 1 : a[i] = jobs[i + 1]
    BY <1>3, HeadTailProperties
  <2>2. b \in Seq(Packets) /\ Len(b) = Len(jobs) /\ b # <<>>
        /\ \A i \in 1 .. Len(jobs) : b[i] = jobs[i].pkt
    BY <1>1, <2>1
  <2> HIDE DEF b
  <2>3. /\ c \in Seq(Packets) /\ Len(c) = Len(jobs) - 1 /\ Head(b) = b[1]
        /\ \A i \in 1 .. Len(jobs) - 1 : c[i] = b[i + 1]
    BY <2>2, HeadTailProperties
  <2> HIDE DEF a, c
  <2>4. \A i \in 1 .. Len(jobs) - 1 : PacketsOf(a)[i] = c[i]
    <3> SUFFICES ASSUME NEW i \in 1 .. Len(jobs) - 1
                 PROVE  PacketsOf(a)[i] = c[i]
      OBVIOUS
    <3>1. i + 1 \in 1 .. Len(jobs) /\ i \in 1 .. Len(a)
      BY <2>1
    <3>2. PacketsOf(a)[i] = a[i].pkt /\ a[i] = jobs[i + 1]
      BY <1>1, <2>1, <3>1
    <3>3. c[i] = jobs[i + 1].pkt
      BY <2>2, <2>3, <3>1
    <3> QED
      BY <3>2, <3>3
  <2>5. PacketsOf(a) = c
    BY <1>1, <2>1, <2>3, <2>4, SeqEqual
  <2>6. Head(b) = Head(jobs).pkt
    BY <2>1, <2>2, <2>3
  <2> QED
    BY <2>2, <2>5, <2>6 DEF a, b, c
<1>4. DOMAIN PacketsOf(jobs) = DOMAIN jobs
  BY DEF PacketsOf
<1> QED
  BY <1>1, <1>2, <1>3, <1>4

LEMMA ForNothing == \A n : For(<<>>, n) = <<>>
<1> SUFFICES ASSUME NEW n PROVE For(<<>>, n) = <<>>
  OBVIOUS
<1>1. {i \in DOMAIN <<>> : n \in Range(<<>>[i].left)} = {}
  OBVIOUS
<1> QED
  BY <1>1, PickNone DEF For

LEMMA ForGrows ==
  ASSUME NEW jobs \in Seq(Jobs), NEW job \in Jobs, NEW k
  PROVE  /\ For(jobs, k) \in Seq(Packets)
         /\ For(Append(jobs, job), k)
              = IF k \in Range(job.left) THEN Append(For(jobs, k), job.pkt)
                                         ELSE For(jobs, k)
<1> DEFINE s == PacketsOf(jobs)
           I == {i \in DOMAIN jobs : k \in Range(jobs[i].left)}
           t == Append(jobs, job)
           K == {i \in DOMAIN t : k \in Range(t[i].left)}
           n == Len(jobs) + 1
<1>1. /\ DOMAIN t = 1 .. n /\ DOMAIN jobs = 1 .. Len(jobs)
      /\ Len(jobs) \in Nat
      /\ t[n] = job /\ \A i \in 1 .. Len(jobs) : t[i] = jobs[i]
  BY AppendProperties
<1>2. \A i : i \in 1 .. n <=> i \in 1 .. Len(jobs) \/ i = n
  BY <1>1
<1>3. /\ s \in Seq(Packets) /\ Len(s) = Len(jobs) /\ DOMAIN s = DOMAIN jobs
      /\ PacketsOf(t) = Append(s, job.pkt) /\ job.pkt \in Packets
  BY Jobpackets DEF Jobs
<1> HIDE DEF t, n, s
<1>4. I \in SUBSET DOMAIN s /\ K = IF k \in Range(job.left) THEN I \cup {n} ELSE I
  BY <1>1, <1>2, <1>3
<1> HIDE DEF I, K
<1>5. Pick(s, I) \in Seq(Packets)
  BY <1>3, <1>4, PickSeq
<1>6. /\ Pick(PacketsOf(t), I) = Pick(s, I)
      /\ Pick(PacketsOf(t), I \cup {n}) = Append(Pick(s, I), job.pkt)
  <2>1. n = Len(s) + 1
    BY <1>3 DEF n
  <2> DEFINE e == job.pkt
  <2>2. /\ s \in Seq(Packets) /\ e \in Packets /\ I \in SUBSET DOMAIN s
        /\ PacketsOf(t) = Append(s, e)
    BY <1>3, <1>4
  <2> HIDE DEF e
  <2>3. /\ Pick(Append(s, e), I) = Pick(s, I)
        /\ Pick(Append(s, e), I \cup {Len(s) + 1}) = Append(Pick(s, I), e)
    BY <2>2, PickAppend
  <2> QED
    BY <2>1, <2>2, <2>3 DEF e
<1>7. Pick(PacketsOf(t), K)
        = IF k \in Range(job.left) THEN Append(Pick(s, I), job.pkt)
                                   ELSE Pick(s, I)
  BY <1>4, <1>6
<1> QED
  BY <1>5, <1>7 DEF For, I, K, t, s

LEMMA ForShrinks ==
  ASSUME NEW jobs \in Seq(Jobs), jobs # <<>>, NEW k
  PROVE  /\ For(Tail(jobs), k) \in Seq(Packets)
         /\ For(jobs, k) = IF k \in Range(Head(jobs).left)
                             THEN <<Head(jobs).pkt>> \o For(Tail(jobs), k)
                             ELSE For(Tail(jobs), k)
<1> DEFINE s == PacketsOf(jobs)
           I == {i \in DOMAIN jobs : k \in Range(jobs[i].left)}
           t == Tail(jobs)
           J == {i \in DOMAIN t : k \in Range(t[i].left)}
<1>1. /\ DOMAIN t = 1 .. Len(jobs) - 1 /\ DOMAIN jobs = 1 .. Len(jobs)
      /\ Len(jobs) \in Nat /\ Len(jobs) > 0 /\ Head(jobs) = jobs[1]
      /\ \A i \in DOMAIN t : t[i] = jobs[i + 1] /\ i + 1 \in DOMAIN jobs
  BY HeadTailProperties
<1>2. /\ s \in Seq(Packets) /\ Len(s) = Len(jobs) /\ DOMAIN s = DOMAIN jobs
      /\ s # <<>> /\ Head(s) = Head(jobs).pkt /\ PacketsOf(t) = Tail(s)
  BY Jobpackets
<1> HIDE DEF t, s
<1>3. I \in SUBSET DOMAIN s /\ J = Before(I, Len(s) - 1)
  BY <1>1, <1>2 DEF Before
<1>4. 1 \in I <=> k \in Range(Head(jobs).left)
  BY <1>1
<1> HIDE DEF I, J
<1>5. /\ Pick(Tail(s), J) \in Seq(Packets)
      /\ Pick(s, I)
           = IF 1 \in I THEN <<Head(s)>> \o Pick(Tail(s), J) ELSE Pick(Tail(s), J)
  BY <1>2, <1>3, PickTail
<1> QED
  BY <1>2, <1>4, <1>5 DEF For, I, J, t, s

(* A packet passes from the beginning of one part to the end of the next.   *)
LEMMA Passes ==
  ASSUME NEW s \in Seq(Packets), NEW t \in Seq(Packets), NEW h \in Packets
  PROVE  /\ s \o <<h>> = Append(s, h) \o <<>>
         /\ (s \o <<>>) \o (<<h>> \o t) = (s \o <<h>>) \o t
         /\ Append(s \o t, h) = s \o Append(t, h)
         /\ s # <<>> => s \o t # <<>> /\ Tail(s \o t) = Tail(s) \o t
<1>1. /\ <<h>> \in Seq(Packets) /\ Append(s, h) \in Seq(Packets)
      /\ s \o t \in Seq(Packets)
  BY ConcatProperties
<1>2. s \o <<h>> = Append(s, h) \o <<>>
  BY <1>1, AppendIsConcat, ConcatEmptySeq
<1>3. (s \o <<>>) \o (<<h>> \o t) = (s \o <<h>>) \o t
  BY <1>1, ConcatAssociative, ConcatEmptySeq
<1>4. Append(s \o t, h) = s \o Append(t, h)
  <2>1. Append(t, h) = t \o <<h>>
    BY AppendIsConcat
  <2>2. Append(s \o t, h) = (s \o t) \o <<h>>
    BY <1>1, AppendIsConcat
  <2>3. (s \o t) \o <<h>> = s \o (t \o <<h>>)
    BY <1>1, ConcatAssociative
  <2> QED
    BY <2>1, <2>2, <2>3
<1>5. ASSUME s # <<>> PROVE s \o t # <<>> /\ Tail(s \o t) = Tail(s) \o t
  <2> DEFINE u == s \o t
             v == Tail(s)
             a == Tail(u)
             b == v \o t
             m == Len(s)
             n == Len(t)
  <2>1. /\ u \in Seq(Packets) /\ Len(u) = m + n /\ m \in Nat /\ m > 0 /\ n \in Nat
        /\ \A i \in 1 .. m + n : u[i] = IF i <= m THEN s[i] ELSE t[i - m]
    BY <1>5, ConcatProperties
  <2>2. u # <<>>
    BY <2>1
  <2>3. /\ v \in Seq(Packets) /\ Len(v) = m - 1
        /\ \A i \in 1 .. m - 1 : v[i] = s[i + 1]
    BY <1>5, HeadTailProperties
  <2> HIDE DEF u, v
  <2>4. /\ a \in Seq(Packets) /\ Len(a) = m + n - 1
        /\ \A i \in 1 .. m + n - 1 : a[i] = u[i + 1]
    BY <2>1, <2>2, HeadTailProperties
  <2>5. /\ b \in Seq(Packets) /\ Len(b) = m - 1 + n
        /\ \A i \in 1 .. m - 1 + n :
             b[i] = IF i <= m - 1 THEN v[i] ELSE t[i - (m - 1)]
    <3>1. /\ b \in Seq(Packets) /\ Len(b) = Len(v) + n
          /\ \A i \in 1 .. Len(v) + n :
               b[i] = IF i <= Len(v) THEN v[i] ELSE t[i - Len(v)]
      BY <2>3, ConcatProperties
    <3> QED
      BY <2>3, <3>1
  <2> HIDE DEF a, b, m, n
  <2>6. \A i \in 1 .. m + n - 1 : a[i] = b[i]
    <3> SUFFICES ASSUME NEW i \in 1 .. m + n - 1 PROVE a[i] = b[i]
      OBVIOUS
    <3>1. /\ i \in Nat /\ i + 1 \in 1 .. m + n /\ i \in 1 .. m - 1 + n
          /\ (i + 1) - m = i - (m - 1)
          /\ i + 1 <= m <=> i <= m - 1
      BY <2>1
    <3>2. i <= m - 1 => i \in 1 .. m - 1
      BY <2>1
    <3>3. a[i] = u[i + 1]
      BY <2>4
    <3>4. CASE i <= m - 1
      <4>1. u[i + 1] = s[i + 1] /\ v[i] = s[i + 1]
        BY <2>1, <2>3, <3>1, <3>2, <3>4
      <4> QED
        BY <2>5, <3>1, <3>3, <3>4, <4>1
    <3>5. CASE ~(i <= m - 1)
      <4>1. u[i + 1] = t[(i + 1) - m]
        <5>1. ~(i + 1 <= m)
          BY <3>1, <3>5
        <5> QED
          BY <2>1, <3>1, <5>1
      <4>2. b[i] = t[i - (m - 1)]
        BY <2>5, <3>1, <3>5
      <4> QED
        BY <3>1, <3>3, <4>1, <4>2
    <3> QED
      BY <3>4, <3>5
  <2>7. a = b
    <3>1. m + n - 1 = m - 1 + n
      BY <2>1
    <3> QED
      BY <2>4, <2>5, <2>6, <3>1, SeqEqual
  <2> QED
    BY <2>2, <2>7 DEF a, b, u, v
<1> QED
  BY <1>2, <1>3, <1>4, <1>5

(* The same, as a step passes a packet on.                                  *)
LEMMA PacketPasses ==
  /\ \A y, r \in Seq(Packets) : \A h \in Packets :
       /\ (y \o <<>>) \o (<<h>> \o r) = (y \o <<h>>) \o r
       /\ (y \o r) \o <<h>> = (y \o Append(r, h)) \o <<>>
       /\ r \o <<h>> = Append(r, h) \o <<>>
  /\ \A r \in Seq(Packets) : r # <<>> => r = <<Head(r)>> \o Tail(r)
<1>1. ASSUME NEW y \in Seq(Packets), NEW r \in Seq(Packets), NEW h \in Packets
      PROVE  (y \o r) \o <<h>> = (y \o Append(r, h)) \o <<>>
  <2>1. y \o r \in Seq(Packets) /\ Append(y \o r, h) = y \o Append(r, h)
    BY Passes, ConcatProperties
  <2>2. (y \o r) \o <<h>> = Append(y \o r, h) \o <<>>
    BY <2>1, Passes
  <2> QED
    BY <2>1, <2>2, Zenon
<1>2. ASSUME NEW r \in Seq(Packets), r # <<>>
      PROVE  r = <<Head(r)>> \o Tail(r)
  <2>1. /\ Tail(r) \in Seq(Packets) /\ Len(Tail(r)) = Len(r) - 1
        /\ \A i \in 1 .. Len(r) - 1 : Tail(r)[i] = r[i + 1]
        /\ Head(r) \in Packets /\ Head(r) = r[1] /\ Len(r) \in Nat /\ Len(r) > 0
    BY <1>2, HeadTailProperties
  <2>2. PICK h, t : h = <<Head(r)>> /\ t = Tail(r)
    OBVIOUS
  <2>3. h \in Seq(Packets) /\ Len(h) = 1 /\ h[1] = r[1]
    BY <2>1, <2>2
  <2>4. /\ h \o t \in Seq(Packets) /\ Len(h \o t) = Len(r)
        /\ \A i \in 1 .. Len(r) : (h \o t)[i] = IF i <= 1 THEN h[i] ELSE t[i - 1]
    BY <2>1, <2>2, <2>3, ConcatProperties
  <2>5. \A i \in 1 .. Len(r) : (h \o t)[i] = r[i]
    BY <2>1, <2>2, <2>3, <2>4
  <2> QED
    BY <2>2, <2>4, <2>5, SeqEqual
<1> QED
  BY <1>1, <1>2, Passes

(* What is left of two parts is left of the two together.                   *)
LEMMA LeftOfOne ==
  ASSUME NEW S, NEW t \in Seq(S)
  PROVE  /\ Links!IsLeftOf(t, t) /\ Links!IsLeftOf(<<>>, t)
         /\ t # <<>> => Links!IsLeftOf(Tail(t), t)
<1>1. Links!IsLeftOf(t, t)
  <2> DEFINE kept == [i \in DOMAIN t |-> i]
  <2>1. kept \in [DOMAIN t -> DOMAIN t] /\ \A i \in DOMAIN t : kept[i] = i
    OBVIOUS
  <2> HIDE DEF kept
  <2> QED
    BY <2>1 DEF Links!IsLeftOf
<1>2. Links!IsLeftOf(<<>>, t)
  <2> DEFINE kept == [i \in DOMAIN <<>> |-> 1]
  <2>1. DOMAIN <<>> = {} /\ kept \in [DOMAIN <<>> -> DOMAIN t]
    OBVIOUS
  <2> HIDE DEF kept
  <2> QED
    BY <2>1 DEF Links!IsLeftOf
<1>3. ASSUME t # <<>> PROVE Links!IsLeftOf(Tail(t), t)
  <2> DEFINE s == Tail(t)
             kept == [i \in DOMAIN s |-> i + 1]
  <2>1. /\ DOMAIN s = 1 .. Len(t) - 1 /\ DOMAIN t = 1 .. Len(t)
        /\ Len(t) \in Nat /\ Len(t) > 0
        /\ \A i \in 1 .. Len(t) - 1 : s[i] = t[i + 1]
    BY <1>3, HeadTailProperties
  <2> HIDE DEF s
  <2>2. /\ kept \in [DOMAIN s -> DOMAIN t]
        /\ \A i, j \in DOMAIN s : i < j => kept[i] < kept[j]
        /\ \A i \in DOMAIN s : s[i] = t[kept[i]]
    BY <2>1
  <2> HIDE DEF kept
  <2>3. Links!IsLeftOf(s, t)
    BY <2>2 DEF Links!IsLeftOf
  <2> QED
    BY <2>3 DEF s
<1> QED
  BY <1>1, <1>2, <1>3

LEMMA LeftOfTwo ==
  ASSUME NEW S, NEW s \in Seq(S), NEW t \in Seq(S), NEW u \in Seq(S),
         NEW v \in Seq(S), Links!IsLeftOf(s, t), Links!IsLeftOf(u, v)
  PROVE  Links!IsLeftOf(s \o u, t \o v)
<1> DEFINE a == s \o u
           b == t \o v
           k == Len(s)
           l == Len(u)
           m == Len(t)
           n == Len(v)
<1>1. PICK f \in [DOMAIN s -> DOMAIN t] :
        /\ \A i, j \in DOMAIN s : i < j => f[i] < f[j]
        /\ \A i \in DOMAIN s : s[i] = t[f[i]]
  BY DEF Links!IsLeftOf
<1>2. PICK g \in [DOMAIN u -> DOMAIN v] :
        /\ \A i, j \in DOMAIN u : i < j => g[i] < g[j]
        /\ \A i \in DOMAIN u : u[i] = v[g[i]]
  BY DEF Links!IsLeftOf
<1>3. /\ DOMAIN s = 1 .. k /\ DOMAIN u = 1 .. l /\ DOMAIN t = 1 .. m
      /\ DOMAIN v = 1 .. n /\ k \in Nat /\ l \in Nat /\ m \in Nat /\ n \in Nat
      /\ DOMAIN a = 1 .. k + l /\ DOMAIN b = 1 .. m + n
      /\ \A i \in 1 .. k + l : a[i] = IF i <= k THEN s[i] ELSE u[i - k]
      /\ \A i \in 1 .. m + n : b[i] = IF i <= m THEN t[i] ELSE v[i - m]
  BY ConcatProperties
<1> HIDE DEF a, b, k, l, m, n
<1> DEFINE h == [i \in 1 .. k + l |-> IF i <= k THEN f[i] ELSE m + g[i - k]]
<1>4. ASSUME NEW i \in 1 .. k + l
      PROVE  IF i <= k
               THEN i \in 1 .. k /\ h[i] = f[i] /\ h[i] \in 1 .. m
               ELSE i - k \in 1 .. l /\ h[i] = m + g[i - k] /\ g[i - k] \in 1 .. n
  <2>1. i <= k => i \in 1 .. k
    BY <1>3
  <2>2. ~(i <= k) => i - k \in 1 .. l
    BY <1>3
  <2>3. h[i] = IF i <= k THEN f[i] ELSE m + g[i - k]
    OBVIOUS
  <2> HIDE DEF h
  <2> QED
    BY <1>1, <1>2, <1>3, <2>1, <2>2, <2>3
<1> HIDE DEF h
<1>5. h \in [1 .. k + l -> 1 .. m + n]
  <2>1. ASSUME NEW i \in 1 .. k + l PROVE h[i] \in 1 .. m + n
    <3>1. CASE i <= k
      BY <1>3, <1>4, <3>1
    <3>2. CASE ~(i <= k)
      BY <1>3, <1>4, <3>2
    <3> QED
      BY <3>1, <3>2
  <2> QED
    BY <2>1 DEF h
<1>6. ASSUME NEW i \in 1 .. k + l, NEW j \in 1 .. k + l, i < j
      PROVE  h[i] < h[j]
  <2>1. CASE j <= k
    <3>1. i <= k
      BY <1>3, <1>6, <2>1
    <3> QED
      BY <1>1, <1>3, <1>4, <1>6, <2>1, <3>1
  <2>2. CASE i <= k /\ ~(j <= k)
    BY <1>3, <1>4, <2>2
  <2>3. CASE ~(i <= k) /\ ~(j <= k)
    <3>1. /\ i - k \in 1 .. l /\ j - k \in 1 .. l /\ i - k < j - k
          /\ h[i] = m + g[i - k] /\ h[j] = m + g[j - k]
      BY <1>3, <1>4, <1>6, <2>3
    <3>2. g[i - k] < g[j - k] /\ g[i - k] \in Nat /\ g[j - k] \in Nat
      BY <1>2, <1>3, <3>1
    <3> QED
      BY <1>3, <3>1, <3>2
  <2> QED
    BY <1>3, <1>6, <2>1, <2>2, <2>3
<1>7. ASSUME NEW i \in 1 .. k + l PROVE a[i] = b[h[i]]
  <2>1. CASE i <= k
    <3>1. a[i] = s[i] /\ s[i] = t[f[i]] /\ h[i] = f[i] /\ h[i] \in 1 .. m
      BY <1>1, <1>3, <1>4, <2>1
    <3>2. h[i] \in 1 .. m + n /\ h[i] <= m
      BY <1>3, <3>1
    <3> QED
      BY <1>3, <3>1, <3>2
  <2>2. CASE ~(i <= k)
    <3>1. i - k \in 1 .. l /\ h[i] = m + g[i - k] /\ g[i - k] \in 1 .. n
      BY <1>4, <2>2
    <3>2. a[i] = u[i - k] /\ u[i - k] = v[g[i - k]]
      BY <1>2, <1>3, <2>2, <3>1
    <3>3. h[i] \in 1 .. m + n /\ ~(h[i] <= m) /\ h[i] - m = g[i - k]
      BY <1>3, <3>1
    <3> QED
      BY <1>3, <3>2, <3>3
  <2> QED
    BY <2>1, <2>2
<1>8. Links!IsLeftOf(a, b)
  BY <1>3, <1>5, <1>6, <1>7 DEF Links!IsLeftOf
<1> QED
  BY <1>8 DEF a, b

----------------------------------------------------------------------------
(* The overlay implements the links *)

LEMMA PartTypes ==
  ASSUME TypeOK, NEW m \in Nodes, NEW n \in Nodes
  PROVE  /\ Arrived(m, n) = From(toSnp[n], m)
         /\ Queued(m, n) = For(fromSnp[m], n)
         /\ Arrived(m, n) \in Seq(Packets) /\ Listened(m, n) \in Seq(Packets)
         /\ sock[m][n] \in Seq(Packets) /\ Sent(m, n) \in Seq(Packets)
         /\ Queued(m, n) \in Seq(Packets)
<1>1. /\ toSnp[n] \in Seq(Packets) /\ fromSnp[m] \in Seq(Jobs)
      /\ sock[m][n] \in Seq(Packets) /\ held[n][m] \in Packets \cup {None}
      /\ sending[m] \in Jobs \cup {None}
  BY DEF TypeOK
<1>2. Arrived(m, n) = From(toSnp[n], m) /\ Queued(m, n) = For(fromSnp[m], n)
  BY DEF Arrived, From, Queued, For
<1>3. Listened(m, n) \in Seq(Packets)
  BY <1>1 DEF Listened
<1>4. sending[m] # None => sending[m].pkt \in Packets
  BY <1>1 DEF Jobs
<1>5. Sent(m, n) \in Seq(Packets)
  BY <1>4 DEF Sent
<1>6. From(toSnp[n], m) \in Seq(Packets)
  <2>1. {i \in DOMAIN toSnp[n] : toSnp[n][i].from = m} \in SUBSET DOMAIN toSnp[n]
    OBVIOUS
  <2> QED
    BY <1>1, <2>1, PickSeq DEF From
<1>7. For(fromSnp[m], n) \in Seq(Packets)
  <2>1. /\ PacketsOf(fromSnp[m]) \in Seq(Packets)
        /\ {i \in DOMAIN fromSnp[m] : n \in Range(fromSnp[m][i].left)}
             \in SUBSET DOMAIN PacketsOf(fromSnp[m])
    BY <1>1, Jobpackets
  <2> QED
    BY <2>1, PickSeq DEF For
<1> QED
  BY <1>1, <1>2, <1>3, <1>5, <1>6, <1>7

WayTypes ==
  \A m, n \in Nodes :
    /\ Arrived(m, n) = From(toSnp[n], m) /\ Queued(m, n) = For(fromSnp[m], n)
    /\ Arrived(m, n) \in Seq(Packets) /\ Listened(m, n) \in Seq(Packets)
    /\ sock[m][n] \in Seq(Packets) /\ Sent(m, n) \in Seq(Packets)
    /\ Queued(m, n) \in Seq(Packets)

LEMMA TypesOfWays == TypeOK => WayTypes
  BY PartTypes DEF WayTypes

LEMMA TypesOfNextWays == TypeOK' => WayTypes'
  BY TypesOfWays, PTL

(* The ways as the links see them. *)
LEMMA WaysAre ==
  /\ Path \in [Nodes -> [Nodes -> {OnTheWay(m, n) : m, n \in Nodes}]]
  /\ \A m, n \in Nodes : Path[m][n] = OnTheWay(m, n)
  /\ \A m, n \in Nodes : Path'[m][n] = OnTheWay(m, n)'
  /\ Path = [m \in Nodes |-> [n \in Nodes |-> Path[m][n]]]
  /\ Path' = [m \in Nodes |-> [n \in Nodes |-> Path'[m][n]]]
BY DEF Path

LEMMA PhaseIs ==
  ASSUME TypeOK, TypeOK'
  PROVE  /\ Phase = [n \in Nodes |-> Phase[n]]
         /\ Phase' = [n \in Nodes |-> Phase'[n]]
         /\ \A n \in Nodes :
              /\ Phase[n] = "up" <=> snp[n] = "up"
              /\ Phase'[n] = "up" <=> snp'[n] = "up"
              /\ snp[n] = "none" => Phase[n] = "starting"
              /\ snp'[n] \in {"closed", "gone"} => Phase'[n] = "stopped"
              /\ snp[n] \in {"closed", "gone"} => Phase[n] = "stopped"
              /\ snp'[n] = snp[n] => Phase'[n] = Phase[n]
BY DEF Phase, TypeOK

(* What is left of the packets on a way. *)
PartsLeft(m, n) ==
  /\ Links!IsLeftOf(Arrived(m, n)', Arrived(m, n))
  /\ Links!IsLeftOf(Listened(m, n)', Listened(m, n))
  /\ Links!IsLeftOf(sock'[m][n], sock[m][n])
  /\ Links!IsLeftOf(Sent(m, n)', Sent(m, n))
  /\ Links!IsLeftOf(Queued(m, n)', Queued(m, n))

LEMMA LosesParts ==
  ASSUME TypeOK, TypeOK',
         \A m, n \in Nodes :
           \/ OnTheWay(m, n)' = OnTheWay(m, n)
           \/ (snp'[n] # "up" \/ snp'[m] # "up") /\ PartsLeft(m, n)
  PROVE  Links!Lose
<1>1. ASSUME NEW m \in Nodes, NEW n \in Nodes, PartsLeft(m, n)
      PROVE  Links!IsLeftOf(OnTheWay(m, n)', OnTheWay(m, n))
  <2> DEFINE a == Arrived(m, n)
             b == Listened(m, n)
             c == sock[m][n]
             d == Sent(m, n)
             e == Queued(m, n)
             f == Arrived(m, n)'
             g == Listened(m, n)'
             h == sock'[m][n]
             i == Sent(m, n)'
             j == Queued(m, n)'
  <2>1. /\ a \in Seq(Packets) /\ b \in Seq(Packets) /\ c \in Seq(Packets)
        /\ d \in Seq(Packets) /\ e \in Seq(Packets)
    BY PartTypes
  <2>2. /\ f \in Seq(Packets) /\ g \in Seq(Packets) /\ h \in Seq(Packets)
        /\ i \in Seq(Packets) /\ j \in Seq(Packets)
    BY TypesOfNextWays DEF WayTypes
  <2>3. /\ Links!IsLeftOf(f, a) /\ Links!IsLeftOf(g, b) /\ Links!IsLeftOf(h, c)
        /\ Links!IsLeftOf(i, d) /\ Links!IsLeftOf(j, e)
    BY <1>1 DEF PartsLeft
  <2>4. /\ OnTheWay(m, n) = (((a \o b) \o c) \o d) \o e
        /\ OnTheWay(m, n)' = (((f \o g) \o h) \o i) \o j
    BY DEF OnTheWay
  <2> HIDE DEF a, b, c, d, e, f, g, h, i, j
  <2>5. /\ a \o b \in Seq(Packets) /\ f \o g \in Seq(Packets)
        /\ Links!IsLeftOf(f \o g, a \o b)
    BY <2>1, <2>2, <2>3, LeftOfTwo, ConcatProperties
  <2>6. /\ (a \o b) \o c \in Seq(Packets) /\ (f \o g) \o h \in Seq(Packets)
        /\ Links!IsLeftOf((f \o g) \o h, (a \o b) \o c)
    BY <2>1, <2>2, <2>3, <2>5, LeftOfTwo, ConcatProperties
  <2>7. /\ ((a \o b) \o c) \o d \in Seq(Packets)
        /\ ((f \o g) \o h) \o i \in Seq(Packets)
        /\ Links!IsLeftOf(((f \o g) \o h) \o i, ((a \o b) \o c) \o d)
    BY <2>1, <2>2, <2>3, <2>6, LeftOfTwo, ConcatProperties
  <2>8. Links!IsLeftOf((((f \o g) \o h) \o i) \o j, (((a \o b) \o c) \o d) \o e)
    BY <2>1, <2>2, <2>3, <2>7, LeftOfTwo
  <2> QED
    BY <2>4, <2>8
<1>2. ASSUME NEW m \in Nodes, NEW n \in Nodes
      PROVE  \/ Path'[m][n] = Path[m][n]
             \/ /\ Phase'[n] # "up" \/ Phase'[m] # "up"
                /\ Links!IsLeftOf(Path'[m][n], Path[m][n])
  <2>1. Path[m][n] = OnTheWay(m, n) /\ Path'[m][n] = OnTheWay(m, n)'
    BY WaysAre
  <2>2. /\ Phase'[n] = "up" <=> snp'[n] = "up"
        /\ Phase'[m] = "up" <=> snp'[m] = "up"
    BY PhaseIs
  <2> QED
    BY <1>1, <2>1, <2>2
<1> QED
  BY <1>2 DEF Links!Lose

(* One connection among all changes.                                        *)
LEMMA ChangesOne ==
  ASSUME NEW S, NEW f \in [Nodes -> [Nodes -> S]], NEW m \in Nodes,
         NEW n \in Nodes, NEW v, NEW g, g = [f EXCEPT ![m][n] = v]
  PROVE  /\ g[m][n] = v
         /\ \A j, k \in Nodes : j # m \/ k # n => g[j][k] = f[j][k]
OBVIOUS

(* The part of a way that a step does not touch.                            *)
LEMMA Untouched ==
  ASSUME NEW m \in Nodes, NEW n \in Nodes
  PROVE  /\ toSnp'[n] = toSnp[n] => Arrived(m, n)' = Arrived(m, n)
         /\ held'[n][m] = held[n][m] => Listened(m, n)' = Listened(m, n)
         /\ sending'[m] = sending[m] => Sent(m, n)' = Sent(m, n)
         /\ fromSnp'[m] = fromSnp[m] => Queued(m, n)' = Queued(m, n)
BY DEF Arrived, Listened, Sent, Queued

LEMMA SamePhase == UNCHANGED snp => Phase' = Phase
  BY DEF Phase

LEMMA Stutters ==
  ASSUME UNCHANGED snp, \A m, n \in Nodes : OnTheWay(m, n)' = OnTheWay(m, n)
  PROVE  UNCHANGED <<Path, Phase>>
<1>1. \A m, n \in Nodes : Path'[m][n] = Path[m][n]
  BY WaysAre
<1>2. Path' = Path
  BY <1>1, WaysAre
<1> QED
  BY <1>2, SamePhase

(* overlay_sendpkt puts the packet on the ways to those it is for.          *)
LEMMA HandLinks ==
  ASSUME TypeOK, TypeOK', NEW n \in Nodes, SnpHand(n)
  PROVE  Links!Hand(n)
<1>1. PICK to \in {<<m>> : m \in Nbrs(n)} \cup {Table[n]} :
        fromSnp' = [fromSnp EXCEPT ![n] =
          Append(@, [pkt |-> [from |-> n, no |-> handed[n] + 1], left |-> to])]
  BY DEF SnpHand
<1> DEFINE p == [from |-> n, no |-> handed[n] + 1]
           job == [pkt |-> p, left |-> to]
<1>2. job.pkt = p /\ job.left = to
  OBVIOUS
<1> HIDE DEF job
<1>3. /\ fromSnp'[n] = Append(fromSnp[n], job)
      /\ \A k \in Nodes \ {n} : fromSnp'[k] = fromSnp[k]
      /\ fromSnp'[n] \in Seq(Jobs) /\ fromSnp[n] \in Seq(Jobs)
      /\ UNCHANGED <<held, sock, toSnp, sending, snp>> /\ snp[n] = "up"
  BY <1>1 DEF SnpHand, TypeOK, job
<1>4. job \in Jobs /\ p \in Packets
  <2>1. job = fromSnp'[n][Len(fromSnp[n]) + 1]
    BY <1>3
  <2>2. job \in Jobs
    BY <1>3, <2>1
  <2> QED
    BY <1>2, <2>2 DEF Jobs
<1> HIDE DEF p
<1>5. ASSUME NEW k \in Nodes
      PROVE  OnTheWay(n, k)' = IF k \in Range(to) THEN Append(OnTheWay(n, k), p)
                                                  ELSE OnTheWay(n, k)
  <2> DEFINE a == Arrived(n, k)
             b == Listened(n, k)
             c == sock[n][k]
             d == Sent(n, k)
             e == Queued(n, k)
             x == ((a \o b) \o c) \o d
  <2>1. Queued(n, k)' = IF k \in Range(to) THEN Append(e, p) ELSE e
    <3>1. e = For(fromSnp[n], k) /\ Queued(n, k)' = For(fromSnp'[n], k)
      BY DEF Queued, For
    <3>2. For(fromSnp'[n], k) = IF k \in Range(job.left)
                                  THEN Append(For(fromSnp[n], k), job.pkt)
                                  ELSE For(fromSnp[n], k)
      BY <1>3, <1>4, ForGrows
    <3> QED
      BY <1>2, <3>1, <3>2
  <2>2. /\ Arrived(n, k)' = a /\ Listened(n, k)' = b /\ sock'[n][k] = c
        /\ Sent(n, k)' = d
    BY <1>3, Untouched
  <2>3. OnTheWay(n, k) = x \o e /\ OnTheWay(n, k)' = x \o Queued(n, k)'
    BY <2>2 DEF OnTheWay
  <2>4. /\ a \in Seq(Packets) /\ b \in Seq(Packets) /\ c \in Seq(Packets)
        /\ d \in Seq(Packets) /\ e \in Seq(Packets)
    BY PartTypes
  <2> HIDE DEF a, b, c, d, e
  <2>5. x \in Seq(Packets)
    BY <2>4, ConcatProperties
  <2> HIDE DEF x
  <2>6. x \o Append(e, p) = Append(x \o e, p)
    BY <1>4, <2>4, <2>5, Passes
  <2> QED
    BY <2>1, <2>3, <2>6
<1>6. ASSUME NEW m \in Nodes \ {n}, NEW k \in Nodes
      PROVE  OnTheWay(m, k)' = OnTheWay(m, k)
  BY <1>3, Untouched DEF OnTheWay
<1>7. Range(to) \subseteq Nodes
  BY NbrsAreNodes DEF Nbrs, Range
<1>8. Path' = [Path EXCEPT ![n] = [k \in Nodes |->
                IF k \in Range(to) THEN Append(Path[n][k], p) ELSE Path[n][k]]]
  <2> DEFINE new == [k \in Nodes |-> IF k \in Range(to)
                                       THEN Append(Path[n][k], p)
                                       ELSE Path[n][k]]
  <2>1. ASSUME NEW k \in Nodes PROVE Path'[n][k] = new[k]
    <3>1. /\ Path[n][k] = OnTheWay(n, k) /\ Path'[n][k] = OnTheWay(n, k)'
          /\ new[k] = IF k \in Range(to) THEN Append(Path[n][k], p)
                                         ELSE Path[n][k]
      BY WaysAre
    <3> HIDE DEF new
    <3> QED
      BY <1>5, <3>1
  <2>2. \A m \in Nodes \ {n} : \A k \in Nodes : Path'[m][k] = Path[m][k]
    BY <1>6, WaysAre
  <2>3. /\ DOMAIN Path = Nodes /\ DOMAIN Path' = Nodes
        /\ \A m \in Nodes : Path'[m] = [k \in Nodes |-> Path'[m][k]]
        /\ \A m \in Nodes : Path[m] = [k \in Nodes |-> Path[m][k]]
        /\ Path = [m \in Nodes |-> Path[m]] /\ Path' = [m \in Nodes |-> Path'[m]]
    BY DEF Path
  <2>4. Path'[n] = new
    BY <2>1, <2>3
  <2>5. \A m \in Nodes \ {n} : Path'[m] = Path[m]
    BY <2>2, <2>3
  <2> HIDE DEF new
  <2>6. Path' = [Path EXCEPT ![n] = new]
    BY <2>3, <2>4, <2>5
  <2> QED
    BY <2>6 DEF new
<1>9. Phase[n] = "up" /\ UNCHANGED Phase
  BY <1>3, PhaseIs, SamePhase
<1> QED
  BY <1>4, <1>7, <1>8, <1>9 DEF Links!Hand

(* overlay_recvpkt takes the packet that is first on its way.               *)
LEMMA TakeLinks ==
  ASSUME TypeOK, TypeOK', NEW n \in Nodes, SnpTake(n)
  PROVE  Links!Take(n)
<1> DEFINE h == Head(toSnp[n])
<1>1. /\ toSnp[n] \in Seq(Packets) /\ toSnp[n] # <<>>
      /\ toSnp'[n] = Tail(toSnp[n])
      /\ \A k \in Nodes \ {n} : toSnp'[k] = toSnp[k]
      /\ UNCHANGED <<held, sock, fromSnp, sending, snp>> /\ snp[n] = "up"
  BY DEF SnpTake, TypeOK
<1>2. h \in Packets /\ \E m \in Nodes : h.from = m
  BY <1>1 DEF Packets
<1> PICK m \in Nodes : h.from = m
  BY <1>2
<1>3. ASSUME NEW j \in Nodes, j # m
      PROVE  Arrived(j, n)' = Arrived(j, n)
  <2>1. Arrived(j, n) = From(toSnp[n], j) /\ Arrived(j, n)' = From(toSnp'[n], j)
    BY DEF Arrived, From
  <2>2. From(toSnp[n], j) = From(Tail(toSnp[n]), j)
    BY <1>1, <1>3, FromShrinks
  <2> QED
    BY <1>1, <2>1, <2>2
<1>4. Arrived(m, n) # <<>> /\ Arrived(m, n)' = Tail(Arrived(m, n))
  <2> DEFINE r == From(Tail(toSnp[n]), m)
  <2>1. Arrived(m, n) = From(toSnp[n], m) /\ Arrived(m, n)' = From(toSnp'[n], m)
    BY DEF Arrived, From
  <2>2. From(toSnp[n], m) = <<h>> \o r /\ r \in Seq(Packets)
    BY <1>1, FromShrinks
  <2>3. Arrived(m, n)' = r
    BY <1>1, <2>1
  <2> HIDE DEF r, h
  <2>4. <<h>> \in Seq(Packets) /\ <<h>> # <<>> /\ Tail(<<h>>) = <<>>
    BY <1>2
  <2>5. <<h>> \o r # <<>> /\ Tail(<<h>> \o r) = <<>> \o r
    BY <1>2, <2>2, <2>4, Passes
  <2> QED
    BY <2>1, <2>2, <2>3, <2>5, ConcatEmptySeq
<1> HIDE DEF h
<1>5. OnTheWay(m, n) # <<>> /\ OnTheWay(m, n)' = Tail(OnTheWay(m, n))
  <2> DEFINE a == Arrived(m, n)
             b == Listened(m, n)
             c == sock[m][n]
             d == Sent(m, n)
             e == Queued(m, n)
  <2>1. /\ Listened(m, n)' = b /\ sock'[m][n] = c
        /\ Sent(m, n)' = d /\ Queued(m, n)' = e
    BY <1>1, <1>2, Untouched
  <2>2. /\ OnTheWay(m, n) = (((a \o b) \o c) \o d) \o e
        /\ OnTheWay(m, n)' = (((Tail(a) \o b) \o c) \o d) \o e
    BY <1>4, <2>1 DEF OnTheWay
  <2>3. /\ a \in Seq(Packets) /\ b \in Seq(Packets) /\ c \in Seq(Packets)
        /\ d \in Seq(Packets) /\ e \in Seq(Packets) /\ a # <<>>
    BY <1>2, <1>4, PartTypes
  <2> HIDE DEF a, b, c, d, e
  <2>4. /\ a \o b \in Seq(Packets) /\ a \o b # <<>>
        /\ Tail(a \o b) = Tail(a) \o b
    BY <1>2, <2>3, Passes, ConcatProperties
  <2>5. /\ (a \o b) \o c \in Seq(Packets) /\ (a \o b) \o c # <<>>
        /\ Tail((a \o b) \o c) = (Tail(a) \o b) \o c
    BY <1>2, <2>3, <2>4, Passes, ConcatProperties
  <2>6. /\ ((a \o b) \o c) \o d \in Seq(Packets) /\ ((a \o b) \o c) \o d # <<>>
        /\ Tail(((a \o b) \o c) \o d) = ((Tail(a) \o b) \o c) \o d
    BY <1>2, <2>3, <2>5, Passes, ConcatProperties
  <2>7. /\ (((a \o b) \o c) \o d) \o e # <<>>
        /\ Tail((((a \o b) \o c) \o d) \o e)
             = (((Tail(a) \o b) \o c) \o d) \o e
    BY <1>2, <2>3, <2>6, Passes
  <2> QED
    BY <2>2, <2>7
<1>6. ASSUME NEW j \in Nodes, NEW k \in Nodes, j # m \/ k # n
      PROVE  OnTheWay(j, k)' = OnTheWay(j, k)
  <2>1. Arrived(j, k)' = Arrived(j, k)
    BY <1>1, <1>3, <1>6, Untouched
  <2> QED
    BY <1>1, <2>1, Untouched DEF OnTheWay
<1>7. Path' = [Path EXCEPT ![m][n] = Tail(@)] /\ Path[m][n] # <<>>
  <2>1. Path[m][n] = OnTheWay(m, n) /\ Path'[m][n] = OnTheWay(m, n)'
    BY WaysAre
  <2>2. Path'[m][n] = Tail(Path[m][n]) /\ Path[m][n] # <<>>
    BY <1>5, <2>1
  <2>3. ASSUME NEW j \in Nodes, NEW k \in Nodes, j # m \/ k # n
        PROVE  Path'[j][k] = Path[j][k]
    <3>1. Path[j][k] = OnTheWay(j, k) /\ Path'[j][k] = OnTheWay(j, k)'
      BY WaysAre
    <3> QED
      BY <1>6, <2>3, <3>1
  <2>4. /\ Path = [j \in Nodes |-> Path[j]] /\ Path' = [j \in Nodes |-> Path'[j]]
        /\ \A j \in Nodes : Path'[j] = [k \in Nodes |-> Path'[j][k]]
        /\ \A j \in Nodes : Path[j] = [k \in Nodes |-> Path[j][k]]
    BY DEF Path
  <2>5. Path'[m] = [Path[m] EXCEPT ![n] = Tail(Path[m][n])]
    BY <2>2, <2>3, <2>4
  <2>6. \A j \in Nodes \ {m} : Path'[j] = Path[j]
    BY <2>3, <2>4
  <2>7. Path' = [Path EXCEPT ![m] = [Path[m] EXCEPT ![n] = Tail(Path[m][n])]]
    BY <2>4, <2>5, <2>6
  <2> QED
    BY <2>2, <2>7
<1>8. Phase[n] = "up" /\ UNCHANGED Phase
  BY <1>1, PhaseIs, SamePhase
<1> QED
  BY <1>2, <1>7, <1>8 DEF Links!Take

(* From part to part a packet stays on its way: out of SNP's connection ... *)
LEMMA GetLinks ==
  ASSUME TypeOK, TypeOK', NEW n \in Nodes, GetPacket(n)
  PROVE  UNCHANGED <<Path, Phase>>
<1>1. /\ fromSnp[n] \in Seq(Jobs) /\ fromSnp[n] # <<>> /\ sending[n] = None
      /\ fromSnp'[n] = Tail(fromSnp[n]) /\ sending'[n] = Head(fromSnp[n])
      /\ \A k \in Nodes \ {n} : /\ fromSnp'[k] = fromSnp[k]
                                /\ sending'[k] = sending[k]
      /\ UNCHANGED <<held, sock, toSnp, snp>>
  BY DEF GetPacket, TypeOK, startVars
<1>2. PICK job \in Jobs : job = Head(fromSnp[n])
  BY <1>1
<1>3. job # None /\ job.pkt \in Packets
  <2>1. job.pkt \in Packets
    BY DEF Jobs
  <2>2. job # None
    BY NoneAssumption
  <2> QED
    BY <2>1, <2>2
<1>4. ASSUME NEW k \in Nodes
      PROVE  OnTheWay(n, k)' = OnTheWay(n, k)
  <2> DEFINE a == Arrived(n, k)
             b == Listened(n, k)
             c == sock[n][k]
             q == Queued(n, k)'
             x == (a \o b) \o c
             p == job.pkt
  <2>1. /\ Arrived(n, k)' = a /\ Listened(n, k)' = b /\ sock'[n][k] = c
    BY <1>1, Untouched
  <2>2. Queued(n, k) = IF k \in Range(job.left) THEN <<p>> \o q ELSE q
    <3>1. /\ Queued(n, k) = For(fromSnp[n], k)
          /\ Queued(n, k)' = For(fromSnp'[n], k)
      BY DEF Queued, For
    <3> QED
      BY <1>1, <1>2, <3>1, ForShrinks
  <2>3. Sent(n, k) = <<>> /\ Sent(n, k)' = IF k \in Range(job.left) THEN <<p>>
                                                                   ELSE <<>>
    BY <1>1, <1>2, <1>3 DEF Sent
  <2>4. /\ OnTheWay(n, k) = (x \o <<>>) \o Queued(n, k)
        /\ OnTheWay(n, k)' = (x \o Sent(n, k)') \o q
    BY <2>1, <2>3 DEF OnTheWay
  <2>5. /\ a \in Seq(Packets) /\ b \in Seq(Packets) /\ c \in Seq(Packets)
        /\ q \in Seq(Packets) /\ p \in Packets
    BY <1>3, TypesOfWays, TypesOfNextWays DEF WayTypes
  <2> HIDE DEF a, b, c, q, p
  <2>6. x \in Seq(Packets)
    BY <2>5, ConcatProperties
  <2> HIDE DEF x
  <2>7. (x \o <<>>) \o (<<p>> \o q) = (x \o <<p>>) \o q
    BY <2>5, <2>6, PacketPasses, Zenon
  <2> QED
    BY <2>2, <2>3, <2>4, <2>7
<1>5. ASSUME NEW m \in Nodes \ {n}, NEW k \in Nodes
      PROVE  OnTheWay(m, k)' = OnTheWay(m, k)
  BY <1>1, Untouched DEF OnTheWay
<1> QED
  BY <1>1, <1>4, <1>5, Stutters

(* What waitNetwork has still to send after a send.                         *)
LEMMA RestIsSent ==
  ASSUME TypeOK, WayInv, NEW n \in Nodes, sending[n] # None,
         sending' = [sending EXCEPT ![n] = SendingRest(n)],
         NEW m, m = Head(sending[n].left)
  PROVE  /\ m \in Nbrs(n) /\ sending[n].pkt \in Packets
         /\ Sent(n, m) = <<sending[n].pkt>> /\ Sent(n, m)' = <<>>
         /\ \A k \in Nodes \ {m} : Sent(n, k)' = Sent(n, k)
         /\ \A j \in Nodes \ {n} : \A k \in Nodes : Sent(j, k)' = Sent(j, k)
<1> DEFINE job == sending[n]
           rest == Tail(job.left)
<1>1. job \in Jobs /\ GoesOut(n, job)
  BY DEF TypeOK, WayInv
<1>2. /\ m \in Nbrs(n) /\ rest \in Seq(Nodes) /\ m \in Range(job.left)
      /\ Range(rest) = Range(job.left) \ {m}
  BY <1>1, RestGoesOut
<1>3. job.pkt \in Packets
  BY <1>1 DEF Jobs
<1>4. /\ sending'[n] = IF rest = <<>> THEN None ELSE [job EXCEPT !.left = rest]
      /\ \A j \in Nodes \ {n} : sending'[j] = sending[j]
  BY DEF SendingRest, TypeOK
<1>5. rest = <<>> => Range(rest) = {}
  BY DEF Range
<1>6. [job EXCEPT !.left = rest] \in Jobs \/ rest = <<>>
  BY <1>1, <1>2 DEF Jobs
<1>7. /\ [job EXCEPT !.left = rest].left = rest
      /\ [job EXCEPT !.left = rest].pkt = job.pkt
  BY <1>1 DEF Jobs
<1>8. \A j \in Nodes \ {n} : \A k \in Nodes : Sent(j, k)' = Sent(j, k)
  BY <1>4, Untouched
<1>9. Sent(n, m) = <<job.pkt>>
  BY <1>2 DEF Sent
<1>10. ASSUME NEW k
       PROVE  Sent(n, k)' = IF k \in Range(rest) THEN <<job.pkt>> ELSE <<>>
  <2>1. CASE rest = <<>>
    BY <1>4, <1>5, <2>1 DEF Sent
  <2>2. CASE rest # <<>>
    <3>1. PICK new : new = [job EXCEPT !.left = rest]
      OBVIOUS
    <3>2. new # None
      BY <1>6, <2>2, <3>1, NoneAssumption
    <3>3. sending'[n] = new /\ new.left = rest /\ new.pkt = job.pkt
      BY <1>4, <1>7, <2>2, <3>1
    <3> QED
      BY <3>2, <3>3 DEF Sent
  <2> QED
    BY <2>1, <2>2
<1> QED
  BY <1>2, <1>3, <1>8, <1>9, <1>10 DEF Sent

(* ... onto the socket, ...                                                 *)
LEMMA SendLinks ==
  ASSUME TypeOK, TypeOK', WayInv, NEW n \in Nodes, sending[n] # None,
         NEW m, m = Head(sending[n].left),
         sock' = [sock EXCEPT ![n][m] = Append(@, sending[n].pkt)],
         sending' = [sending EXCEPT ![n] = SendingRest(n)],
         UNCHANGED <<held, snp, fromSnp, toSnp>>
  PROVE  UNCHANGED <<Path, Phase>>
<1>1. PICK p \in Packets :
        /\ Sent(n, m) = <<p>> /\ Sent(n, m)' = <<>> /\ m \in Nodes
        /\ p = sending[n].pkt
  BY RestIsSent, NbrsAreNodes
<1>2. /\ \A k \in Nodes \ {m} : Sent(n, k)' = Sent(n, k)
      /\ \A j \in Nodes \ {n} : \A k \in Nodes : Sent(j, k)' = Sent(j, k)
  BY RestIsSent
<1>3. /\ sock'[n][m] = Append(sock[n][m], p)
      /\ \A j, k \in Nodes : j # n \/ k # m => sock'[j][k] = sock[j][k]
  <2>1. sock \in [Nodes -> [Nodes -> Seq(Packets)]]
    BY DEF TypeOK
  <2>2. sock' = [sock EXCEPT ![n][m] = Append(sock[n][m], p)]
    BY <1>1
  <2> QED
    BY <1>1, <2>1, <2>2, ChangesOne
<1>4. OnTheWay(n, m)' = OnTheWay(n, m)
  <2> DEFINE a == Arrived(n, m)
             b == Listened(n, m)
             c == sock[n][m]
             e == Queued(n, m)
             x == a \o b
  <2>1. /\ Arrived(n, m)' = a /\ Listened(n, m)' = b /\ Queued(n, m)' = e
        /\ sock'[n][m] = Append(c, p)
    BY <1>1, <1>3, Untouched
  <2>2. /\ OnTheWay(n, m) = ((x \o c) \o <<p>>) \o e
        /\ OnTheWay(n, m)' = ((x \o Append(c, p)) \o <<>>) \o e
    BY <1>1, <2>1 DEF OnTheWay
  <2>3. a \in Seq(Packets) /\ b \in Seq(Packets) /\ c \in Seq(Packets)
    BY <1>1, PartTypes
  <2> HIDE DEF a, b, c, e
  <2>4. x \in Seq(Packets)
    BY <2>3, ConcatProperties
  <2> HIDE DEF x
  <2>5. (x \o c) \o <<p>> = (x \o Append(c, p)) \o <<>>
    BY <2>3, <2>4, PacketPasses, Zenon
  <2> QED
    BY <2>2, <2>5
<1>5. ASSUME NEW j \in Nodes, NEW k \in Nodes, j # n \/ k # m
      PROVE  OnTheWay(j, k)' = OnTheWay(j, k)
  BY <1>2, <1>3, <1>5, Untouched DEF OnTheWay
<1> QED
  BY <1>1, <1>4, <1>5, Stutters

(* ... into the hands of the listener, ...                                  *)
LEMMA ReceiveLinks ==
  ASSUME TypeOK, TypeOK', NEW n \in Nodes, NEW m \in Nodes, ReceivePacket(n, m)
  PROVE  UNCHANGED <<Path, Phase>>
<1>1. /\ sock[m][n] \in Seq(Packets) /\ sock[m][n] # <<>>
      /\ held[n][m] = None /\ held'[n][m] = Head(sock[m][n])
      /\ sock'[m][n] = Tail(sock[m][n])
      /\ \A j, k \in Nodes :
           j # m \/ k # n => sock'[j][k] = sock[j][k] /\ held'[k][j] = held[k][j]
      /\ UNCHANGED <<toSnp, fromSnp, sending, snp>>
  <2>1. /\ sock \in [Nodes -> [Nodes -> Seq(Packets)]]
        /\ held \in [Nodes -> [Nodes -> Packets \cup {None}]]
    BY DEF TypeOK
  <2>2. /\ sock' = [sock EXCEPT ![m][n] = Tail(sock[m][n])]
        /\ held' = [held EXCEPT ![n][m] = Head(sock[m][n])]
        /\ sock[m][n] # <<>> /\ held[n][m] = None
        /\ UNCHANGED <<toSnp, fromSnp, sending, snp>>
    BY DEF ReceivePacket, Receive
  <2>3. /\ sock'[m][n] = Tail(sock[m][n])
        /\ \A j, k \in Nodes : j # m \/ k # n => sock'[j][k] = sock[j][k]
    BY <2>1, <2>2, ChangesOne
  <2>4. /\ held'[n][m] = Head(sock[m][n])
        /\ \A j, k \in Nodes : j # m \/ k # n => held'[k][j] = held[k][j]
    BY <2>1, <2>2, ChangesOne
  <2> QED
    BY <2>1, <2>2, <2>3, <2>4
<1>2. PICK h \in Packets : h = Head(sock[m][n])
  BY <1>1
<1>3. PICK t \in Seq(Packets) : t = Tail(sock[m][n])
  BY <1>1, HeadTailProperties
<1>4. h # None /\ sock[m][n] = <<h>> \o t
  BY <1>1, <1>2, <1>3, PacketPasses, NoneAssumption
<1>5. OnTheWay(m, n)' = OnTheWay(m, n)
  <2> DEFINE a == Arrived(m, n)
             d == Sent(m, n)
             e == Queued(m, n)
  <2>1. Arrived(m, n)' = a /\ Sent(m, n)' = d /\ Queued(m, n)' = e
    BY <1>1, Untouched
  <2>2. Listened(m, n) = <<>> /\ Listened(m, n)' = <<h>>
    BY <1>1, <1>2, <1>4 DEF Listened
  <2>3. /\ OnTheWay(m, n) = (((a \o <<>>) \o (<<h>> \o t)) \o d) \o e
        /\ OnTheWay(m, n)' = (((a \o <<h>>) \o t) \o d) \o e
    BY <1>1, <1>3, <1>4, <2>1, <2>2 DEF OnTheWay
  <2>4. a \in Seq(Packets)
    BY PartTypes
  <2> HIDE DEF a, d, e
  <2>5. (a \o <<>>) \o (<<h>> \o t) = (a \o <<h>>) \o t
    BY <2>4, PacketPasses, Zenon
  <2> QED
    BY <2>3, <2>5
<1>6. ASSUME NEW j \in Nodes, NEW k \in Nodes, j # m \/ k # n
      PROVE  OnTheWay(j, k)' = OnTheWay(j, k)
  BY <1>1, <1>6, Untouched DEF OnTheWay
<1> QED
  BY <1>1, <1>5, <1>6, Stutters

(* ... and into the other SNP connection.                                   *)
LEMMA ForwardLinks ==
  ASSUME TypeOK, TypeOK', WayInv, NEW n \in Nodes, NEW m \in Nodes,
         held[n][m] # None,
         toSnp' = [toSnp EXCEPT ![n] = Append(@, held[n][m])],
         held' = [held EXCEPT ![n][m] = None],
         UNCHANGED <<sock, snp, fromSnp, sending>>
  PROVE  UNCHANGED <<Path, Phase>>
<1>1. PICK h \in Packets : h = held[n][m] /\ h.from = m
  BY DEF TypeOK, WayInv
<1>2. /\ toSnp[n] \in Seq(Packets) /\ toSnp'[n] = Append(toSnp[n], h)
      /\ \A k \in Nodes \ {n} : toSnp'[k] = toSnp[k]
      /\ held'[n][m] = None
      /\ \A j, k \in Nodes : j # m \/ k # n => held'[k][j] = held[k][j]
  <2>1. held \in [Nodes -> [Nodes -> Packets \cup {None}]]
    BY DEF TypeOK
  <2>2. /\ held'[n][m] = None
        /\ \A j, k \in Nodes : j # m \/ k # n => held'[k][j] = held[k][j]
    BY <2>1, ChangesOne
  <2> QED
    BY <1>1, <2>2 DEF TypeOK
<1>3. ASSUME NEW j \in Nodes
      PROVE  Arrived(j, n)' = IF j = m THEN Append(Arrived(j, n), h)
                                       ELSE Arrived(j, n)
  <2>1. Arrived(j, n) = From(toSnp[n], j) /\ Arrived(j, n)' = From(toSnp'[n], j)
    BY DEF Arrived, From
  <2>2. PICK s \in Seq(Packets) : s = toSnp[n]
    BY <1>2
  <2>3. From(Append(s, h), j)
          = IF h.from = j THEN Append(From(s, j), h) ELSE From(s, j)
    <3>1. h \in Packets
      BY <1>1
    <3>2. \A p \in Packets : \A k :
            From(Append(s, p), k)
              = IF p.from = k THEN Append(From(s, k), p) ELSE From(s, k)
      BY FromGrows
    <3> QED
      BY <3>1, <3>2
  <2> QED
    BY <1>1, <1>2, <2>1, <2>2, <2>3
<1>4. OnTheWay(m, n)' = OnTheWay(m, n)
  <2> DEFINE a == Arrived(m, n)
             c == sock[m][n]
             d == Sent(m, n)
             e == Queued(m, n)
  <2>1. sock'[m][n] = c /\ Sent(m, n)' = d /\ Queued(m, n)' = e
    BY Untouched
  <2>2. Listened(m, n) = <<h>> /\ Listened(m, n)' = <<>>
    BY <1>1, <1>2 DEF Listened
  <2>3. /\ OnTheWay(m, n) = (((a \o <<h>>) \o c) \o d) \o e
        /\ OnTheWay(m, n)' = (((Append(a, h) \o <<>>) \o c) \o d) \o e
    BY <1>3, <2>1, <2>2 DEF OnTheWay
  <2>4. a \in Seq(Packets)
    BY PartTypes
  <2> HIDE DEF a, c, d, e
  <2>5. a \o <<h>> = Append(a, h) \o <<>>
    BY <2>4, PacketPasses, Zenon
  <2> QED
    BY <2>3, <2>5
<1>5. ASSUME NEW j \in Nodes, NEW k \in Nodes, j # m \/ k # n
      PROVE  OnTheWay(j, k)' = OnTheWay(j, k)
  <2>1. Arrived(j, k)' = Arrived(j, k)
    BY <1>2, <1>3, <1>5, Untouched
  <2> QED
    BY <1>2, <1>5, <2>1, Untouched DEF OnTheWay
<1> QED
  BY <1>4, <1>5, Stutters

(* What the steps that lose packets do to the parts of the ways.            *)
LEMMA PartsAreLeft ==
  ASSUME TypeOK, NEW m \in Nodes, NEW n \in Nodes,
         Arrived(m, n)' = Arrived(m, n) \/ Arrived(m, n)' = <<>>,
         Listened(m, n)' = Listened(m, n) \/ Listened(m, n)' = <<>>,
         \/ sock'[m][n] = sock[m][n]
         \/ sock'[m][n] = <<>>
         \/ sock[m][n] # <<>> /\ sock'[m][n] = Tail(sock[m][n]),
         Sent(m, n)' = Sent(m, n) \/ Sent(m, n)' = <<>>,
         Queued(m, n)' = Queued(m, n) \/ Queued(m, n)' = <<>>
  PROVE  PartsLeft(m, n)
<1>1. ASSUME NEW t \in Seq(Packets)
      PROVE  /\ Links!IsLeftOf(t, t) /\ Links!IsLeftOf(<<>>, t)
             /\ t # <<>> => Links!IsLeftOf(Tail(t), t)
  BY LeftOfOne
<1>2. /\ Arrived(m, n) \in Seq(Packets) /\ Listened(m, n) \in Seq(Packets)
      /\ sock[m][n] \in Seq(Packets) /\ Sent(m, n) \in Seq(Packets)
      /\ Queued(m, n) \in Seq(Packets)
  BY PartTypes
<1>3. /\ Links!IsLeftOf(Arrived(m, n)', Arrived(m, n))
      /\ Links!IsLeftOf(Listened(m, n)', Listened(m, n))
  BY <1>1, <1>2
<1>4. /\ Links!IsLeftOf(Sent(m, n)', Sent(m, n))
      /\ Links!IsLeftOf(Queued(m, n)', Queued(m, n))
  BY <1>1, <1>2
<1>5. Links!IsLeftOf(sock'[m][n], sock[m][n])
  BY <1>1, <1>2
<1> QED
  BY <1>3, <1>4, <1>5 DEF PartsLeft

LEMMA Emptied ==
  ASSUME NEW m \in Nodes, NEW n \in Nodes
  PROVE  /\ toSnp'[n] = <<>> => Arrived(m, n)' = <<>>
         /\ held'[n][m] = None => Listened(m, n)' = <<>>
         /\ sending'[m] = None => Sent(m, n)' = <<>>
         /\ fromSnp'[m] = <<>> => Queued(m, n)' = <<>>
<1>1. ASSUME toSnp'[n] = <<>> PROVE Arrived(m, n)' = <<>>
  <2>1. Arrived(m, n)' = From(toSnp'[n], m)
    BY DEF Arrived, From
  <2> QED
    BY <1>1, <2>1, FromNothing
<1>2. ASSUME fromSnp'[m] = <<>> PROVE Queued(m, n)' = <<>>
  <2>1. Queued(m, n)' = For(fromSnp'[m], n)
    BY DEF Queued, For
  <2> QED
    BY <1>2, <2>1, ForNothing
<1> QED
  BY <1>1, <1>2 DEF Listened, Sent

(* Two nodes that are up have found each other.                             *)
LEMMA UpAreLinked ==
  ASSUME TypeOK, StartInv, NEW n \in Nodes, NEW m \in Nodes, Up(n), Up(m),
         m \in Nbrs(n)
  PROVE  m \in conn[n] /\ Alive(m)
<1>1. n \in Nbrs(m) /\ m # n /\ Alive(n) /\ Alive(m) /\ n \in Nat /\ m \in Nat
  BY OverlayAssumption DEF Up, Alive
<1>2. CASE n < m
  <2>1. m \in Came(n)
    BY <1>2, UpIsComplete DEF Larger
  <2>2. n \in conn[m]
    BY <1>1, <2>1 DEF Came
  <2>3. Range(backlog[n]) = {}
    BY UpIsComplete DEF Range
  <2> QED
    BY <1>1, <2>2, <2>3 DEF StartInv
<1>3. CASE m < n
  <2>1. n \in Came(m)
    BY <1>1, <1>3, UpIsComplete DEF Larger
  <2> QED
    BY <1>1, <2>1 DEF Came
<1> QED
  BY <1>1, <1>2, <1>3

LEMMA StopLinks ==
  ASSUME TypeOK, TypeOK', NEW n \in Nodes, NEW s \in {"closed", "gone"},
         snp' = [snp EXCEPT ![n] = s]
  PROVE  Links!Change(n)
<1>1. /\ Phase'[n] = "stopped"
      /\ \A k \in Nodes \ {n} : Phase'[k] = Phase[k]
      /\ DOMAIN Phase = Nodes /\ DOMAIN Phase' = Nodes
  BY DEF Phase, TypeOK
<1>2. Phase = [k \in Nodes |-> Phase[k]] /\ Phase' = [k \in Nodes |-> Phase'[k]]
  BY DEF Phase
<1>3. Phase' = [Phase EXCEPT ![n] = "stopped"]
  BY <1>1, <1>2
<1> QED
  BY <1>3 DEF Links!Change

(* A process that ends loses what it has, and what is sent to it.           *)
LEMMA DieLinks ==
  ASSUME TypeOK, TypeOK', NEW n \in Nodes, Die(n)
  PROVE  Links!Lose /\ Links!Change(n)
<1>1. /\ snp' = [snp EXCEPT ![n] = "gone"] /\ snp'[n] = "gone"
      /\ toSnp'[n] = <<>> /\ fromSnp'[n] = <<>> /\ sending'[n] = None
      /\ \A j \in Nodes : held'[n][j] = None /\ sock'[j][n] = <<>>
  BY DEF Die, TypeOK
<1>2. \A k \in Nodes \ {n} :
        /\ toSnp'[k] = toSnp[k] /\ fromSnp'[k] = fromSnp[k]
        /\ sending'[k] = sending[k] /\ held'[k] = held[k]
        /\ \A j \in Nodes : sock'[j][k] = sock[j][k]
  BY DEF Die, TypeOK
<1>3. ASSUME NEW j \in Nodes, NEW k \in Nodes
      PROVE  \/ OnTheWay(j, k)' = OnTheWay(j, k)
             \/ (snp'[k] # "up" \/ snp'[j] # "up") /\ PartsLeft(j, k)
  <2>1. CASE j # n /\ k # n
    BY <1>2, <2>1, Untouched DEF OnTheWay
  <2>2. CASE j = n \/ k = n
    <3>1. snp'[k] # "up" \/ snp'[j] # "up"
      BY <1>1, <2>2
    <3>2. /\ Arrived(j, k)' = Arrived(j, k) \/ Arrived(j, k)' = <<>>
          /\ Listened(j, k)' = Listened(j, k) \/ Listened(j, k)' = <<>>
      BY <1>1, <1>2, Untouched, Emptied
    <3>3. /\ Sent(j, k)' = Sent(j, k) \/ Sent(j, k)' = <<>>
          /\ Queued(j, k)' = Queued(j, k) \/ Queued(j, k)' = <<>>
      BY <1>1, <1>2, Untouched, Emptied
    <3>4. sock'[j][k] = sock[j][k] \/ sock'[j][k] = <<>>
      BY <1>1, <1>2
    <3>5. PartsLeft(j, k)
      BY <3>2, <3>3, <3>4, PartsAreLeft
    <3> QED
      BY <3>1, <3>5
  <2> QED
    BY <2>1, <2>2
<1> QED
  BY <1>1, <1>3, LosesParts, StopLinks

(* A send that fails is to a node that is not up, or from one.              *)
LEMMA FailLinks ==
  ASSUME TypeOK, TypeOK', StartInv, WayInv, NEW n \in Nodes,
         sending[n] # None, NEW m, m = Head(sending[n].left),
         m \notin conn[n] \/ ~Alive(m),
         sending' = [sending EXCEPT ![n] = SendingRest(n)],
         UNCHANGED <<held, sock, snp, fromSnp, toSnp>>
  PROVE  Links!Lose
<1>1. /\ m \in Nodes /\ m \in Nbrs(n) /\ Sent(n, m)' = <<>>
      /\ \A j, k \in Nodes : j # n \/ k # m => Sent(j, k)' = Sent(j, k)
  <2>1. /\ m \in Nbrs(n) /\ Sent(n, m)' = <<>>
        /\ \A k \in Nodes \ {m} : Sent(n, k)' = Sent(n, k)
        /\ \A j \in Nodes \ {n} : \A k \in Nodes : Sent(j, k)' = Sent(j, k)
    BY RestIsSent
  <2> QED
    BY <2>1, NbrsAreNodes
<1>2. snp[m] # "up" \/ snp[n] # "up"
  BY <1>1, UpAreLinked DEF WayInv
<1>3. ASSUME NEW j \in Nodes, NEW k \in Nodes
      PROVE  \/ OnTheWay(j, k)' = OnTheWay(j, k)
             \/ (snp'[k] # "up" \/ snp'[j] # "up") /\ PartsLeft(j, k)
  <2>1. CASE j # n \/ k # m
    BY <1>1, <2>1, Untouched DEF OnTheWay
  <2>2. CASE j = n /\ k = m
    <3>1. PartsLeft(j, k)
      BY <1>1, <2>2, Untouched, PartsAreLeft
    <3> QED
      BY <1>2, <2>2, <3>1
  <2> QED
    BY <2>1, <2>2
<1> QED
  BY <1>3, LosesParts

LEMMA WaitNetworkLinks ==
  ASSUME TypeOK, TypeOK', StartInv, WayInv, NEW n \in Nodes, WaitNetwork(n)
  PROVE  \/ UNCHANGED <<Path, Phase>>
         \/ Links!Lose /\ (UNCHANGED Phase \/ Links!Change(n))
<1>1. CASE GetPacket(n)
  BY <1>1, GetLinks
<1>2. CASE SendPacket(n)
  <2>1. PICK m : m = Head(sending[n].left) /\ sending[n] # None
    BY <1>2 DEF SendPacket
  <2>2. CASE /\ sock' = [sock EXCEPT ![n][m] = Append(@, sending[n].pkt)]
             /\ sending' = [sending EXCEPT ![n] = SendingRest(n)]
             /\ UNCHANGED <<held, snp, fromSnp, toSnp>>
    BY <2>1, <2>2, SendLinks
  <2>3. CASE /\ m \notin conn[n] \/ ~Alive(m)
             /\ sending' = [sending EXCEPT ![n] = SendingRest(n)]
             /\ UNCHANGED <<held, sock, snp, fromSnp, toSnp>>
    BY <2>1, <2>3, FailLinks, SamePhase
  <2>4. CASE Die(n)
    BY <2>4, DieLinks
  <2> QED
    BY <1>2, <2>1, <2>2, <2>3, <2>4 DEF SendPacket
<1>3. CASE WaitNetworkEnds(n)
  <2>1. /\ snp' = [snp EXCEPT ![n] = "gone"] /\ snp'[n] = "gone"
        /\ fromSnp'[n] = <<>>
        /\ \A k \in Nodes \ {n} : fromSnp'[k] = fromSnp[k]
        /\ UNCHANGED <<held, sock, toSnp, sending>>
    BY <1>3 DEF WaitNetworkEnds, TypeOK
  <2>2. ASSUME NEW j \in Nodes, NEW k \in Nodes
        PROVE  \/ OnTheWay(j, k)' = OnTheWay(j, k)
               \/ (snp'[k] # "up" \/ snp'[j] # "up") /\ PartsLeft(j, k)
    <3>1. CASE j # n
      BY <2>1, <3>1, Untouched DEF OnTheWay
    <3>2. CASE j = n
      BY <2>1, <3>2, Untouched, Emptied, PartsAreLeft
    <3> QED
      BY <3>1, <3>2
  <2> QED
    BY <2>1, <2>2, LosesParts, StopLinks
<1> QED
  BY <1>1, <1>2, <1>3 DEF WaitNetwork

(* The SNP process comes and goes.                                          *)
LEMMA SnpLinks ==
  ASSUME TypeOK, TypeOK', NEW n \in Nodes, SnpConnect(n) \/ SnpStop(n)
  PROVE  Links!Lose /\ Links!Change(n)
<1>1. CASE SnpConnect(n)
  <2>1. /\ snp[n] = "none" /\ snp' = [snp EXCEPT ![n] = "up"]
        /\ UNCHANGED <<held, sock, fromSnp, toSnp, sending>>
    BY <1>1 DEF SnpConnect
  <2>2. \A j, k \in Nodes : OnTheWay(j, k)' = OnTheWay(j, k)
    BY <2>1, Untouched DEF OnTheWay
  <2>3. Links!Lose
    BY <2>2, LosesParts
  <2>4. /\ Phase[n] = "starting" /\ Phase'[n] = "up"
        /\ \A k \in Nodes \ {n} : Phase'[k] = Phase[k]
    BY <2>1 DEF Phase, TypeOK
  <2>5. Phase' = [Phase EXCEPT ![n] = "up"]
    BY <2>4, PhaseIs
  <2> QED
    BY <2>3, <2>4, <2>5 DEF Links!Change
<1>2. CASE SnpStop(n)
  <2>1. /\ snp' = [snp EXCEPT ![n] = "closed"] /\ snp'[n] = "closed"
        /\ toSnp'[n] = <<>> /\ \A k \in Nodes \ {n} : toSnp'[k] = toSnp[k]
        /\ UNCHANGED <<held, sock, fromSnp, sending>>
    BY <1>2 DEF SnpStop, TypeOK
  <2>2. ASSUME NEW j \in Nodes, NEW k \in Nodes
        PROVE  \/ OnTheWay(j, k)' = OnTheWay(j, k)
               \/ (snp'[k] # "up" \/ snp'[j] # "up") /\ PartsLeft(j, k)
    <3>1. CASE k # n
      BY <2>1, <3>1, Untouched DEF OnTheWay
    <3>2. CASE k = n
      BY <2>1, <3>2, Untouched, Emptied, PartsAreLeft
    <3> QED
      BY <3>1, <3>2
  <2> QED
    BY <2>1, <2>2, LosesParts, StopLinks
<1> QED
  BY <1>1, <1>2

(* What a listener loses while no SNP process is connected.                 *)
LEMMA DropLinks ==
  ASSUME TypeOK, TypeOK', NEW n \in Nodes, NEW m \in Nodes, Receive(n, m),
         UNCHANGED held, snp[n] # "up"
  PROVE  Links!Lose /\ UNCHANGED Phase
<1>1. /\ sock[m][n] # <<>> /\ sock' = [sock EXCEPT ![m][n] = Tail(sock[m][n])]
      /\ UNCHANGED <<held, snp, toSnp, fromSnp, sending>>
  BY DEF Receive
<1>2. sock \in [Nodes -> [Nodes -> Seq(Packets)]]
  BY DEF TypeOK
<1>3. /\ sock'[m][n] = Tail(sock[m][n])
      /\ \A j, k \in Nodes : j # m \/ k # n => sock'[j][k] = sock[j][k]
  BY <1>1, <1>2, ChangesOne
<1>4. ASSUME NEW j \in Nodes, NEW k \in Nodes
      PROVE  \/ OnTheWay(j, k)' = OnTheWay(j, k)
             \/ (snp'[k] # "up" \/ snp'[j] # "up") /\ PartsLeft(j, k)
  <2>1. CASE j # m \/ k # n
    BY <1>1, <1>3, <2>1, Untouched DEF OnTheWay
  <2>2. CASE j = m /\ k = n
    BY <1>1, <1>3, <2>2, Untouched, PartsAreLeft
  <2> QED
    BY <2>1, <2>2
<1> QED
  BY <1>1, <1>4, LosesParts, SamePhase

LEMMA DropHeldLinks ==
  ASSUME TypeOK, TypeOK', NEW n \in Nodes, NEW m \in Nodes, snp[n] # "up",
         held' = [held EXCEPT ![n][m] = None],
         UNCHANGED <<sock, snp, toSnp, fromSnp, sending>>
  PROVE  Links!Lose /\ UNCHANGED Phase
<1>1. held \in [Nodes -> [Nodes -> Packets \cup {None}]]
  BY DEF TypeOK
<1>2. /\ held'[n][m] = None
      /\ \A j, k \in Nodes : j # m \/ k # n => held'[k][j] = held[k][j]
  BY <1>1, ChangesOne
<1>3. ASSUME NEW j \in Nodes, NEW k \in Nodes
      PROVE  \/ OnTheWay(j, k)' = OnTheWay(j, k)
             \/ (snp'[k] # "up" \/ snp'[j] # "up") /\ PartsLeft(j, k)
  <2>1. CASE j # m \/ k # n
    BY <1>2, <2>1, Untouched DEF OnTheWay
  <2>2. CASE j = m /\ k = n
    BY <1>2, <2>2, Untouched, Emptied, PartsAreLeft
  <2> QED
    BY <2>1, <2>2
<1> QED
  BY <1>3, LosesParts, SamePhase

(* A listener ends when there is nothing to be read, or one of the two ends *)
(* of the connection is not up.                                             *)
LEMMA EndLinks ==
  ASSUME TypeOK, TypeOK', StartInv, RelayInv, WayInv, NEW n \in Nodes,
         NEW m \in Nodes, ListenerEnds(n, m)
  PROVE  Links!Lose /\ UNCHANGED Phase
<1>1. /\ m \notin conn[n] \/ ~Alive(m)
      /\ sock' = [sock EXCEPT ![m][n] = <<>>]
      /\ UNCHANGED <<held, snp, toSnp, fromSnp, sending>>
  BY DEF ListenerEnds
<1>2. sock \in [Nodes -> [Nodes -> Seq(Packets)]]
  BY DEF TypeOK
<1>3. /\ sock'[m][n] = <<>>
      /\ \A j, k \in Nodes : j # m \/ k # n => sock'[j][k] = sock[j][k]
  BY <1>1, <1>2, ChangesOne
<1>4. sock[m][n] # <<>> => snp[m] # "up" \/ snp[n] # "up"
  <2>1. sock[m][n] # <<>> => m \in Nbrs(n)
    BY DEF RelayInv
  <2>2. m \in Nbrs(n) => ~Up(n) \/ ~Up(m)
    BY <1>1, UpAreLinked
  <2> QED
    BY <2>1, <2>2 DEF WayInv
<1>5. ASSUME NEW j \in Nodes, NEW k \in Nodes
      PROVE  \/ OnTheWay(j, k)' = OnTheWay(j, k)
             \/ (snp'[k] # "up" \/ snp'[j] # "up") /\ PartsLeft(j, k)
  <2>1. CASE (j # m \/ k # n) \/ sock[m][n] = <<>>
    <3>1. sock'[j][k] = sock[j][k]
      BY <1>3, <2>1
    <3> QED
      BY <1>1, <3>1, Untouched DEF OnTheWay
  <2>2. CASE j = m /\ k = n /\ sock[m][n] # <<>>
    <3>1. PartsLeft(j, k)
      BY <1>1, <1>3, <2>2, Untouched, PartsAreLeft
    <3> QED
      BY <1>1, <1>4, <2>2, <3>1
  <2> QED
    BY <2>1, <2>2
<1> QED
  BY <1>1, <1>5, LosesParts, SamePhase

LEMMA ListenerLinks ==
  ASSUME TypeOK, TypeOK', StartInv, RelayInv, WayInv, NEW n \in Nodes,
         NEW m \in Nodes, Listener(n, m)
  PROVE  \/ UNCHANGED <<Path, Phase>>
         \/ Links!Lose /\ (UNCHANGED Phase \/ Links!Change(n))
<1>1. CASE ReceiveEarly(n, m)
  BY <1>1, DropLinks DEF ReceiveEarly
<1>2. CASE ReceivePacket(n, m)
  BY <1>2, ReceiveLinks
<1>3. CASE ReceiveLate(n, m)
  BY <1>3, DropLinks DEF ReceiveLate
<1>4. CASE Forward(n, m)
  <2>1. CASE /\ snp[n] = "up"
             /\ toSnp' = [toSnp EXCEPT ![n] = Append(@, held[n][m])]
             /\ held' = [held EXCEPT ![n][m] = None]
             /\ UNCHANGED <<sock, snp, fromSnp, sending>>
    BY <1>4, <2>1, ForwardLinks DEF Forward
  <2>2. CASE /\ snp[n] \in {"closed", "gone"}
             /\ held' = [held EXCEPT ![n][m] = None]
             /\ UNCHANGED <<sock, snp, toSnp, fromSnp, sending>>
    BY <2>2, DropHeldLinks
  <2>3. CASE Die(n)
    BY <2>3, DieLinks
  <2> QED
    BY <1>4, <2>1, <2>2, <2>3 DEF Forward
<1>5. CASE ListenerEnds(n, m)
  BY <1>5, EndLinks
<1> QED
  BY <1>1, <1>2, <1>3, <1>4, <1>5 DEF Listener

(* Nothing is on its way while the processes find each other.               *)
LEMMA StartingLinks ==
  ASSUME NEW n \in Nodes, Starting(n)
  PROVE  UNCHANGED <<Path, Phase>>
<1>1. UNCHANGED <<held, sock, snp, fromSnp, toSnp, sending>>
  BY DEF Starting, Start, Wake, Connect, ConnectNbrsReturns, Accept, Join,
         StartThreads, relayVars
<1> QED
  BY <1>1, Untouched, Stutters DEF OnTheWay

LEMMA InitLinks == Init => Links!Init
<1> SUFFICES ASSUME Init PROVE Links!Init
  OBVIOUS
<1>1. ASSUME NEW m \in Nodes, NEW n \in Nodes PROVE OnTheWay(m, n) = <<>>
  <2>1. /\ toSnp[n] = <<>> /\ fromSnp[m] = <<>> /\ sock[m][n] = <<>>
        /\ held[n][m] = None /\ sending[m] = None
    BY DEF Init
  <2>2. Arrived(m, n) = From(toSnp[n], m) /\ Queued(m, n) = For(fromSnp[m], n)
    BY DEF Arrived, From, Queued, For
  <2>3. Arrived(m, n) = <<>> /\ Queued(m, n) = <<>>
    BY <2>1, <2>2, FromNothing, ForNothing
  <2>4. Listened(m, n) = <<>> /\ Sent(m, n) = <<>>
    BY <2>1 DEF Listened, Sent
  <2>5. <<>> \o <<>> = <<>>
    BY ConcatEmptySeq
  <2> QED
    BY <2>1, <2>3, <2>4, <2>5 DEF OnTheWay
<1>2. Path = [m \in Nodes |-> [n \in Nodes |-> <<>>]]
  BY <1>1 DEF Path
<1>3. Phase = [n \in Nodes |-> "starting"]
  BY DEF Phase, Init
<1> QED
  BY <1>2, <1>3 DEF Links!Init

(* The overlay implements the links that routing relies on, for any network *)
(* and number of packets: what an SNP process hands over for a neighbour is *)
(* taken there in order, once, and is lost only while one of the two is not *)
(* connected, whoever else starts late, stops or is ended by SIGPIPE.       *)
THEOREM LinksAreImplemented == Spec => ImplementsLinks
<1>1. ASSUME OverlayInv, OverlayInv', WayInv, [Next]_vars
      PROVE  [Links!Next]_<<Path, Phase>>
  <2>1. ASSUME NEW n \in Nodes,
               \/ UNCHANGED <<Path, Phase>>
               \/ Links!Lose /\ (UNCHANGED Phase \/ Links!Change(n))
               \/ Links!Hand(n) \/ Links!Take(n)
        PROVE  [Links!Next]_<<Path, Phase>>
    BY <2>1 DEF Links!Next
  <2>2. CASE UNCHANGED vars
    BY <2>2, Untouched, Stutters DEF vars, startVars, relayVars, OnTheWay
  <2>3. CASE Next
    <3>1. PICK n \in Nodes :
            \/ Starting(n) \/ WaitNetwork(n) \/ Interrupt(n)
            \/ SnpConnect(n) \/ SnpHand(n) \/ SnpTake(n) \/ SnpStop(n)
            \/ \E m \in Nodes : Listener(n, m)
      BY <2>3 DEF Next
    <3>2. TypeOK /\ TypeOK' /\ StartInv /\ RelayInv /\ WayInv
      BY <1>1 DEF OverlayInv
    <3>3. CASE Starting(n)
      BY <2>1, <3>3, StartingLinks
    <3>4. CASE WaitNetwork(n)
      BY <2>1, <3>2, <3>4, WaitNetworkLinks
    <3>5. CASE Interrupt(n)
      BY <2>1, <3>2, <3>5, DieLinks DEF Interrupt
    <3>6. CASE SnpConnect(n) \/ SnpStop(n)
      BY <2>1, <3>2, <3>6, SnpLinks
    <3>7. CASE SnpHand(n)
      BY <2>1, <3>2, <3>7, HandLinks
    <3>8. CASE SnpTake(n)
      BY <2>1, <3>2, <3>8, TakeLinks
    <3>9. CASE \E m \in Nodes : Listener(n, m)
      BY <2>1, <3>2, <3>9, ListenerLinks
    <3> QED
      BY <3>1, <3>3, <3>4, <3>5, <3>6, <3>7, <3>8, <3>9
  <2> QED
    BY <1>1, <2>2, <2>3
<1>2. OverlayInv /\ WayInv /\ [Next]_vars => WayInv'
  BY StepWay DEF OverlayInv
<1> QED
  BY <1>1, <1>2, InitWay, InitLinks, OverlaySafety,
     PTL DEF Spec, ImplementsLinks, Links!Spec
=============================================================================
