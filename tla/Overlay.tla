------------------------------- MODULE Overlay -------------------------------
(***************************************************************************)
(* The ON process of every node (overlay/overlay.c, neighbortable.c): how  *)
(* the processes connect to each other when they start, and how they carry *)
(* packets between the local SNP process and the neighbours.               *)
(*                                                                         *)
(* The threads of an ON process: main, which starts the others and         *)
(* connects to the neighbours with smaller IDs; waitNbrs, which accepts    *)
(* those with larger IDs; one listen_to_neighbor per neighbour;            *)
(* waitNetwork, which reads from the SNP process.                          *)
(*                                                                         *)
(* A TCP connection is a bounded queue of packets in each direction: a     *)
(* send blocks as long as there is no room.  A process that has stopped    *)
(* leaves its neighbours with half a connection; nobody ignores SIGPIPE,   *)
(* so a send to it may go unnoticed or end the sender.                     *)
(***************************************************************************)
EXTENDS Naturals, FiniteSets, SequencesExt, Picking

CONSTANTS
  Nodes,              \* node IDs
  Table,              \* Table[n]: the neighbours of n in the order of its nt
  SockCap,            \* packets the buffers of a TCP connection have room for
  None,
  MaxPackets,         \* bound: packets the SNP process of n hands over
  MayStop,            \* bound: nodes whose ON process may get SIGINT
  SnpMayStop          \* bound: nodes whose SNP process may stop

VARIABLES
  inTime,             \* all are started within OVERLAY_START_DELAY
  main,               \* of the ON process, where its main thread is
  backlog,            \* connections to n that waitNbrs has not accepted
  accepted,           \* how many waitNbrs has accepted
  conn,               \* neighbours whose entry in nt has a connection
  listening,          \* neighbours with a listen_to_neighbor thread
  held,               \* held[n][m]: what that thread is forwarding
  sock,               \* sock[m][n]: packets on the connection from m to n
  snp,                \* the connection to the local SNP process
  fromSnp, toSnp,     \* packets on it, either way
  sending,            \* what waitNetwork is sending, and to whom still
  handed              \* how many packets the SNP process has handed over

startVars == <<inTime, main, backlog, accepted, conn>>
relayVars == <<listening, held, sock, snp, fromSnp, toSnp, sending, handed>>
vars == <<startVars, relayVars>>

Nbrs(n) == Range(Table[n])
Smaller(n) == {m \in Nbrs(n) : m < n}
Larger(n) == {m \in Nbrs(n) : n < m}

ASSUME OverlayAssumption ==
  /\ Nodes \subseteq Nat /\ IsFiniteSet(Nodes)
  /\ Table \in [Nodes -> Seq(Nodes) \ {<<>>}]
  /\ \A n \in Nodes : IsInjective(Table[n])
  /\ \A n, m \in Nodes : m \in Nbrs(n) => n \in Nbrs(m) /\ m # n
  /\ SockCap \in Nat \ {0} /\ MaxPackets \in [Nodes -> Nat]
  /\ MayStop \subseteq Nodes /\ SnpMayStop \subseteq Nodes

Packets == UNION {[from : {n}, no : 1 .. MaxPackets[n]] : n \in Nodes}

(* A packet and the neighbours that it is for. *)
Jobs == [pkt : Packets, left : Seq(Nodes) \ {<<>>}]

ASSUME NoneAssumption == None \notin Packets \cup Jobs

Alive(n) == main[n] # "dead"

(* listen_to_neighbor and waitNetwork threads are there. *)
Up(n) == main[n] = "up"

Init ==
  /\ inTime \in BOOLEAN
  /\ main = [n \in Nodes |-> "off"]
  /\ backlog = [n \in Nodes |-> <<>>]
  /\ accepted = [n \in Nodes |-> 0]
  /\ conn = [n \in Nodes |-> {}]
  /\ listening = [n \in Nodes |-> {}]
  /\ held = [n \in Nodes |-> [m \in Nodes |-> None]]
  /\ sock = [m \in Nodes |-> [n \in Nodes |-> <<>>]]
  /\ snp = [n \in Nodes |-> "none"]
  /\ fromSnp = [n \in Nodes |-> <<>>]
  /\ toSnp = [n \in Nodes |-> <<>>]
  /\ sending = [n \in Nodes |-> None]
  /\ handed = [n \in Nodes |-> 0]

----------------------------------------------------------------------------
(* Starting *)

(* The process is started: the table is empty, waitNbrs listens (before it  *)
(* does, the node is to others as if it were not started), main sleeps.     *)
Start(n) ==
  /\ main[n] = "off"
  /\ main' = [main EXCEPT ![n] = "sleeping"]
  /\ UNCHANGED <<inTime, backlog, accepted, conn, relayVars>>

(* OVERLAY_START_DELAY is over. *)
Wake(n) ==
  /\ main[n] = "sleeping"
  /\ inTime => \A m \in Nodes : main[m] # "off"
  /\ main' = [main EXCEPT ![n] = "connecting"]
  /\ UNCHANGED <<inTime, backlog, accepted, conn, relayVars>>

(* connectNbrs goes through the table ... *)
Missing(n) == {i \in DOMAIN Table[n] : Table[n][i] \in Smaller(n) \ conn[n]}

NextToConnect(n) ==
  Table[n][CHOOSE i \in Missing(n) : \A j \in Missing(n) : i <= j]

(* ... and the connection is there as soon as the neighbour listens.  Its   *)
(* waitNbrs need not have accepted it, nor ever do so.                      *)
Connect(n) ==
  /\ main[n] = "connecting" /\ Missing(n) # {}
  /\ LET m == NextToConnect(n)
     IN  /\ main[m] \notin {"off", "dead"}
         /\ backlog' = [backlog EXCEPT ![m] = Append(@, n)]
         /\ conn' = [conn EXCEPT ![n] = @ \cup {m}]
  /\ UNCHANGED <<inTime, main, accepted, relayVars>>

(* connectNbrs returns when all are connected, or gives up at the first     *)
(* neighbour that does not listen; main goes on all the same.               *)
ConnectNbrsReturns(n) ==
  /\ main[n] = "connecting"
  /\ Missing(n) # {} => main[NextToConnect(n)] \in {"off", "dead"}
  /\ main' = [main EXCEPT ![n] = "joining"]
  /\ UNCHANGED <<inTime, backlog, accepted, conn, relayVars>>

(* mutant of AllAccepted: waitNbrs waits for a connection from every        *)
(* neighbour, as the comment above its loop has it                          *)
NbrNumAccepted(n) == accepted[n] = Cardinality(Nbrs(n))

(* waitNbrs has as many connections as there are larger neighbours. *)
AllAccepted(n) == accepted[n] = Cardinality(Larger(n))

(* waitNbrs takes one connection after the other and looks up who it is. *)
Accept(n) ==
  /\ main[n] \notin {"off", "dead"} /\ ~AllAccepted(n)
  /\ backlog[n] # <<>>
  /\ backlog' = [backlog EXCEPT ![n] = Tail(@)]
  /\ accepted' = [accepted EXCEPT ![n] = @ + 1]
  /\ conn' = [conn EXCEPT ![n] = @ \cup ({Head(backlog[n])} \cap Nbrs(n))]
  /\ UNCHANGED <<inTime, main, relayVars>>

(* The listeners and waitNetwork. *)
StartThreads(n) ==
  /\ main' = [main EXCEPT ![n] = "up"]
  /\ listening' = [listening EXCEPT ![n] = Nbrs(n)]
  /\ UNCHANGED <<inTime, backlog, accepted, conn, held, sock, snp, fromSnp,
                 toSnp, sending, handed>>

(* mutant of Join: main does not wait for waitNbrs *)
JoinAtOnce(n) == main[n] = "joining" /\ StartThreads(n)

(* pthread_join: waitNbrs has ended. *)
Join(n) == main[n] = "joining" /\ AllAccepted(n) /\ StartThreads(n)

----------------------------------------------------------------------------
(* Stopping: SIGINT (overlay_stop), or SIGPIPE.  All connections are closed; *)
(* what has been sent may still be read.  The SNP process notices.           *)
Die(n) ==
  /\ main' = [main EXCEPT ![n] = "dead"]
  /\ backlog' = [backlog EXCEPT ![n] = <<>>]
  /\ conn' = [conn EXCEPT ![n] = {}]
  /\ listening' = [listening EXCEPT ![n] = {}]
  /\ held' = [held EXCEPT ![n] = [m \in Nodes |-> None]]
  /\ sock' = [m \in Nodes |-> [sock[m] EXCEPT ![n] = <<>>]]
  /\ snp' = [snp EXCEPT ![n] = "gone"]
  /\ fromSnp' = [fromSnp EXCEPT ![n] = <<>>]
  /\ toSnp' = [toSnp EXCEPT ![n] = <<>>]
  /\ sending' = [sending EXCEPT ![n] = None]
  /\ UNCHANGED <<inTime, accepted, handed>>

Interrupt(n) == n \in MayStop /\ Alive(n) /\ main[n] # "off" /\ Die(n)

----------------------------------------------------------------------------
(* The SNP process (network/network.c), as far as the ON process sees it.   *)

(* It connects, and waitNetwork accepts. *)
SnpConnect(n) ==
  /\ Up(n) /\ snp[n] = "none"
  /\ snp' = [snp EXCEPT ![n] = "up"]
  /\ UNCHANGED <<startVars, listening, held, sock, fromSnp, toSnp, sending,
                 handed>>

(* overlay_sendpkt: to the next hop, or to all neighbours. *)
SnpHand(n) ==
  /\ snp[n] = "up" /\ handed[n] < MaxPackets[n]
  /\ Len(fromSnp[n]) < SockCap
  /\ handed' = [handed EXCEPT ![n] = @ + 1]
  /\ \E to \in {<<m>> : m \in Nbrs(n)} \cup {Table[n]} :
       fromSnp' = [fromSnp EXCEPT ![n] =
         Append(@, [pkt |-> [from |-> n, no |-> handed[n] + 1], left |-> to])]
  /\ UNCHANGED <<startVars, listening, held, sock, snp, toSnp, sending>>

(* overlay_recvpkt *)
SnpTake(n) ==
  /\ snp[n] = "up" /\ toSnp[n] # <<>>
  /\ toSnp' = [toSnp EXCEPT ![n] = Tail(@)]
  /\ UNCHANGED <<startVars, listening, held, sock, snp, fromSnp, sending,
                 handed>>

(* It stops; the ON process has not noticed. *)
SnpStop(n) ==
  /\ snp[n] = "up" /\ n \in SnpMayStop
  /\ snp' = [snp EXCEPT ![n] = "closed"]
  /\ toSnp' = [toSnp EXCEPT ![n] = <<>>]
  /\ UNCHANGED <<startVars, listening, held, sock, fromSnp, sending, handed>>

----------------------------------------------------------------------------
(* waitNetwork *)

GetPacket(n) ==
  /\ snp[n] \in {"up", "closed"} /\ sending[n] = None
  /\ fromSnp[n] # <<>>
  /\ sending' = [sending EXCEPT ![n] = Head(fromSnp[n])]
  /\ fromSnp' = [fromSnp EXCEPT ![n] = Tail(@)]
  /\ UNCHANGED <<startVars, listening, held, sock, snp, toSnp, handed>>

(* mutant of SendingRest: the loop does not see that it is at its end       *)
SendingNoRest(n) == [sending[n] EXCEPT !.left = Tail(@)]

(* The loop over the neighbours goes on after a send that succeeded or      *)
(* returned -1.                                                             *)
SendingRest(n) ==
  LET rest == Tail(sending[n].left)
  IN  IF rest = <<>> THEN None ELSE [sending[n] EXCEPT !.left = rest]

(* mutant of SendPacket: the loop over the neighbours ends at the first     *)
(* that has no connection                                                   *)
SendPacketUntilFailure(n) ==
  /\ sending[n] # None
  /\ LET m == Head(sending[n].left)
     IN  \/ /\ m \in conn[n] /\ Alive(m)
            /\ Len(sock[n][m]) < SockCap
            /\ sock' = [sock EXCEPT ![n][m] = Append(@, sending[n].pkt)]
            /\ sending' = [sending EXCEPT ![n] = SendingRest(n)]
            /\ UNCHANGED <<startVars, listening, held, snp, fromSnp, toSnp,
                           handed>>
         \/ /\ m \notin conn[n] \/ ~Alive(m)
            /\ sending' = [sending EXCEPT ![n] = None]
            /\ UNCHANGED <<startVars, listening, held, sock, snp, fromSnp,
                           toSnp, handed>>

(* sendpkt to the next neighbour: it waits for room on the connection; it   *)
(* fails if there is none; one whose other end is gone may take the packet, *)
(* refuse it or end this process.                                           *)
SendPacket(n) ==
  /\ sending[n] # None
  /\ LET m == Head(sending[n].left)
     IN  \/ /\ m \in conn[n] /\ Alive(m)
            /\ Len(sock[n][m]) < SockCap
            /\ sock' = [sock EXCEPT ![n][m] = Append(@, sending[n].pkt)]
            /\ sending' = [sending EXCEPT ![n] = SendingRest(n)]
            /\ UNCHANGED <<startVars, listening, held, snp, fromSnp, toSnp,
                           handed>>
         \/ /\ m \notin conn[n] \/ ~Alive(m)
            /\ sending' = [sending EXCEPT ![n] = SendingRest(n)]
            /\ UNCHANGED <<startVars, listening, held, sock, snp, fromSnp,
                           toSnp, handed>>
         \/ m \in conn[n] /\ ~Alive(m) /\ Die(n)

(* getpktToSend fails: the thread ends, no other SNP process is accepted.   *)
(* What the last one has sent may be read before or not.                    *)
WaitNetworkEnds(n) ==
  /\ snp[n] = "closed" /\ sending[n] = None
  /\ snp' = [snp EXCEPT ![n] = "gone"]
  /\ fromSnp' = [fromSnp EXCEPT ![n] = <<>>]
  /\ UNCHANGED <<startVars, listening, held, sock, toSnp, sending, handed>>

----------------------------------------------------------------------------
(* listen_to_neighbor for m *)

Receive(n, m) ==
  /\ m \in listening[n] /\ m \in conn[n] /\ held[n][m] = None
  /\ sock[m][n] # <<>>
  /\ sock' = [sock EXCEPT ![m][n] = Tail(@)]
  /\ UNCHANGED <<startVars, snp, fromSnp, toSnp, sending, handed>>

(* mutant of ReceiveEarly: the thread ends, as it does when the SNP process *)
(* is gone                                                                  *)
ReceiveEarlyEnds(n, m) ==
  /\ snp[n] = "none" /\ Receive(n, m)
  /\ listening' = [listening EXCEPT ![n] = @ \ {m}]
  /\ UNCHANGED held

(* No SNP process yet: the packet is dropped. *)
ReceiveEarly(n, m) ==
  snp[n] = "none" /\ Receive(n, m) /\ UNCHANGED <<listening, held>>

ReceivePacket(n, m) ==
  /\ snp[n] \in {"up", "closed"} /\ Receive(n, m)
  /\ held' = [held EXCEPT ![n][m] = Head(sock[m][n])]
  /\ UNCHANGED listening

(* None any more: the packet is dropped and the thread ends; the connection *)
(* stays open.                                                              *)
ReceiveLate(n, m) ==
  /\ snp[n] = "gone" /\ Receive(n, m)
  /\ listening' = [listening EXCEPT ![n] = @ \ {m}]
  /\ UNCHANGED held

(* forwardpktToSNP: waits for room; fails without a connection; one whose   *)
(* other end is gone may take the packet, refuse it or end this process.    *)
Forward(n, m) ==
  /\ held[n][m] # None
  /\ \/ /\ snp[n] = "up" /\ Len(toSnp[n]) < SockCap
        /\ toSnp' = [toSnp EXCEPT ![n] = Append(@, held[n][m])]
        /\ held' = [held EXCEPT ![n][m] = None]
        /\ UNCHANGED <<startVars, listening, sock, snp, fromSnp, sending,
                       handed>>
     \/ /\ snp[n] \in {"closed", "gone"}
        /\ held' = [held EXCEPT ![n][m] = None]
        /\ UNCHANGED <<startVars, listening, sock, snp, fromSnp, toSnp,
                       sending, handed>>
     \/ snp[n] = "closed" /\ Die(n)

(* recvpkt fails: there is no connection, or its other end is gone and what *)
(* it has sent is read or lost.                                             *)
ListenerEnds(n, m) ==
  /\ m \in listening[n] /\ held[n][m] = None
  /\ m \notin conn[n] \/ ~Alive(m)
  /\ conn' = [conn EXCEPT ![n] = @ \ {m}]
  /\ listening' = [listening EXCEPT ![n] = @ \ {m}]
  /\ sock' = [sock EXCEPT ![m][n] = <<>>]
  /\ UNCHANGED <<inTime, main, backlog, accepted, held, snp, fromSnp, toSnp,
                 sending, handed>>

----------------------------------------------------------------------------
Starting(n) ==
  Start(n) \/ Wake(n) \/ Connect(n) \/ ConnectNbrsReturns(n) \/ Accept(n)
           \/ Join(n)

WaitNetwork(n) == GetPacket(n) \/ SendPacket(n) \/ WaitNetworkEnds(n)

Listener(n, m) ==
  ReceiveEarly(n, m) \/ ReceivePacket(n, m) \/ ReceiveLate(n, m)
    \/ Forward(n, m) \/ ListenerEnds(n, m)

Next ==
  \E n \in Nodes :
    \/ Starting(n) \/ WaitNetwork(n) \/ Interrupt(n)
    \/ SnpConnect(n) \/ SnpHand(n) \/ SnpTake(n) \/ SnpStop(n)
    \/ \E m \in Nodes : Listener(n, m)

Spec == Init /\ [][Next]_vars

(* Every ON process is started and every thread of it runs; the SNP process *)
(* connects at some time.  That it reads is not assumed: its pkthandler     *)
(* also sends, and waits for the ON process then.                           *)
FairSpec ==
  /\ Spec
  /\ \A n \in Nodes :
       /\ WF_vars(Start(n)) /\ WF_vars(Wake(n))
       /\ WF_vars(Connect(n) \/ ConnectNbrsReturns(n) \/ Join(n))
       /\ WF_vars(Accept(n))
       /\ WF_vars(WaitNetwork(n))
       /\ WF_vars(SnpConnect(n))
       /\ \A m \in Nodes : WF_vars(Listener(n, m))

----------------------------------------------------------------------------
(* Every variable has a value the code can give it. *)
TypeOK ==
  /\ inTime \in BOOLEAN
  /\ main \in [Nodes -> {"off", "sleeping", "connecting", "joining", "up",
                         "dead"}]
  /\ backlog \in [Nodes -> Seq(Nodes)]
  /\ accepted \in [Nodes -> Nat]
  /\ conn \in [Nodes -> SUBSET Nodes]
  /\ listening \in [Nodes -> SUBSET Nodes]
  /\ held \in [Nodes -> [Nodes -> Packets \cup {None}]]
  /\ sock \in [Nodes -> [Nodes -> Seq(Packets)]]
  /\ snp \in [Nodes -> {"none", "up", "closed", "gone"}]
  /\ fromSnp \in [Nodes -> Seq(Jobs)]
  /\ toSnp \in [Nodes -> Seq(Packets)]
  /\ sending \in [Nodes -> Jobs \cup {None}]
  /\ handed \in [Nodes -> Nat]

AllAlive == \A n \in Nodes : Alive(n)

(* "At this point, all connections to the neighbors are created": when main *)
(* starts the listeners every neighbour has its connection, if all were     *)
(* started in time and none has stopped; and the neighbour has it in its    *)
(* table too once it is up, although the two have found each other by a     *)
(* connect that does not wait for the accept and an accept that counts.     *)
AllLinked ==
  inTime /\ AllAlive =>
    \A n \in Nodes : Up(n) => conn[n] = Nbrs(n)

(* A larger neighbour has left connectNbrs without a connection to m: its   *)
(* waitNbrs may wait for ever.                                              *)
GivenUpOn(m) ==
  \E k \in Larger(m) :
    main[k] \in {"joining", "up", "dead"} /\ m \notin conn[k]

(* A send that waits for room waits for a thread that reads, with two       *)
(* exceptions.  The SNP process of the neighbour is gone, and its thread    *)
(* has ended.  Or the neighbour does not read yet: it is still in           *)
(* waitNbrs, and comes out of it if all are started in time and none stops, *)
(* for then no larger neighbour has given up on it.  Otherwise it may never *)
(* come out, and the send waits for ever with it.                           *)
FullOnlyIfRead ==
  \A n, m \in Nodes :
    Len(sock[n][m]) = SockCap =>
      \/ n \in listening[m]
      \/ snp[m] = "gone"
      \/ ~Up(m) /\ (inTime /\ AllAlive => ~GivenUpOn(m))

(* Every ON process becomes ready unless one stops. *)
AllInitialise ==
  inTime => <>((\A n \in Nodes : Up(n)) \/ \E n \in Nodes : ~Alive(n))

(* As long as no process stops, and if every SNP process keeps reading,     *)
(* everything handed over is carried to its end and nothing stays in a      *)
(* socket.  The reader is pkthandler, which waits in overlay_sendpkt when   *)
(* its own connection is full: where that is for ever, in a ring of full    *)
(* buffers, nothing is promised.                                            *)
Idle ==
  \A n \in Nodes :
    /\ fromSnp[n] = <<>> /\ toSnp[n] = <<>> /\ sending[n] = None
    /\ \A m \in Nodes : sock[n][m] = <<>> /\ held[n][m] = None

Carries ==
  inTime /\ (\A n \in Nodes : WF_vars(SnpTake(n))) =>
    <>[](Idle \/ \E n \in Nodes : snp[n] \in {"closed", "gone"})

(* What is on its way from m to n, from its end to its beginning on the way *)
(* there, the next to be read first: in SNP's connection, in the hands of   *)
(* the listener, on the socket, in the hands of waitNetwork, in the other   *)
(* SNP connection.                                                          *)
Arrived(m, n) ==
  Pick(toSnp[n], {i \in DOMAIN toSnp[n] : toSnp[n][i].from = m})

Listened(m, n) == IF held[n][m] # None THEN <<held[n][m]>> ELSE <<>>

Sent(m, n) ==
  IF sending[m] # None /\ n \in Range(sending[m].left)
    THEN <<sending[m].pkt>> ELSE <<>>

PacketsOf(jobs) == [i \in DOMAIN jobs |-> jobs[i].pkt]

Queued(m, n) ==
  Pick(PacketsOf(fromSnp[m]),
       {i \in DOMAIN fromSnp[m] : n \in Range(fromSnp[m][i].left)})

OnTheWay(m, n) ==
  Arrived(m, n) \o Listened(m, n) \o sock[m][n] \o Sent(m, n) \o Queued(m, n)

Path == [m \in Nodes |-> [n \in Nodes |-> OnTheWay(m, n)]]

Phase ==
  [n \in Nodes |-> CASE snp[n] = "none" -> "starting"
                     [] snp[n] = "up" -> "up"
                     [] OTHER -> "stopped"]

Links == INSTANCE Links WITH path <- Path, phase <- Phase

(* The overlay implements the links that the SNP processes rely on: what    *)
(* one hands over for a neighbour reaches the neighbour's SNP process in    *)
(* order, once, and is lost only if one of the two processes is not, or no  *)
(* longer, connected; whatever the order of starts, and who else stops.     *)
ImplementsLinks == Links!Spec
=============================================================================
