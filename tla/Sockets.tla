------------------------------ MODULE Sockets ------------------------------
(***************************************************************************)
(* The tables of transport control blocks: any number of client processes  *)
(* (client/srt_client.c) and server processes (server/srt_server.c), each  *)
(* on a node of its own with a table of MAX_TRANSPORT_CONNECTIONS entries, *)
(* one application thread that makes the calls, and one seghandler that    *)
(* finds the TCB of a segment by its port.                                 *)
(*                                                                         *)
(* An entry is named by its process and its index, <<node, sockfd>>, and   *)
(* an end of a connection by its address, <<node, port>>.  What a single   *)
(* connection does with its data is the business of Srt; here segments are *)
(* the control segments, which open and close connections.                 *)
(*                                                                         *)
(* net holds every segment ever sent.  A segment is received at any time,  *)
(* in any order, never (it was lost, or spoiled, or discarded), or more    *)
(* than once (calls send the same segment again).                          *)
(***************************************************************************)
EXTENDS Naturals

CONSTANTS
  Clients, Servers,            \* nodes of the client and server processes
  ClientPorts, ServerPorts,    \* port numbers the applications choose from
  MAX_TRANSPORT_CONNECTIONS,   \* entries of a TCB table
  SYN_MAX_RETRY, FIN_MAX_RETRY,
  MaxTimers                    \* bound: closeWaitTimer threads of one TCB

VARIABLES
  cState, cPort, cPeer,  \* client_TCB_Table; state "NULL" is a NULL entry
  cCall,                 \* the call a client's application is in
  cHand,                 \* the TCB and segment a client's seghandler acts on
  sState, sPort, sPeer,  \* server_TCB_Table
  accepting,             \* the entry a server's srt_server_accept waits for
  cwPolling, cwArmed,    \* closeWaitTimer threads of each entry
  late,                  \* history: addresses where an accept has failed while
                         \* a closeWaitTimer of the entry was running
  net,                   \* the segments sent so far
  finished,              \* history: addresses that have sent a FIN
  stray                  \* history: a handler acted for a call that was over,
                         \* or a TCB was freed under a handler or a timer

clientVars == <<cState, cPort, cPeer, cCall, cHand, finished>>
serverVars == <<sState, sPort, sPeer, accepting, cwPolling, cwArmed, late>>
vars == <<clientVars, serverVars, net, stray>>

ASSUME SocketsAssumption ==
  /\ Clients \cap Servers = {}
  /\ MAX_TRANSPORT_CONNECTIONS \in Nat \ {0}
  /\ SYN_MAX_RETRY \in Nat /\ FIN_MAX_RETRY \in Nat
  /\ MaxTimers \in Nat \ {0}

Sockfds == 0 .. MAX_TRANSPORT_CONNECTIONS - 1

ClientSockets == Clients \X Sockfds
ServerSockets == Servers \X Sockfds

ClientAddrs == Clients \X ClientPorts
ServerAddrs == Servers \X ServerPorts

NoPort == 0
NoPeer == <<0, NoPort>>        \* after memset: a node nobody has a route to

NoCall  == [name |-> "none", sockfd |-> 0, tries |-> 0]
NoHand  == [type |-> "none", sockfd |-> 0, from |-> NoPeer, tcb |-> "live"]
NoSock  == MAX_TRANSPORT_CONNECTIONS

Calls == [name : {"none", "connect", "giveup", "disconnect"},
          sockfd : Sockfds, tries : Nat]
Hands == [type : {"none", "SYNACK", "FINACK"}, sockfd : Sockfds,
          from : ServerAddrs \cup {NoPeer}, tcb : {"live", "freed"}]

Segment(type, from, to) == [type |-> type, from |-> from, to |-> to]

Segments ==
  [type : {"SYN", "FIN"}, from : ClientAddrs, to : ServerAddrs] \cup
  [type : {"SYNACK", "FINACK"}, from : ServerAddrs, to : ClientAddrs]

CAddr(k) == <<k[1], cPort[k]>>
SAddr(k) == <<k[1], sPort[k]>>

SendToPeer(type, k) ==
  net' = IF cPeer[k] = NoPeer THEN net
         ELSE net \cup {Segment(type, CAddr(k), cPeer[k])}

Timers(k) == cwPolling[k] + cwArmed[k]

(* The first NULL entry of a node's table. *)
IsFirstFree(state, node, fd) ==
  /\ state[<<node, fd>>] = "NULL"
  /\ \A i \in 0 .. fd - 1 : state[<<node, i>>] # "NULL"

(* The entry seghandler finds for a destination port: the first that is in *)
(* use and has that port.                                                  *)
IsFirstWithPort(state, ports, node, fd, port) ==
  /\ state[<<node, fd>>] # "NULL" /\ ports[<<node, fd>>] = port
  /\ \A i \in 0 .. fd - 1 :
       state[<<node, i>>] # "NULL" => ports[<<node, i>>] # port

Init ==
  /\ cState = [k \in ClientSockets |-> "NULL"]
  /\ cPort = [k \in ClientSockets |-> NoPort]
  /\ cPeer = [k \in ClientSockets |-> NoPeer]
  /\ cCall = [c \in Clients |-> NoCall]
  /\ cHand = [c \in Clients |-> NoHand]
  /\ sState = [k \in ServerSockets |-> "NULL"]
  /\ sPort = [k \in ServerSockets |-> NoPort]
  /\ sPeer = [k \in ServerSockets |-> NoPeer]
  /\ accepting = [s \in Servers |-> NoSock]
  /\ cwPolling = [k \in ServerSockets |-> 0]
  /\ cwArmed = [k \in ServerSockets |-> 0]
  /\ net = {} /\ finished = {} /\ late = {} /\ stray = FALSE

----------------------------------------------------------------------------
(* The client's application: the port numbers are its own choice.  It takes *)
(* one that none of its sockets has, and connects from no port again that   *)
(* it has disconnected (CLIENTPORT1 and CLIENTPORT2 of the demonstration    *)
(* programs are used once each).                                            *)

Idle(c) == cCall[c].name = "none"

ClientSock(c, fd, port) ==
  /\ Idle(c)
  /\ \A i \in Sockfds : cState[<<c, i>>] # "NULL" => cPort[<<c, i>>] # port
  /\ IsFirstFree(cState, c, fd)
  /\ cState' = [cState EXCEPT ![<<c, fd>>] = "CLOSED"]
  /\ cPort' = [cPort EXCEPT ![<<c, fd>>] = port]
  /\ cPeer' = [cPeer EXCEPT ![<<c, fd>>] = NoPeer]
  /\ UNCHANGED <<cCall, cHand, finished, serverVars, net, stray>>

Connect(c, fd, peer) ==
  LET k == <<c, fd>>
  IN  /\ Idle(c) /\ cState[k] = "CLOSED"
      /\ CAddr(k) \notin finished
      /\ cState' = [cState EXCEPT ![k] = "SYNSENT"]
      /\ cPeer' = [cPeer EXCEPT ![k] = peer]
      /\ cCall' = [cCall EXCEPT ![c] =
                     [name |-> "connect", sockfd |-> fd, tries |-> 0]]
      /\ net' = net \cup {Segment("SYN", CAddr(k), peer)}
      /\ UNCHANGED <<cPort, cHand, finished, serverVars, stray>>

(* The waiting loops of connect and disconnect: a timeout sends the segment *)
(* once more.                                                               *)
Resend(c, name, state, type, retries) ==
  LET k == <<c, cCall[c].sockfd>>
  IN  /\ cCall[c].name = name /\ cState[k] = state
      /\ cCall[c].tries < retries
      /\ cCall' = [cCall EXCEPT ![c].tries = @ + 1]
      /\ SendToPeer(type, k)
      /\ UNCHANGED <<cState, cPort, cPeer, cHand, finished, serverVars, stray>>

ConnectResend(c) == Resend(c, "connect", "SYNSENT", "SYN", SYN_MAX_RETRY)

DisconnectResend(c) == Resend(c, "disconnect", "FINWAIT", "FIN", FIN_MAX_RETRY)

(* The loop is left and the state looked at once more.  If it is not        *)
(* CONNECTED the call gives up: it writes CLOSED, whatever the seghandler   *)
(* has written since.                                                       *)
ConnectReturn(c) ==
  LET k == <<c, cCall[c].sockfd>>
  IN  /\ cCall[c].name = "connect"
      /\ cState[k] # "SYNSENT" \/ cCall[c].tries = SYN_MAX_RETRY
      /\ \/ cState[k] = "CONNECTED" /\ cCall' = [cCall EXCEPT ![c] = NoCall]
         \/ /\ cState[k] # "CONNECTED"
            /\ cCall' = [cCall EXCEPT ![c].name = "giveup"]
      /\ UNCHANGED <<cState, cPort, cPeer, cHand, finished, serverVars, net,
                     stray>>

ConnectFails(c) ==
  /\ cCall[c].name = "giveup"
  /\ cState' = [cState EXCEPT ![<<c, cCall[c].sockfd>>] = "CLOSED"]
  /\ cCall' = [cCall EXCEPT ![c] = NoCall]
  /\ UNCHANGED <<cPort, cPeer, cHand, finished, serverVars, net, stray>>

Disconnect(c, fd) ==
  LET k == <<c, fd>>
  IN  /\ Idle(c) /\ cState[k] = "CONNECTED"
      /\ cState' = [cState EXCEPT ![k] = "FINWAIT"]
      /\ cCall' = [cCall EXCEPT ![c] =
                     [name |-> "disconnect", sockfd |-> fd, tries |-> 0]]
      /\ SendToPeer("FIN", k)
      /\ finished' = finished \cup {CAddr(k)}
      /\ UNCHANGED <<cPort, cPeer, cHand, serverVars, stray>>

DisconnectReturn(c) ==
  LET k == <<c, cCall[c].sockfd>>
  IN  /\ cCall[c].name = "disconnect"
      /\ cState[k] # "FINWAIT" \/ cCall[c].tries = FIN_MAX_RETRY
      /\ cState' = [cState EXCEPT ![k] = "CLOSED"]
      /\ cCall' = [cCall EXCEPT ![c] = NoCall]
      /\ UNCHANGED <<cPort, cPeer, cHand, finished, serverVars, net, stray>>

(* mutant of ClientClose: the pointer to the freed TCB stays in the table *)
ClientCloseKeepsEntry(c, fd) ==
  /\ Idle(c) /\ cState[<<c, fd>>] = "CLOSED"
  /\ cPort' = [cPort EXCEPT ![<<c, fd>>] = NoPort]
  /\ cPeer' = [cPeer EXCEPT ![<<c, fd>>] = NoPeer]
  /\ UNCHANGED <<cState, cCall, cHand, finished, serverVars, net, stray>>

(* The TCB is freed; a seghandler about to write to it is not waited for. *)
ClientClose(c, fd) ==
  /\ Idle(c) /\ cState[<<c, fd>>] = "CLOSED"
  /\ cState' = [cState EXCEPT ![<<c, fd>>] = "NULL"]
  /\ cPort' = [cPort EXCEPT ![<<c, fd>>] = NoPort]
  /\ cPeer' = [cPeer EXCEPT ![<<c, fd>>] = NoPeer]
  /\ cHand' = [cHand EXCEPT ![c].tcb =
                 IF cHand[c].type # "none" /\ cHand[c].sockfd = fd
                   THEN "freed" ELSE @]
  /\ UNCHANGED <<cCall, finished, serverVars, net, stray>>

----------------------------------------------------------------------------
(* The client's seghandler *)

(* mutant of ActsOn: any answer in any state but CLOSED *)
ActsOnAnyAnswer(state, type) ==
  state # "CLOSED" /\ type \in {"SYNACK", "FINACK"}

(* The segment that each state waits for, from the server of the TCB. *)
ActsOn(state, type) ==
  \/ state = "SYNSENT" /\ type = "SYNACK"
  \/ state = "FINWAIT" /\ type = "FINACK"

(* The TCB is found, its state selects the branch, the segment passes. *)
ClientReceive(c, fd, seg) ==
  /\ cHand[c].type = "none"
  /\ seg \in net /\ seg.to[1] = c
  /\ IsFirstWithPort(cState, cPort, c, fd, seg.to[2])
  /\ ActsOn(cState[<<c, fd>>], seg.type) /\ cPeer[<<c, fd>>] = seg.from
  /\ cHand' = [cHand EXCEPT ![c] = [type |-> seg.type, sockfd |-> fd,
                                    from |-> seg.from, tcb |-> "live"]]
  /\ UNCHANGED <<cState, cPort, cPeer, cCall, finished, serverVars, net, stray>>

(* The state is written, wherever the application is by now.  A TCB that    *)
(* was freed meanwhile is memory that another TCB of the process may have.  *)
ClientAct(c) ==
  LET new == IF cHand[c].type = "SYNACK" THEN "CONNECTED" ELSE "CLOSED"
      k   == <<c, cHand[c].sockfd>>
  IN  /\ cHand[c].type # "none"
      /\ \/ cHand[c].tcb = "live" /\ cState' = [cState EXCEPT ![k] = new]
         \/ /\ cHand[c].tcb = "freed"
            /\ \E fd \in Sockfds :
                 /\ cState[<<c, fd>>] # "NULL"
                 /\ cState' = [cState EXCEPT ![<<c, fd>>] = new]
         \/ cHand[c].tcb = "freed" /\ UNCHANGED cState
      /\ stray' = (stray \/ cHand[c].tcb = "freed" \/ cPeer[k] # cHand[c].from)
      /\ cHand' = [cHand EXCEPT ![c] = NoHand]
      /\ UNCHANGED <<cPort, cPeer, cCall, finished, serverVars, net>>

----------------------------------------------------------------------------
(* The server's application, whose ports are its own choice too *)

ServerSock(s, fd, port) ==
  /\ accepting[s] = NoSock
  /\ IsFirstFree(sState, s, fd)
  /\ sState' = [sState EXCEPT ![<<s, fd>>] = "CLOSED"]
  /\ sPort' = [sPort EXCEPT ![<<s, fd>>] = port]
  /\ sPeer' = [sPeer EXCEPT ![<<s, fd>>] = NoPeer]
  /\ UNCHANGED <<clientVars, accepting, cwPolling, cwArmed, late, net, stray>>

Accept(s, fd) ==
  /\ accepting[s] = NoSock /\ sState[<<s, fd>>] = "CLOSED"
  /\ sState' = [sState EXCEPT ![<<s, fd>>] = "LISTENING"]
  /\ accepting' = [accepting EXCEPT ![s] = fd]
  /\ UNCHANGED <<clientVars, sPort, sPeer, cwPolling, cwArmed, late, net, stray>>

(* A poll finds the state changed.  If a FIN came before the poll the call  *)
(* fails and makes the state CLOSED; the closeWaitTimer that the FIN has    *)
(* started goes on, into whatever the entry is used for next.  (The test    *)
(* and the write are one step: all that comes between is that timer, whose  *)
(* write of CLOSED the call's then repeats.)                                *)
AcceptReturn(s) ==
  LET k == <<s, accepting[s]>>
  IN  /\ accepting[s] # NoSock /\ sState[k] # "LISTENING"
      /\ accepting' = [accepting EXCEPT ![s] = NoSock]
      /\ \/ sState[k] = "CONNECTED" /\ UNCHANGED <<sState, late>>
         \/ /\ sState[k] # "CONNECTED"
            /\ sState' = [sState EXCEPT ![k] = "CLOSED"]
            /\ late' = IF Timers(k) > 0 THEN late \cup {SAddr(k)} ELSE late
      /\ UNCHANGED <<clientVars, sPort, sPeer, cwPolling, cwArmed, net, stray>>

(* The TCB is freed; a closeWaitTimer that still runs is not waited for.    *)
ServerClose(s, fd) ==
  /\ accepting[s] = NoSock /\ sState[<<s, fd>>] = "CLOSED"
  /\ sState' = [sState EXCEPT ![<<s, fd>>] = "NULL"]
  /\ sPort' = [sPort EXCEPT ![<<s, fd>>] = NoPort]
  /\ sPeer' = [sPeer EXCEPT ![<<s, fd>>] = NoPeer]
  /\ stray' = (stray \/ Timers(<<s, fd>>) > 0)
  /\ UNCHANGED <<clientVars, accepting, cwPolling, cwArmed, late, net>>

----------------------------------------------------------------------------
(* The server's seghandler.  Its branches are one step here: only a timer   *)
(* left over from a failed accept comes between (Srt has that).             *)

Found(s, fd, seg, type) ==
  /\ seg \in net /\ seg.to[1] = s /\ seg.type = type
  /\ IsFirstWithPort(sState, sPort, s, fd, seg.to[2])

Answer(seg, type) == net' = net \cup {Segment(type, seg.to, seg.from)}

(* mutant of SynListening: a SYN takes over a TCB that is connected *)
SynTakesOver(s, fd, seg) ==
  /\ Found(s, fd, seg, "SYN")
  /\ sState[<<s, fd>>] \in {"LISTENING", "CONNECTED"}
  /\ sState' = [sState EXCEPT ![<<s, fd>>] = "CONNECTED"]
  /\ sPeer' = [sPeer EXCEPT ![<<s, fd>>] = seg.from]
  /\ Answer(seg, "SYNACK")
  /\ UNCHANGED <<clientVars, sPort, accepting, cwPolling, cwArmed, late, stray>>

SynListening(s, fd, seg) ==
  /\ Found(s, fd, seg, "SYN") /\ sState[<<s, fd>>] = "LISTENING"
  /\ sState' = [sState EXCEPT ![<<s, fd>>] = "CONNECTED"]
  /\ sPeer' = [sPeer EXCEPT ![<<s, fd>>] = seg.from]
  /\ Answer(seg, "SYNACK")
  /\ UNCHANGED <<clientVars, sPort, accepting, cwPolling, cwArmed, late, stray>>

SynConnected(s, fd, seg) ==
  /\ Found(s, fd, seg, "SYN") /\ sState[<<s, fd>>] = "CONNECTED"
  /\ sPeer[<<s, fd>>] = seg.from
  /\ Answer(seg, "SYNACK")
  /\ UNCHANGED <<clientVars, serverVars, stray>>

(* mutant of FinConnected: a FIN of whatever client *)
FinOfAnyone(s, fd, seg) ==
  /\ Found(s, fd, seg, "FIN") /\ sState[<<s, fd>>] = "CONNECTED"
  /\ Timers(<<s, fd>>) < MaxTimers
  /\ sState' = [sState EXCEPT ![<<s, fd>>] = "CLOSEWAIT"]
  /\ cwPolling' = [cwPolling EXCEPT ![<<s, fd>>] = @ + 1]
  /\ Answer(seg, "FINACK")
  /\ UNCHANGED <<clientVars, sPort, sPeer, accepting, cwArmed, late, stray>>

FinConnected(s, fd, seg) ==
  /\ Found(s, fd, seg, "FIN") /\ sState[<<s, fd>>] = "CONNECTED"
  /\ sPeer[<<s, fd>>] = seg.from
  /\ Timers(<<s, fd>>) < MaxTimers
  /\ sState' = [sState EXCEPT ![<<s, fd>>] = "CLOSEWAIT"]
  /\ cwPolling' = [cwPolling EXCEPT ![<<s, fd>>] = @ + 1]
  /\ Answer(seg, "FINACK")
  /\ UNCHANGED <<clientVars, sPort, sPeer, accepting, cwArmed, late, stray>>

(* mutant of FinClosewait: another timer for the FIN that came again *)
FinStartsTimer(s, fd, seg) ==
  /\ Found(s, fd, seg, "FIN") /\ sState[<<s, fd>>] = "CLOSEWAIT"
  /\ sPeer[<<s, fd>>] = seg.from
  /\ Timers(<<s, fd>>) < MaxTimers
  /\ cwPolling' = [cwPolling EXCEPT ![<<s, fd>>] = @ + 1]
  /\ Answer(seg, "FINACK")
  /\ UNCHANGED <<clientVars, sState, sPort, sPeer, accepting, cwArmed, late, stray>>

FinClosewait(s, fd, seg) ==
  /\ Found(s, fd, seg, "FIN") /\ sState[<<s, fd>>] = "CLOSEWAIT"
  /\ sPeer[<<s, fd>>] = seg.from
  /\ Answer(seg, "FINACK")
  /\ UNCHANGED <<clientVars, serverVars, stray>>

----------------------------------------------------------------------------
(* closeWaitTimer: it looks at the state, and writes CLOSED later. *)

CloseWaitExpire(k) ==
  /\ sState[k] = "CLOSEWAIT" /\ cwPolling[k] > 0
  /\ cwPolling' = [cwPolling EXCEPT ![k] = @ - 1]
  /\ cwArmed' = [cwArmed EXCEPT ![k] = @ + 1]
  /\ UNCHANGED <<clientVars, sState, sPort, sPeer, accepting, late, net, stray>>

CloseWaitWrite(k) ==
  /\ cwArmed[k] > 0 /\ sState[k] # "NULL"
  /\ cwArmed' = [cwArmed EXCEPT ![k] = @ - 1]
  /\ sState' = [sState EXCEPT ![k] = "CLOSED"]
  /\ UNCHANGED <<clientVars, sPort, sPeer, accepting, cwPolling, late, net, stray>>

CloseWaitExit(k) ==
  /\ cwPolling[k] > 0 /\ sState[k] \notin {"CLOSEWAIT", "NULL"}
  /\ cwPolling' = [cwPolling EXCEPT ![k] = @ - 1]
  /\ UNCHANGED <<clientVars, sState, sPort, sPeer, accepting, cwArmed, late,
                 net, stray>>

----------------------------------------------------------------------------
ClientStep(c) ==
  \/ \E fd \in Sockfds :
       \/ \E port \in ClientPorts : ClientSock(c, fd, port)
       \/ \E peer \in ServerAddrs : Connect(c, fd, peer)
       \/ Disconnect(c, fd) \/ ClientClose(c, fd)
       \/ \E seg \in net : ClientReceive(c, fd, seg)
  \/ ConnectResend(c) \/ ConnectReturn(c) \/ ConnectFails(c)
  \/ DisconnectResend(c) \/ DisconnectReturn(c)
  \/ ClientAct(c)

ServerStep(s) ==
  \/ \E fd \in Sockfds :
       \/ \E port \in ServerPorts : ServerSock(s, fd, port)
       \/ Accept(s, fd) \/ ServerClose(s, fd)
       \/ \E seg \in net :
            \/ SynListening(s, fd, seg) \/ SynConnected(s, fd, seg)
            \/ FinConnected(s, fd, seg) \/ FinClosewait(s, fd, seg)
  \/ AcceptReturn(s)

TimerStep(k) == CloseWaitExpire(k) \/ CloseWaitWrite(k) \/ CloseWaitExit(k)

Next ==
  \/ \E c \in Clients : ClientStep(c)
  \/ \E s \in Servers : ServerStep(s)
  \/ \E k \in ServerSockets : TimerStep(k)

Spec == Init /\ [][Next]_vars

----------------------------------------------------------------------------
(* Every variable has a value the code can give it. *)
TypeOK ==
  /\ cState \in [ClientSockets ->
                  {"NULL", "CLOSED", "SYNSENT", "CONNECTED", "FINWAIT"}]
  /\ cPort \in [ClientSockets -> ClientPorts \cup {NoPort}]
  /\ cPeer \in [ClientSockets -> ServerAddrs \cup {NoPeer}]
  /\ \A k \in ClientSockets : cState[k] # "NULL" => cPort[k] \in ClientPorts
  /\ \A k \in ServerSockets : sState[k] # "NULL" => sPort[k] \in ServerPorts
  /\ cCall \in [Clients -> Calls]
  /\ cHand \in [Clients -> Hands]
  /\ sState \in [ServerSockets ->
                  {"NULL", "CLOSED", "LISTENING", "CONNECTED", "CLOSEWAIT"}]
  /\ sPort \in [ServerSockets -> ServerPorts \cup {NoPort}]
  /\ sPeer \in [ServerSockets -> ClientAddrs \cup {NoPeer}]
  /\ accepting \in [Servers -> Sockfds \cup {NoSock}]
  /\ cwPolling \in [ServerSockets -> Nat]
  /\ cwArmed \in [ServerSockets -> Nat]
  /\ net \subseteq Segments
  /\ finished \subseteq ClientAddrs
  /\ late \subseteq ServerAddrs
  /\ stray \in BOOLEAN

(* A server has accepted this client at this address and still holds the    *)
(* connection.                                                              *)
Holds(server, client) ==
  \E j \in ServerSockets :
    /\ SAddr(j) = server
    /\ sState[j] = "CONNECTED" /\ sPeer[j] = client

(* It holds it, or may have lost it to a timer that a failed accept left.   *)
Held(server, client) == server \in late \/ Holds(server, client)

(* While a client's TCB is CONNECTED the server it names has a TCB that is  *)
(* CONNECTED to this very client, so no two clients share one: whatever is  *)
(* retried, late, reordered or left from earlier users of the entry.  Where *)
(* an accept has failed it is not so: the timer left over may close the     *)
(* server's end under the client.                                           *)
Agreement ==
  ~stray => \A k \in ClientSockets :
              cState[k] = "CONNECTED" => Held(cPeer[k], CAddr(k))

TimersRight(k) ==
  \/ sState[k] # "NULL" /\ SAddr(k) \in late
  \/ Timers(k) = IF sState[k] = "CLOSEWAIT" THEN 1 ELSE 0

(* One closeWaitTimer runs for a TCB in CLOSEWAIT, and none for a TCB that  *)
(* is listening, connected or closed, unless an accept has failed at this   *)
(* address while its timer ran; and none for a TCB that has been freed.     *)
OneTimer == ~stray => \A k \in ServerSockets : TimersRight(k)

GivingUp(k) == cCall[k[1]].name = "giveup" /\ cCall[k[1]].sockfd = k[2]

LeftTimerWrites(k) == SAddr(k) \in late /\ cwArmed'[k] < cwArmed[k]

OnlyDisconnectEnds ==
  ~stray' =>
    /\ \A k \in ClientSockets :
         cState[k] = "CONNECTED" /\ ~GivingUp(k) =>
           cState'[k] \in {"CONNECTED", "FINWAIT"}
    /\ \A k \in ServerSockets :
         sState[k] = "CONNECTED" /\ sState'[k] # "CONNECTED" =>
           sPeer[k] \in finished \/ LeftTimerWrites(k)

(* An open connection is ended by its own client only: at the client by     *)
(* srt_client_disconnect, whatever FINACK comes late, and at the server     *)
(* after that call, whatever FIN comes late.  There are two exceptions: at  *)
(* the client a srt_client_connect that has already made up its mind to     *)
(* fail, and at the server the closeWaitTimer left over where an earlier    *)
(* srt_server_accept had failed, which closes the connection that a later   *)
(* accept has made.                                                         *)
EndsByDisconnect == [][OnlyDisconnectEnds]_vars

----------------------------------------------------------------------------
(* The inductive invariant.  First what holds whatever threads do: a call   *)
(* in progress has a TCB, and so has a handler unless the TCB was freed;    *)
(* and the sockets of a process have different ports.                       *)
CallsHaveTCBs ==
  /\ \A c \in Clients :
       ~Idle(c) => cState[<<c, cCall[c].sockfd>>] # "NULL"
  /\ \A s \in Servers :
       accepting[s] # NoSock => sState[<<s, accepting[s]>>] # "NULL"
  /\ \A c \in Clients :
       cHand[c].type # "none" /\ cHand[c].tcb = "live" =>
         cState[<<c, cHand[c].sockfd>>] # "NULL"

PortsDistinct ==
  \A k, l \in ClientSockets :
    k # l /\ k[1] = l[1] /\ cState[k] # "NULL" /\ cState[l] # "NULL" =>
      cPort[k] # cPort[l]

(* Only an address that has finished has sent a FIN; who still connects has *)
(* not finished, and who disconnects has.                                   *)
FinsAreSent == \A seg \in net : seg.type = "FIN" => seg.from \in finished

OpenIsUnfinished ==
  \A k \in ClientSockets :
    /\ cState[k] \in {"SYNSENT", "CONNECTED"} => CAddr(k) \notin finished
    /\ cState[k] = "FINWAIT" => CAddr(k) \in finished

CallIsFinished(c) ==
  LET k == <<c, cCall[c].sockfd>>
  IN  cCall[c].name = "disconnect" =>
        cState[k] \in {"FINWAIT", "CLOSED"} /\ CAddr(k) \in finished

(* A SYNACK under way to a client that has not finished, or in the hands of *)
(* its seghandler, tells of a connection that the server holds, or may have *)
(* lost to a timer left over.                                               *)
SynackIsHeld ==
  \A seg \in net :
    seg.type = "SYNACK" /\ seg.to \notin finished => Held(seg.from, seg.to)

HandIsHeld(c) ==
  LET k == <<c, cHand[c].sockfd>>
  IN  cHand[c].tcb = "live" =>
        /\ cHand[c].type = "SYNACK" =>
             /\ cState[k] \in {"CLOSED", "SYNSENT"}
             /\ CAddr(k) \notin finished
             /\ Held(cHand[c].from, CAddr(k))
        /\ cHand[c].type = "FINACK" =>
             cState[k] \in {"CLOSED", "FINWAIT"} /\ CAddr(k) \in finished

(* All of this holds, the second half as long as every thread has acted for *)
(* the call it was there for: applications, seghandlers and timers of all   *)
(* processes together keep the tables consistent.                           *)
SocketsInv ==
  /\ CallsHaveTCBs /\ PortsDistinct
  /\ ~stray => /\ FinsAreSent /\ OpenIsUnfinished /\ SynackIsHeld
               /\ \A c \in Clients : CallIsFinished(c) /\ HandIsHeld(c)
  /\ Agreement /\ OneTimer
=============================================================================
