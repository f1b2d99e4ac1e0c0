--------------------------- MODULE SocketsProofs ---------------------------
(***************************************************************************)
(* Proofs about Sockets, for any sets of clients, servers and ports and    *)
(* any size of the tables.                                                 *)
(***************************************************************************)
EXTENDS Sockets, TLAPS

(* The names of the steps, out of the nesting of Next. *)
ClientCall(c, fd) ==
  \/ \E port \in ClientPorts : ClientSock(c, fd, port)
  \/ \E peer \in ServerAddrs : Connect(c, fd, peer)
  \/ Disconnect(c, fd)
  \/ ClientClose(c, fd)

ClientLoop(c) ==
  \/ ConnectResend(c)
  \/ ConnectReturn(c)
  \/ ConnectFails(c)
  \/ DisconnectResend(c)
  \/ DisconnectReturn(c)

ServerCall(s, fd) ==
  \/ \E port \in ServerPorts : ServerSock(s, fd, port)
  \/ Accept(s, fd)
  \/ ServerClose(s, fd)

ServerHandle(s, fd, seg) ==
  \/ SynListening(s, fd, seg)
  \/ SynConnected(s, fd, seg)
  \/ FinConnected(s, fd, seg)
  \/ FinClosewait(s, fd, seg)

LEMMA StepNames ==
  ASSUME Next
  PROVE  \/ \E c \in Clients : \E fd \in Sockfds : ClientCall(c, fd)
         \/ \E c \in Clients : ClientLoop(c)
         \/ \E c \in Clients : \E fd \in Sockfds : \E seg \in net :
              ClientReceive(c, fd, seg)
         \/ \E c \in Clients : ClientAct(c)
         \/ \E s \in Servers : \E fd \in Sockfds : ServerCall(s, fd)
         \/ \E s \in Servers : AcceptReturn(s)
         \/ \E s \in Servers : \E fd \in Sockfds : \E seg \in net :
              ServerHandle(s, fd, seg)
         \/ \E k \in ServerSockets : TimerStep(k)
  BY Zenon DEF Next, ClientStep, ServerStep, ClientCall, ClientLoop, ServerCall,
               ServerHandle

----------------------------------------------------------------------------
(* Type correctness *)

TInv == TypeOK /\ CallsHaveTCBs

LEMMA ConstantFacts ==
  /\ 0 \in Sockfds
  /\ NoSock \notin Sockfds
  /\ NoCall \in Calls
  /\ NoHand \in Hands
  BY SocketsAssumption DEF Sockfds, NoSock, NoCall, NoHand, Calls, Hands

(* A timeout counts a try, a call gives up, a freed TCB is marked: nothing *)
(* else of a call or a hand changes.                                       *)
LEMMA FieldChanges ==
  ASSUME TInv, NEW c \in Clients
  PROVE  /\ [cCall[c] EXCEPT !.tries = @ + 1] \in Calls
         /\ [cCall[c] EXCEPT !.name = "giveup"] \in Calls
         /\ \A v \in {"live", "freed"} : [cHand[c] EXCEPT !.tcb = v] \in Hands
         /\ cHand[c].tcb \in {"live", "freed"}
         /\ cHand[c].type \in {"none", "SYNACK", "FINACK"}
         /\ <<c, cCall[c].sockfd>> \in ClientSockets
         /\ <<c, cHand[c].sockfd>> \in ClientSockets
<1>1. cCall[c] \in Calls /\ cHand[c] \in Hands
  BY DEF TInv, TypeOK
<1> QED
  BY <1>1 DEF Calls, Hands, ClientSockets

LEMMA TypeInit ==
  Init => TInv
<1> SUFFICES ASSUME Init
             PROVE  TInv
  OBVIOUS
<1>1. cCall \in [Clients -> Calls]
  BY ConstantFacts DEF Init
<1>2. cHand \in [Clients -> Hands]
  BY ConstantFacts DEF Init
<1>3. stray \in BOOLEAN /\ net \subseteq Segments /\ late \subseteq ServerAddrs
  BY DEF Init
<1>4. TypeOK
  BY <1>1, <1>2, <1>3 DEF Init, TypeOK
<1>5. CallsHaveTCBs
  BY DEF Init, CallsHaveTCBs, Idle, NoCall, NoHand
<1> QED
  BY <1>4, <1>5 DEF TInv

LEMMA ClientCallTypes ==
  ASSUME TInv, NEW c \in Clients, NEW fd \in Sockfds, ClientCall(c, fd)
  PROVE  TInv'
<1> DEFINE k == <<c, fd>>
<1>1. k \in ClientSockets
  BY DEF ClientSockets
<1>2. CASE \E port \in ClientPorts : ClientSock(c, fd, port)
  BY <1>1, <1>2
  DEF TInv, TypeOK, CallsHaveTCBs, ClientSock, Idle, serverVars, ClientSockets
<1>3. CASE \E peer \in ServerAddrs : Connect(c, fd, peer)
  <2>1. PICK peer \in ServerAddrs : Connect(c, fd, peer)
    BY <1>3
  <2>2. net' \subseteq Segments
    BY <1>1, <2>1 DEF Connect, TInv, TypeOK, Segments, Segment, CAddr, ClientAddrs
  <2>3. cCall' \in [Clients -> Calls]
    BY <2>1 DEF Connect, TInv, TypeOK, Calls
  <2>4. TypeOK'
    BY <1>1, <2>1, <2>2, <2>3 DEF TInv, TypeOK, Connect, serverVars
  <2>5. /\ cState' = [cState EXCEPT ![k] = "SYNSENT"]
        /\ UNCHANGED <<cHand, serverVars>>
        /\ \A d \in Clients : d # c => cCall'[d] = cCall[d]
        /\ cCall'[c].sockfd = fd
    BY <2>1 DEF Connect, TInv, TypeOK, Calls
  <2>6. \A i \in ClientSockets : cState[i] # "NULL" => cState'[i] # "NULL"
    BY <2>5 DEF TInv, TypeOK
  <2>7. cState'[k] # "NULL"
    BY <1>1, <2>5 DEF TInv, TypeOK
  <2> QED
    BY <2>4, <2>5, <2>6, <2>7, FieldChanges
    DEF TInv, CallsHaveTCBs, Idle, serverVars
<1>4. CASE Disconnect(c, fd)
  <2>1. CAddr(k) \in ClientAddrs
    BY <1>1, <1>4 DEF Disconnect, TInv, TypeOK, CAddr, ClientAddrs
  <2>2. net' \subseteq Segments
    <3>1. CASE cPeer[k] = NoPeer
      BY <1>4, <3>1 DEF Disconnect, SendToPeer, TInv, TypeOK
    <3>2. CASE cPeer[k] # NoPeer
      <4>1. cPeer[k] \in ServerAddrs
        BY <1>1, <3>2 DEF TInv, TypeOK
      <4>2. net' = net \cup {Segment("FIN", CAddr(k), cPeer[k])}
        BY <1>4, <3>2 DEF Disconnect, SendToPeer
      <4> QED
        BY <2>1, <4>1, <4>2 DEF TInv, TypeOK, Segments, Segment
    <3> QED
      BY <3>1, <3>2
  <2>3. cCall' \in [Clients -> Calls]
    BY <1>4 DEF Disconnect, TInv, TypeOK, Calls
  <2>4. TypeOK'
    BY <1>1, <1>4, <2>1, <2>2, <2>3 DEF TInv, TypeOK, Disconnect, serverVars
  <2> QED
    BY <1>1, <1>4, <2>4, FieldChanges
    DEF TInv, TypeOK, CallsHaveTCBs, Disconnect, Idle, serverVars
<1>5. CASE ClientClose(c, fd)
  <2>1. cHand' \in [Clients -> Hands]
    <3> DEFINE v == IF cHand[c].type # "none" /\ cHand[c].sockfd = fd
                      THEN "freed" ELSE cHand[c].tcb
    <3>1. v \in {"live", "freed"}
      BY FieldChanges
    <3>2. [cHand[c] EXCEPT !.tcb = v] \in Hands
      BY <3>1, FieldChanges
    <3>3. cHand' = [cHand EXCEPT ![c] = [cHand[c] EXCEPT !.tcb = v]]
      BY <1>5 DEF ClientClose
    <3> QED
      BY <3>2, <3>3 DEF TInv, TypeOK
  <2> QED
    BY <1>1, <1>5, <2>1
    DEF TInv, TypeOK, CallsHaveTCBs, ClientClose, Idle, serverVars, ClientSockets
<1> QED
  BY <1>2, <1>3, <1>4, <1>5 DEF ClientCall

LEMMA ClientLoopTypes ==
  ASSUME TInv, NEW c \in Clients, ClientLoop(c)
  PROVE  TInv'
<1> DEFINE k == <<c, cCall[c].sockfd>>
<1>1. k \in ClientSockets /\ ~Idle(c) /\ cState[k] # "NULL"
  BY FieldChanges
  DEF ClientLoop, ConnectResend, DisconnectResend, Resend, ConnectReturn,
      ConnectFails, DisconnectReturn, TInv, CallsHaveTCBs, Idle
<1>2. ASSUME NEW name, NEW state, NEW type \in {"SYN", "FIN"}, NEW retries,
             Resend(c, name, state, type, retries)
      PROVE  TInv'
  <2>1. net' \subseteq Segments
    BY <1>1, <1>2
    DEF Resend, TInv, TypeOK, Segments, Segment, SendToPeer, CAddr, ClientAddrs
  <2>2. cCall' = [cCall EXCEPT ![c] = [cCall[c] EXCEPT !.tries = @ + 1]]
    BY <1>2 DEF Resend
  <2>3. TypeOK'
    BY <1>2, <2>1, <2>2, FieldChanges DEF TInv, TypeOK, Resend, serverVars
  <2>4. \A d \in Clients : cCall'[d].name = cCall[d].name
                           /\ cCall'[d].sockfd = cCall[d].sockfd
    BY <2>2, FieldChanges DEF TInv, TypeOK, Calls
  <2> QED
    BY <1>2, <2>3, <2>4 DEF TInv, CallsHaveTCBs, Resend, Idle, serverVars
<1>3. CASE ConnectReturn(c)
  <2>1. /\ \/ cCall' = [cCall EXCEPT ![c] = NoCall]
           \/ cCall' = [cCall EXCEPT ![c] = [cCall[c] EXCEPT !.name = "giveup"]]
        /\ UNCHANGED <<cState, cPort, cPeer, cHand, finished, serverVars, net,
                       stray>>
    BY <1>3 DEF ConnectReturn
  <2>2. TypeOK'
    BY <2>1, FieldChanges, ConstantFacts DEF TInv, TypeOK, serverVars
  <2>3. \A d \in Clients : \/ cCall'[d].name = "none"
                           \/ cCall[d].name # "none"
                              /\ cCall'[d].sockfd = cCall[d].sockfd
                           \/ cCall'[d] = cCall[d]
    <3>1. cCall[c] \in Calls /\ DOMAIN cCall = Clients
      BY DEF TInv, TypeOK
    <3> QED
      BY <1>1, <2>1, <3>1 DEF NoCall, Calls, Idle
  <2> QED
    BY <2>1, <2>2, <2>3 DEF TInv, CallsHaveTCBs, Idle, serverVars
<1>4. CASE ConnectFails(c) \/ DisconnectReturn(c)
  <2>1. /\ cState' = [cState EXCEPT ![k] = "CLOSED"]
        /\ cCall' = [cCall EXCEPT ![c] = NoCall]
        /\ UNCHANGED <<cPort, cPeer, cHand, finished, serverVars, net, stray>>
    BY <1>4 DEF ConnectFails, DisconnectReturn
  <2> QED
    BY <1>1, <2>1, ConstantFacts
    DEF TInv, TypeOK, CallsHaveTCBs, Idle, serverVars, NoCall, ClientSockets
<1> QED
  BY <1>2, <1>3, <1>4 DEF ClientLoop, ConnectResend, DisconnectResend

LEMMA ClientHandlerTypes ==
  ASSUME TInv, NEW c \in Clients,
         \/ \E fd \in Sockfds : \E seg \in net : ClientReceive(c, fd, seg)
         \/ ClientAct(c)
  PROVE  TInv'
<1>1. CASE \E fd \in Sockfds : \E seg \in net : ClientReceive(c, fd, seg)
  <2>1. PICK fd \in Sockfds, seg \in net : ClientReceive(c, fd, seg)
    BY <1>1
  <2>2. cHand' \in [Clients -> Hands]
    <3>1. seg.from \in ServerAddrs \cup {NoPeer}
      BY <2>1 DEF ClientReceive, TInv, TypeOK, ClientSockets
    <3>2. seg.type \in {"SYNACK", "FINACK"}
      BY <2>1 DEF ClientReceive, ActsOn
    <3> QED
      BY <2>1, <3>1, <3>2 DEF ClientReceive, TInv, TypeOK, Hands
  <2> QED
    BY <2>1, <2>2
    DEF TInv, TypeOK, CallsHaveTCBs, ClientReceive, IsFirstWithPort, Idle, serverVars
<1>2. CASE ClientAct(c)
  <2> DEFINE new == IF cHand[c].type = "SYNACK" THEN "CONNECTED" ELSE "CLOSED"
  <2>1. \/ cState' = cState
        \/ \E i \in ClientSockets :
             cState[i] # "NULL" /\ cState' = [cState EXCEPT ![i] = new]
    BY <1>2, FieldChanges DEF ClientAct, TInv, CallsHaveTCBs, ClientSockets
  <2>2. /\ UNCHANGED <<cPort, cPeer, cCall, finished, serverVars, net>>
        /\ cHand' = [cHand EXCEPT ![c] = NoHand]
    BY <1>2 DEF ClientAct
  <2>3. stray' \in BOOLEAN
    BY <1>2 DEF ClientAct
  <2>4. TypeOK'
    BY <2>1, <2>2, <2>3, ConstantFacts DEF TInv, TypeOK, serverVars
  <2>5. cHand'[c].type = "none" /\ \A d \in Clients \ {c} : cHand'[d] = cHand[d]
    BY <2>2 DEF TInv, TypeOK, NoHand
  <2>6. \A i \in ClientSockets : cState[i] # "NULL" => cState'[i] # "NULL"
    BY <2>1 DEF TInv, TypeOK
  <2>7. \A d \in Clients : /\ <<d, cCall[d].sockfd>> \in ClientSockets
                           /\ <<d, cHand[d].sockfd>> \in ClientSockets
    BY FieldChanges
  <2> QED
    BY <2>2, <2>4, <2>5, <2>6, <2>7 DEF TInv, CallsHaveTCBs, Idle, serverVars
<1> QED
  BY <1>1, <1>2

LEMMA ServerCallTypes ==
  ASSUME TInv, NEW s \in Servers,
         (\E fd \in Sockfds : ServerCall(s, fd)) \/ AcceptReturn(s)
  PROVE  TInv'
<1>1. \A fd \in Sockfds : <<s, fd>> \in ServerSockets
  BY DEF ServerSockets
<1>2. ASSUME NEW fd \in Sockfds, ServerCall(s, fd)
      PROVE  TInv'
  <2>1. CASE \E port \in ServerPorts : ServerSock(s, fd, port)
    BY <1>1, <2>1, ConstantFacts
    DEF TInv, TypeOK, CallsHaveTCBs, ServerSock, Idle, clientVars
  <2>2. CASE Accept(s, fd)
    <3>1. TypeOK'
      BY <1>1, <2>2 DEF TInv, TypeOK, Accept, clientVars
    <3>2. /\ accepting' = [accepting EXCEPT ![s] = fd]
          /\ sState' = [sState EXCEPT ![<<s, fd>>] = "LISTENING"]
      BY <2>2 DEF Accept
    <3>3. \A r \in Servers :
            accepting'[r] # NoSock => sState'[<<r, accepting'[r]>>] # "NULL"
      BY <1>1, <3>2 DEF TInv, TypeOK, CallsHaveTCBs, ServerSockets
    <3> QED
      BY <2>2, <3>1, <3>3 DEF TInv, CallsHaveTCBs, Accept, Idle, clientVars
  <2>3. CASE ServerClose(s, fd)
    BY <1>1, <2>3, ConstantFacts
    DEF TInv, TypeOK, CallsHaveTCBs, ServerClose, Idle, clientVars
  <2> QED
    BY <1>2, <2>1, <2>2, <2>3 DEF ServerCall
<1>3. CASE AcceptReturn(s)
  <2> DEFINE k == <<s, accepting[s]>>
  <2>1. k \in ServerSockets /\ sState[k] # "NULL"
    BY <1>3 DEF AcceptReturn, TInv, TypeOK, CallsHaveTCBs, ServerSockets
  <2>2. TypeOK'
    <3>1. SAddr(k) \in ServerAddrs
      BY <2>1 DEF TInv, TypeOK, SAddr, ServerAddrs, ServerSockets
    <3> QED
      BY <1>3, <2>1, <3>1 DEF TInv, TypeOK, AcceptReturn, clientVars
  <2>3. /\ accepting' = [accepting EXCEPT ![s] = NoSock]
        /\ sState' = sState \/ sState' = [sState EXCEPT ![k] = "CLOSED"]
    BY <1>3 DEF AcceptReturn
  <2>4. \A r \in Servers :
          accepting'[r] # NoSock => sState'[<<r, accepting'[r]>>] # "NULL"
    BY <2>1, <2>3 DEF TInv, TypeOK, CallsHaveTCBs, ServerSockets
  <2> QED
    BY <1>3, <2>2, <2>4 DEF TInv, CallsHaveTCBs, AcceptReturn, Idle, clientVars
<1> QED
  BY <1>2, <1>3

LEMMA ServerHandleTypes ==
  ASSUME TInv, NEW s \in Servers, NEW fd \in Sockfds, NEW seg \in net,
         ServerHandle(s, fd, seg)
  PROVE  TInv'
<1> DEFINE k == <<s, fd>>
<1>1. k \in ServerSockets /\ sState[k] # "NULL"
  BY DEF ServerHandle, SynListening, SynConnected, FinConnected, FinClosewait,
         ServerSockets
<1>2. seg.type \in {"SYN", "FIN"}
  BY DEF ServerHandle, SynListening, SynConnected, FinConnected, FinClosewait, Found
<1>3. seg.from \in ClientAddrs /\ seg.to \in ServerAddrs
  BY <1>2 DEF TInv, TypeOK, Segments
<1>4. net' \subseteq Segments
  BY <1>3 DEF ServerHandle, SynListening, SynConnected, FinConnected,
              FinClosewait, Answer, Segment, Segments, TInv, TypeOK
<1>5. CASE SynListening(s, fd, seg)
  <2>1. TypeOK'
    BY <1>1, <1>3, <1>4, <1>5 DEF TInv, TypeOK, SynListening, clientVars
  <2> QED
    BY <1>1, <1>5, <2>1
    DEF TInv, TypeOK, CallsHaveTCBs, SynListening, Idle, clientVars, ServerSockets
<1>6. CASE SynConnected(s, fd, seg) \/ FinClosewait(s, fd, seg)
  BY <1>4, <1>6
  DEF TInv, TypeOK, CallsHaveTCBs, SynConnected, FinClosewait, Idle, clientVars,
      serverVars
<1>7. CASE FinConnected(s, fd, seg)
  <2>1. TypeOK'
    BY <1>1, <1>4, <1>7 DEF TInv, TypeOK, FinConnected, clientVars
  <2> QED
    BY <1>1, <1>7, <2>1
    DEF TInv, TypeOK, CallsHaveTCBs, FinConnected, Idle, clientVars, ServerSockets
<1> QED
  BY <1>5, <1>6, <1>7 DEF ServerHandle

LEMMA TimerTypes ==
  ASSUME TInv, NEW k \in ServerSockets, TimerStep(k)
  PROVE  TInv'
<1>1. CASE CloseWaitExpire(k)
  BY <1>1 DEF TInv, TypeOK, CallsHaveTCBs, CloseWaitExpire, Idle, clientVars
<1>2. CASE CloseWaitWrite(k)
  BY <1>2 DEF TInv, TypeOK, CallsHaveTCBs, CloseWaitWrite, Idle, clientVars
<1>3. CASE CloseWaitExit(k)
  BY <1>3 DEF TInv, TypeOK, CallsHaveTCBs, CloseWaitExit, Idle, clientVars
<1> QED
  BY <1>1, <1>2, <1>3 DEF TimerStep

LEMMA TypeStep ==
  ASSUME TInv, [Next]_vars
  PROVE  TInv'
<1>1. CASE UNCHANGED vars
  BY <1>1 DEF vars, clientVars, serverVars, TInv, TypeOK, CallsHaveTCBs, Idle
<1>2. CASE Next
  BY <1>2, StepNames, ClientCallTypes, ClientLoopTypes, ClientHandlerTypes,
     ServerCallTypes, ServerHandleTypes, TimerTypes
<1> QED
  BY <1>1, <1>2

(* Every variable of every process keeps a value of its type, and no call  *)
(* is in progress on a TCB that has been freed.                            *)
THEOREM TypeCorrect ==
  Spec => [](TypeOK /\ CallsHaveTCBs)
<1>1. TInv => TypeOK /\ CallsHaveTCBs
  BY DEF TInv
<1> QED
  BY <1>1, TypeInit, TypeStep, PTL DEF Spec
----------------------------------------------------------------------------
(* The tables agree *)

(* The second half of SocketsInv, for the states it is claimed of. *)
Good ==
  /\ ~stray
  /\ FinsAreSent /\ OpenIsUnfinished /\ SynackIsHeld
  /\ \A c \in Clients : CallIsFinished(c) /\ HandIsHeld(c)
  /\ Agreement /\ OneTimer

(* A step of a client touches one TCB, its own call and its own handler: it *)
(* keeps Good if it is right about these and sends no SYNACK.               *)
LEMMA ClientKeeps ==
  ASSUME TInv, Good, ~stray', UNCHANGED serverVars,
         NEW c \in Clients, NEW k \in ClientSockets,
         \A i \in ClientSockets \ {k} :
           cState'[i] = cState[i] /\ cPort'[i] = cPort[i] /\ cPeer'[i] = cPeer[i],
         \A d \in Clients \ {c} :
           /\ cCall'[d] = cCall[d] /\ cHand'[d] = cHand[d]
           /\ k # <<d, cCall[d].sockfd>> /\ k # <<d, cHand[d].sockfd>>,
         finished \subseteq finished',
         \A i \in ClientSockets \ {k} :
           cState[i] # "NULL" /\ CAddr(i) \in finished' => CAddr(i) \in finished,
         \A seg \in net' : \/ seg \in net
                           \/ seg.type = "SYN"
                           \/ seg.type = "FIN" /\ seg.from \in finished',
         cState'[k] \in {"SYNSENT", "CONNECTED"} => CAddr(k)' \notin finished',
         cState'[k] = "FINWAIT" => CAddr(k)' \in finished',
         cState'[k] = "CONNECTED" => Held(cPeer[k], CAddr(k))',
         CallIsFinished(c)', HandIsHeld(c)'
  PROVE  Good'
<1>1. \A a, b : Held(a, b)' <=> Held(a, b)
  BY DEF Held, Holds, SAddr, serverVars
<1>2. \A i \in ClientSockets \ {k} : CAddr(i)' = CAddr(i)
  BY DEF CAddr
<1>3. FinsAreSent'
  BY DEF Good, FinsAreSent
<1>4. OpenIsUnfinished'
  BY <1>2 DEF Good, OpenIsUnfinished
<1>5. SynackIsHeld'
  BY <1>1 DEF Good, SynackIsHeld
<1>6. Agreement'
  <2> SUFFICES ASSUME NEW i \in ClientSockets, cState'[i] = "CONNECTED", i # k
               PROVE  Held(cPeer[i], CAddr(i))'
    BY DEF Agreement
  <2>1. Held(cPeer[i], CAddr(i))
    BY DEF Good, Agreement
  <2> QED
    BY <1>1, <1>2, <2>1 DEF Held, Holds, SAddr, CAddr, serverVars
<1>7. OneTimer'
  <2>1. \A i \in ServerSockets : TimersRight(i)' <=> TimersRight(i)
    BY Zenon DEF TimersRight, Timers, SAddr, serverVars
  <2> QED
    BY <2>1, Zenon DEF Good, OneTimer
<1>8. \A d \in Clients \ {c} : CallIsFinished(d)'
  <2> SUFFICES ASSUME NEW d \in Clients \ {c}
               PROVE  CallIsFinished(d)'
    OBVIOUS
  <2> DEFINE i == <<d, cCall[d].sockfd>>
  <2>1. i \in ClientSockets \ {k} /\ cCall'[d] = cCall[d] /\ CallIsFinished(d)
    BY FieldChanges DEF Good
  <2> QED
    BY <1>2, <2>1 DEF CallIsFinished
<1>9. \A d \in Clients \ {c} : HandIsHeld(d)'
  <2> SUFFICES ASSUME NEW d \in Clients \ {c}
               PROVE  HandIsHeld(d)'
    OBVIOUS
  <2> DEFINE i == <<d, cHand[d].sockfd>>
  <2>1. i \in ClientSockets \ {k} /\ cHand'[d] = cHand[d] /\ HandIsHeld(d)
    BY FieldChanges DEF Good
  <2>2. cHand[d].type # "none" /\ cHand[d].tcb = "live" => cState[i] # "NULL"
    BY DEF TInv, CallsHaveTCBs
  <2>3. Held(cHand[d].from, CAddr(i)) => Held(cHand[d].from, CAddr(i))'
    BY <1>2, <2>1 DEF Held, Holds, SAddr, CAddr, serverVars
  <2> QED
    BY <1>2, <2>1, <2>2, <2>3 DEF HandIsHeld
<1> QED
  BY <1>3, <1>4, <1>5, <1>6, <1>7, <1>8, <1>9 DEF Good

LEMMA AddrsDistinct ==
  ASSUME PortsDistinct, NEW k \in ClientSockets, NEW l \in ClientSockets,
         k # l, cState[k] # "NULL", cState[l] # "NULL"
  PROVE  CAddr(k) # CAddr(l)
  BY DEF PortsDistinct, CAddr

(* The handler of a client acts on a TCB that is in use. *)
LEMMA HandInUse ==
  ASSUME TInv, NEW c \in Clients, cHand[c].type # "none", cHand[c].tcb = "live"
  PROVE  cState[<<c, cHand[c].sockfd>>] # "NULL"
  BY DEF TInv, CallsHaveTCBs

LEMMA ClientSockKeeps ==
  ASSUME TInv, Good, NEW c \in Clients, NEW fd \in Sockfds,
         NEW port \in ClientPorts, ClientSock(c, fd, port)
  PROVE  Good'
<1> DEFINE k == <<c, fd>>
           h == <<c, cHand[c].sockfd>>
<1>1. /\ k \in ClientSockets /\ cState[k] = "NULL"
      /\ UNCHANGED <<cCall, cHand, finished, serverVars, net, stray>>
      /\ cCall[c].name = "none"
  BY DEF ClientSock, ClientSockets, IsFirstFree, Idle
<1>2. /\ cState'[k] = "CLOSED"
      /\ \A i \in ClientSockets \ {k} :
           cState'[i] = cState[i] /\ cPort'[i] = cPort[i] /\ cPeer'[i] = cPeer[i]
  BY <1>1 DEF ClientSock, TInv, TypeOK
<1>3. HandIsHeld(c)'
  <2>1. CASE cHand[c].type # "none" /\ cHand[c].tcb = "live"
    <3>1. h \in ClientSockets \ {k}
      BY <1>1, <2>1, HandInUse, FieldChanges
    <3>2. HandIsHeld(c)
      BY DEF Good
    <3>3. Held(cHand[c].from, CAddr(h))' <=> Held(cHand[c].from, CAddr(h))
      BY <1>1, <1>2, <3>1 DEF Held, Holds, SAddr, CAddr, serverVars
    <3> QED
      BY <1>1, <1>2, <3>1, <3>2, <3>3 DEF HandIsHeld, CAddr
  <2>2. CASE ~(cHand[c].type # "none" /\ cHand[c].tcb = "live")
    BY <1>1, <2>2 DEF HandIsHeld
  <2> QED
    BY <2>1, <2>2
<1>4. CallIsFinished(c)'
  BY <1>1 DEF CallIsFinished
<1>5. \A d \in Clients \ {c} :
        k # <<d, cCall[d].sockfd>> /\ k # <<d, cHand[d].sockfd>>
  OBVIOUS
<1>6. ~stray
  BY DEF Good
<1> QED
  BY <1>1, <1>2, <1>3, <1>4, <1>5, <1>6, ClientKeeps

LEMMA ConnectKeeps ==
  ASSUME TInv, Good, NEW c \in Clients, NEW fd \in Sockfds,
         NEW peer \in ServerAddrs, Connect(c, fd, peer)
  PROVE  Good'
<1> DEFINE k == <<c, fd>>
           h == <<c, cHand[c].sockfd>>
<1>1. /\ k \in ClientSockets /\ cState[k] = "CLOSED" /\ CAddr(k) \notin finished
      /\ UNCHANGED <<cPort, cHand, finished, serverVars, stray>>
      /\ net' = net \cup {Segment("SYN", CAddr(k), peer)}
  BY DEF Connect, ClientSockets
<1>2. /\ cState'[k] = "SYNSENT"
      /\ \A i \in ClientSockets \ {k} :
           cState'[i] = cState[i] /\ cPort'[i] = cPort[i] /\ cPeer'[i] = cPeer[i]
      /\ CAddr(k)' = CAddr(k)
  BY <1>1 DEF Connect, TInv, TypeOK, CAddr
<1>3. /\ cCall'[c].name = "connect"
      /\ \A d \in Clients \ {c} : cCall'[d] = cCall[d] /\ cHand'[d] = cHand[d]
  BY DEF Connect, TInv, TypeOK
<1>4. HandIsHeld(c)'
  <2>1. h \in ClientSockets /\ HandIsHeld(c)
    BY FieldChanges DEF Good
  <2>2. Held(cHand[c].from, CAddr(h))' <=> Held(cHand[c].from, CAddr(h))
    BY <1>1 DEF Held, Holds, SAddr, CAddr, serverVars
  <2>3. cState'[h] = cState[h] \/ h = k
    BY <1>2, <2>1
  <2> QED
    BY <1>1, <1>2, <2>1, <2>2, <2>3 DEF HandIsHeld, CAddr
<1>5. CallIsFinished(c)'
  BY <1>3 DEF CallIsFinished
<1>6. \A d \in Clients \ {c} :
        k # <<d, cCall[d].sockfd>> /\ k # <<d, cHand[d].sockfd>>
  OBVIOUS
<1>7. ~stray /\ \A seg \in net' : seg \in net \/ seg.type = "SYN"
  BY <1>1 DEF Good, Segment
<1> QED
  BY <1>1, <1>2, <1>3, <1>4, <1>5, <1>6, <1>7, ClientKeeps

LEMMA DisconnectKeeps ==
  ASSUME TInv, PortsDistinct, Good, NEW c \in Clients, NEW fd \in Sockfds,
         Disconnect(c, fd)
  PROVE  Good'
<1> DEFINE k == <<c, fd>>
           h == <<c, cHand[c].sockfd>>
<1>1. /\ k \in ClientSockets /\ cState[k] = "CONNECTED"
      /\ UNCHANGED <<cPort, cPeer, cHand, serverVars, stray>>
      /\ finished' = finished \cup {CAddr(k)}
      /\ net' = net \/ net' = net \cup {Segment("FIN", CAddr(k), cPeer[k])}
  BY DEF Disconnect, SendToPeer, ClientSockets
<1>2. /\ cState'[k] = "FINWAIT"
      /\ \A i \in ClientSockets \ {k} : cState'[i] = cState[i]
      /\ \A i \in ClientSockets : CAddr(i)' = CAddr(i)
  BY <1>1 DEF Disconnect, TInv, TypeOK, CAddr
<1>3. /\ cCall'[c].name = "disconnect" /\ cCall'[c].sockfd = fd
      /\ \A d \in Clients \ {c} : cCall'[d] = cCall[d] /\ cHand'[d] = cHand[d]
  BY DEF Disconnect, TInv, TypeOK
<1>4. \A i \in ClientSockets \ {k} :
        cState[i] # "NULL" /\ CAddr(i) \in finished' => CAddr(i) \in finished
  BY <1>1, AddrsDistinct
<1>5. HandIsHeld(c)'
  <2>1. h \in ClientSockets /\ HandIsHeld(c)
    BY FieldChanges DEF Good
  <2>2. Held(cHand[c].from, CAddr(h))' <=> Held(cHand[c].from, CAddr(h))
    BY <1>1, <1>2, <2>1 DEF Held, Holds, SAddr, CAddr, serverVars
  <2>3. h # k => cState'[h] = cState[h]
    BY <1>2, <2>1
  <2> QED
    BY <1>1, <1>2, <1>4, <2>1, <2>2, <2>3 DEF HandIsHeld
<1>6. CallIsFinished(c)'
  BY <1>1, <1>2, <1>3 DEF CallIsFinished
<1>7. \A d \in Clients \ {c} :
        k # <<d, cCall[d].sockfd>> /\ k # <<d, cHand[d].sockfd>>
  OBVIOUS
<1>8. /\ ~stray
      /\ \A seg \in net' : \/ seg \in net
                           \/ seg.type = "FIN" /\ seg.from \in finished'
  BY <1>1 DEF Good, Segment
<1> QED
  BY <1>1, <1>2, <1>3, <1>4, <1>5, <1>6, <1>7, <1>8, ClientKeeps

LEMMA ClientCloseKeeps ==
  ASSUME TInv, Good, NEW c \in Clients, NEW fd \in Sockfds, ClientClose(c, fd)
  PROVE  Good'
<1> DEFINE k == <<c, fd>>
           h == <<c, cHand[c].sockfd>>
<1>1. /\ k \in ClientSockets /\ cState[k] = "CLOSED" /\ cCall[c].name = "none"
      /\ UNCHANGED <<cCall, finished, serverVars, net, stray>>
  BY DEF ClientClose, ClientSockets, Idle
<1>2. /\ cState'[k] = "NULL"
      /\ \A i \in ClientSockets \ {k} :
           cState'[i] = cState[i] /\ cPort'[i] = cPort[i] /\ cPeer'[i] = cPeer[i]
  BY <1>1 DEF ClientClose, TInv, TypeOK
<1>3. /\ \A d \in Clients \ {c} : cHand'[d] = cHand[d]
      /\ cHand'[c].type = cHand[c].type /\ cHand'[c].sockfd = cHand[c].sockfd
      /\ cHand'[c].from = cHand[c].from
      /\ cHand[c].type # "none" /\ cHand[c].sockfd = fd =>
           cHand'[c].tcb = "freed"
      /\ cHand[c].sockfd # fd => cHand'[c].tcb = cHand[c].tcb
  <2>1. cHand[c] \in Hands /\ DOMAIN cHand = Clients
    BY DEF TInv, TypeOK
  <2> QED
    BY <2>1 DEF ClientClose, Hands
<1>4. HandIsHeld(c)'
  <2>1. h \in ClientSockets /\ HandIsHeld(c)
    BY FieldChanges DEF Good
  <2>2. CASE cHand[c].sockfd = fd
    BY <1>3, <2>2 DEF HandIsHeld
  <2>3. CASE cHand[c].sockfd # fd
    <3>1. PICK g \in ClientSockets \ {k} : g = h
      BY <2>1, <2>3
    <3>2. g = <<c, cHand'[c].sockfd>> /\ CAddr(g)' = CAddr(g)
      BY <1>2, <1>3, <3>1 DEF CAddr
    <3>3. Held(cHand[c].from, CAddr(g)) => Held(cHand[c].from, CAddr(g))'
      BY <1>1, <1>3, <3>2 DEF Held, Holds, SAddr, serverVars
    <3> QED
      BY <1>1, <1>2, <1>3, <2>1, <2>3, <3>1, <3>2, <3>3 DEF HandIsHeld
  <2> QED
    BY <2>2, <2>3
<1>5. CallIsFinished(c)'
  BY <1>1 DEF CallIsFinished
<1>6. \A d \in Clients \ {c} :
        k # <<d, cCall[d].sockfd>> /\ k # <<d, cHand[d].sockfd>>
  OBVIOUS
<1>7. ~stray
  BY DEF Good
<1> QED
  BY <1>1, <1>2, <1>3, <1>4, <1>5, <1>6, <1>7, ClientKeeps

(* A timeout: SYN while connecting, FIN once the address has finished. *)
LEMMA ResendKeeps ==
  ASSUME TInv, Good, NEW c \in Clients, ConnectResend(c) \/ DisconnectResend(c)
  PROVE  Good'
<1>1. PICK k \in ClientSockets : k = <<c, cCall[c].sockfd>>
  BY FieldChanges
<1>2. /\ UNCHANGED <<cState, cPort, cPeer, cHand, finished, serverVars, stray>>
      /\ cCall' = [cCall EXCEPT ![c].tries = @ + 1]
      /\ cState[k] \in {"SYNSENT", "FINWAIT"}
      /\ \/ net' = net
         \/ net' = net \cup {Segment("SYN", CAddr(k), cPeer[k])}
         \/ net' = net \cup {Segment("FIN", CAddr(k), cPeer[k])}
            /\ cState[k] = "FINWAIT"
  BY <1>1 DEF ConnectResend, DisconnectResend, Resend, SendToPeer
<1>3. /\ cCall'[c].name = cCall[c].name /\ cCall'[c].sockfd = cCall[c].sockfd
      /\ \A d \in Clients \ {c} : cCall'[d] = cCall[d] /\ cHand'[d] = cHand[d]
  <2>1. cCall[c] \in Calls /\ DOMAIN cCall = Clients
    BY DEF TInv, TypeOK
  <2> QED
    BY <1>2, <2>1 DEF Calls
<1>4. /\ cState[k] \in {"SYNSENT", "CONNECTED"} => CAddr(k) \notin finished
      /\ cState[k] = "FINWAIT" => CAddr(k) \in finished
      /\ CAddr(k)' = CAddr(k)
  BY <1>2 DEF Good, OpenIsUnfinished, CAddr
<1>5. ~stray /\ \A seg \in net' : \/ seg \in net \/ seg.type = "SYN"
                                  \/ seg.type = "FIN" /\ seg.from \in finished'
  BY <1>2, <1>4 DEF Good, Segment
<1>6. CallIsFinished(c)'
  <2>1. CallIsFinished(c)
    BY DEF Good
  <2> QED
    BY <1>2, <1>3, <2>1 DEF CallIsFinished, CAddr
<1>7. HandIsHeld(c)'
  <2>1. HandIsHeld(c)
    BY DEF Good
  <2> QED
    BY <1>2, <2>1 DEF HandIsHeld, Held, Holds, SAddr, CAddr, serverVars
<1>8. \A d \in Clients \ {c} :
        k # <<d, cCall[d].sockfd>> /\ k # <<d, cHand[d].sockfd>>
  BY <1>1
<1>9. cState'[k] # "CONNECTED"
  BY <1>2
<1> QED
  BY <1>2, <1>3, <1>4, <1>5, <1>6, <1>7, <1>8, <1>9, ClientKeeps

(* A call that has its answer returns; one that has not makes up its mind. *)
LEMMA ConnectReturnKeeps ==
  ASSUME TInv, Good, NEW c \in Clients, ConnectReturn(c)
  PROVE  Good'
<1>1. PICK k \in ClientSockets : k = <<c, cCall[c].sockfd>>
  BY FieldChanges
<1>2. /\ UNCHANGED <<cState, cPort, cPeer, cHand, finished, serverVars, net, stray>>
      /\ \/ cCall' = [cCall EXCEPT ![c] = NoCall]
         \/ cCall' = [cCall EXCEPT ![c].name = "giveup"]
  BY DEF ConnectReturn
<1>3. /\ cCall'[c].name # "disconnect"
      /\ \A d \in Clients \ {c} : cCall'[d] = cCall[d] /\ cHand'[d] = cHand[d]
  <2>1. cCall[c] \in Calls /\ DOMAIN cCall = Clients
    BY DEF TInv, TypeOK
  <2> QED
    BY <1>2, <2>1 DEF Calls, NoCall
<1>4. /\ cState[k] \in {"SYNSENT", "CONNECTED"} => CAddr(k) \notin finished
      /\ cState[k] = "FINWAIT" => CAddr(k) \in finished
      /\ cState[k] = "CONNECTED" => Held(cPeer[k], CAddr(k))
      /\ CAddr(k)' = CAddr(k)
  BY <1>2 DEF Good, OpenIsUnfinished, Agreement, CAddr
<1>5. Held(cPeer[k], CAddr(k)) => Held(cPeer[k], CAddr(k))'
  BY <1>2 DEF Held, Holds, SAddr, CAddr, serverVars
<1>6. CallIsFinished(c)'
  BY <1>3 DEF CallIsFinished
<1>7. HandIsHeld(c)'
  <2>1. HandIsHeld(c)
    BY DEF Good
  <2> QED
    BY <1>2, <2>1 DEF HandIsHeld, Held, Holds, SAddr, CAddr, serverVars
<1>8. /\ ~stray
      /\ \A d \in Clients \ {c} :
           k # <<d, cCall[d].sockfd>> /\ k # <<d, cHand[d].sockfd>>
  BY <1>1 DEF Good
<1> QED
  BY <1>2, <1>3, <1>4, <1>5, <1>6, <1>7, <1>8, ClientKeeps

(* Whatever the handler is about to do: the TCB is CLOSED. *)
LEMMA ReturnKeeps ==
  ASSUME TInv, Good, NEW c \in Clients, ConnectFails(c) \/ DisconnectReturn(c)
  PROVE  Good'
<1>1. PICK k \in ClientSockets : k = <<c, cCall[c].sockfd>>
  BY FieldChanges
<1>2. /\ UNCHANGED <<cPort, cPeer, cHand, finished, serverVars, net, stray>>
      /\ cCall' = [cCall EXCEPT ![c] = NoCall]
      /\ cState' = [cState EXCEPT ![k] = "CLOSED"]
  BY <1>1 DEF ConnectFails, DisconnectReturn
<1>3. /\ cState'[k] = "CLOSED"
      /\ \A i \in ClientSockets \ {k} : cState'[i] = cState[i]
      /\ \A i \in ClientSockets : CAddr(i)' = CAddr(i)
  BY <1>2 DEF TInv, TypeOK, CAddr
<1>4. /\ cCall'[c].name = "none"
      /\ \A d \in Clients \ {c} : cCall'[d] = cCall[d] /\ cHand'[d] = cHand[d]
  BY <1>2 DEF TInv, TypeOK, NoCall
<1>5. CallIsFinished(c)'
  BY <1>4 DEF CallIsFinished
<1>6. HandIsHeld(c)'
  <2>1. PICK h \in ClientSockets : h = <<c, cHand[c].sockfd>>
    BY FieldChanges
  <2>2. HandIsHeld(c)
    BY DEF Good
  <2>3. Held(cHand[c].from, CAddr(h))' <=> Held(cHand[c].from, CAddr(h))
    BY <1>2, <1>3 DEF Held, Holds, SAddr, serverVars
  <2>4. cState'[h] = cState[h] \/ cState'[h] = "CLOSED"
    BY <1>3
  <2> QED
    BY <1>2, <1>3, <2>1, <2>2, <2>3, <2>4 DEF HandIsHeld
<1>7. /\ ~stray
      /\ \A d \in Clients \ {c} :
           k # <<d, cCall[d].sockfd>> /\ k # <<d, cHand[d].sockfd>>
  BY <1>1 DEF Good
<1> QED
  BY <1>2, <1>3, <1>4, <1>5, <1>6, <1>7, ClientKeeps

(* The segment comes from the server of the TCB and tells the truth. *)
LEMMA ClientReceiveKeeps ==
  ASSUME TInv, Good, NEW c \in Clients, NEW fd \in Sockfds, NEW seg \in net,
         ClientReceive(c, fd, seg)
  PROVE  Good'
<1>1. PICK k \in ClientSockets : k = <<c, fd>>
  BY DEF ClientSockets
<1>2. /\ UNCHANGED <<cState, cPort, cPeer, cCall, finished, serverVars, net, stray>>
      /\ ActsOn(cState[k], seg.type)
      /\ cHand' = [cHand EXCEPT ![c] = [type |-> seg.type, sockfd |-> fd,
                                        from |-> seg.from, tcb |-> "live"]]
  BY <1>1 DEF ClientReceive
<1>3. seg.to = CAddr(k)
  <2>1. seg.to \in ClientAddrs
    BY <1>2 DEF ActsOn, TInv, TypeOK, Segments
  <2> QED
    BY <1>1, <2>1 DEF ClientReceive, IsFirstWithPort, CAddr, ClientAddrs
<1>4. /\ cHand'[c] = [type |-> seg.type, sockfd |-> fd, from |-> seg.from,
                      tcb |-> "live"]
      /\ \A d \in Clients \ {c} : cHand'[d] = cHand[d]
  BY <1>2 DEF TInv, TypeOK
<1>5. /\ cState[k] \in {"SYNSENT", "CONNECTED"} => CAddr(k) \notin finished
      /\ cState[k] = "FINWAIT" => CAddr(k) \in finished
  BY DEF Good, OpenIsUnfinished
<1>6. HandIsHeld(c)'
  <2>1. seg.type = "SYNACK" => cState[k] = "SYNSENT" /\ Held(seg.from, CAddr(k))
    BY <1>2, <1>3, <1>5 DEF ActsOn, Good, SynackIsHeld
  <2>2. seg.type = "FINACK" => cState[k] = "FINWAIT"
    BY <1>2 DEF ActsOn
  <2>3. Held(seg.from, CAddr(k)) => Held(seg.from, CAddr(k))'
    BY <1>2 DEF Held, Holds, SAddr, CAddr, serverVars
  <2> QED
    BY <1>1, <1>2, <1>4, <1>5, <2>1, <2>2, <2>3 DEF HandIsHeld, CAddr
<1>7. CallIsFinished(c)'
  <2>1. CallIsFinished(c)
    BY DEF Good
  <2> QED
    BY <1>2, <2>1 DEF CallIsFinished, CAddr
<1>8. cState'[k] # "CONNECTED" /\ CAddr(k)' = CAddr(k)
  BY <1>2 DEF ActsOn, CAddr
<1>9. /\ ~stray
      /\ \A d \in Clients \ {c} :
           k # <<d, cCall[d].sockfd>> /\ k # <<d, cHand[d].sockfd>>
  BY <1>1 DEF Good
<1> QED
  BY <1>2, <1>4, <1>5, <1>6, <1>7, <1>8, <1>9, ClientKeeps

(* The handler writes the state of the TCB it was looking at, whose server *)
(* is still the sender of the segment.                                     *)
LEMMA ClientActKeeps ==
  ASSUME TInv, Good, ~stray', NEW c \in Clients, ClientAct(c)
  PROVE  Good'
<1>1. PICK k \in ClientSockets : k = <<c, cHand[c].sockfd>>
  BY FieldChanges
<1> DEFINE new == IF cHand[c].type = "SYNACK" THEN "CONNECTED" ELSE "CLOSED"
<1>2. /\ UNCHANGED <<cPort, cPeer, cCall, finished, serverVars, net>>
      /\ cHand' = [cHand EXCEPT ![c] = NoHand]
      /\ cHand[c].tcb # "freed" /\ cPeer[k] = cHand[c].from
      /\ cState' = [cState EXCEPT ![k] = new]
  BY <1>1 DEF ClientAct
<1>3. /\ cHand[c].tcb = "live" /\ cHand[c].type \in {"SYNACK", "FINACK"}
      /\ HandIsHeld(c)
  BY <1>2, FieldChanges DEF ClientAct, Good
<1>4. /\ cState'[k] = new
      /\ \A i \in ClientSockets \ {k} : cState'[i] = cState[i]
      /\ \A i \in ClientSockets : CAddr(i)' = CAddr(i)
  BY <1>2 DEF TInv, TypeOK, CAddr
<1>5. /\ cHand'[c].type = "none"
      /\ \A d \in Clients \ {c} : cHand'[d] = cHand[d]
  BY <1>2 DEF TInv, TypeOK, NoHand
<1>6. HandIsHeld(c)'
  BY <1>5 DEF HandIsHeld
<1>7. /\ cHand[c].type = "SYNACK" =>
           CAddr(k) \notin finished /\ Held(cPeer[k], CAddr(k))
      /\ cHand[c].type = "FINACK" => CAddr(k) \in finished
  BY <1>1, <1>2, <1>3 DEF HandIsHeld
<1>8. CallIsFinished(c)'
  <2>1. PICK i \in ClientSockets : i = <<c, cCall[c].sockfd>>
    BY FieldChanges
  <2>2. CallIsFinished(c)
    BY DEF Good
  <2> QED
    BY <1>2, <1>3, <1>4, <1>7, <2>1, <2>2 DEF CallIsFinished
<1>9. Held(cPeer[k], CAddr(k)) => Held(cPeer[k], CAddr(k))'
  BY <1>2, <1>4 DEF Held, Holds, SAddr, serverVars
<1>10. \A d \in Clients \ {c} :
         k # <<d, cCall[d].sockfd>> /\ k # <<d, cHand[d].sockfd>>
  BY <1>1
<1>11. /\ cState'[k] \in {"SYNSENT", "CONNECTED"} => CAddr(k)' \notin finished'
       /\ cState'[k] # "FINWAIT"
       /\ cState'[k] = "CONNECTED" => Held(cPeer[k], CAddr(k))'
  BY <1>2, <1>3, <1>4, <1>7, <1>9
<1> QED
  BY <1>2, <1>4, <1>5, <1>6, <1>8, <1>10, <1>11, ClientKeeps

----------------------------------------------------------------------------
(* A step of a server or of a timer touches one TCB: it keeps Good if a    *)
(* connection ends only when its client has finished or where a timer is   *)
(* left over, if the timers of the TCB are right, and if a SYNACK it sends *)
(* tells the truth.                                                        *)
LEMMA ServerKeeps ==
  ASSUME TInv, Good, ~stray', UNCHANGED clientVars,
         NEW k \in ServerSockets, late \subseteq late',
         \A i \in ServerSockets \ {k} :
           /\ sState'[i] = sState[i] /\ sPort'[i] = sPort[i]
           /\ sPeer'[i] = sPeer[i]
           /\ cwPolling'[i] = cwPolling[i] /\ cwArmed'[i] = cwArmed[i],
         sState[k] = "CONNECTED" =>
           \/ sPeer[k] \in finished
           \/ SAddr(k) \in late
           \/ sState'[k] = "CONNECTED" /\ SAddr(k)' = SAddr(k)
              /\ sPeer'[k] = sPeer[k],
         TimersRight(k)',
         \A seg \in net' : \/ seg \in net
                           \/ seg.type = "FINACK"
                           \/ seg.type = "SYNACK" /\ Held(seg.from, seg.to)'
  PROVE  Good'
<1>1. \A i \in ClientSockets : CAddr(i)' = CAddr(i)
  BY DEF CAddr, clientVars
<1>2. ASSUME NEW a, NEW b, b \notin finished, Held(a, b)
      PROVE  Held(a, b)'
  <2>1. CASE a \in late
    BY <2>1 DEF Held
  <2>2. CASE a \notin late
    <3>1. PICK j \in ServerSockets :
            SAddr(j) = a /\ sState[j] = "CONNECTED" /\ sPeer[j] = b
      BY <1>2, <2>2 DEF Held, Holds
    <3>2. SAddr(j)' = a /\ sState'[j] = "CONNECTED" /\ sPeer'[j] = b
      BY <1>2, <2>2, <3>1 DEF SAddr
    <3> QED
      BY <3>2 DEF Held, Holds
  <2> QED
    BY <2>1, <2>2
<1>3. FinsAreSent'
  BY DEF Good, FinsAreSent, clientVars
<1>4. OpenIsUnfinished'
  BY <1>1 DEF Good, OpenIsUnfinished, clientVars
<1>5. SynackIsHeld'
  BY <1>2 DEF Good, SynackIsHeld, clientVars
<1>6. Agreement'
  <2> SUFFICES ASSUME NEW i \in ClientSockets, cState'[i] = "CONNECTED"
               PROVE  Held(cPeer[i], CAddr(i))'
    BY DEF Agreement
  <2>1. Held(cPeer[i], CAddr(i)) /\ CAddr(i) \notin finished
    BY DEF Good, Agreement, OpenIsUnfinished, clientVars
  <2>2. cPeer' = cPeer /\ cPort' = cPort
    BY DEF clientVars
  <2> QED
    BY <1>2, <2>1, <2>2 DEF Held, Holds, SAddr, CAddr
<1>7. OneTimer'
  <2>1. \A i \in ServerSockets \ {k} : TimersRight(i)'
    <3> SUFFICES ASSUME NEW i \in ServerSockets \ {k}
                 PROVE  TimersRight(i)'
      OBVIOUS
    <3>1. TimersRight(i)
      BY Zenon DEF Good, OneTimer
    <3>2. /\ sState'[i] = sState[i] /\ SAddr(i)' = SAddr(i)
          /\ Timers(i)' = Timers(i)
      BY DEF SAddr, Timers
    <3> QED
      BY <3>1, <3>2 DEF TimersRight
  <2> QED
    BY <2>1, Zenon DEF OneTimer
<1>8. \A c \in Clients : CallIsFinished(c)'
  BY DEF Good, CallIsFinished, CAddr, clientVars
<1>9. \A c \in Clients : HandIsHeld(c)'
  <2> SUFFICES ASSUME NEW c \in Clients
               PROVE  HandIsHeld(c)'
    OBVIOUS
  <2>1. PICK h \in ClientSockets : h = <<c, cHand[c].sockfd>>
    BY FieldChanges
  <2>2. HandIsHeld(c)
    BY DEF Good
  <2>3. CAddr(h) \notin finished /\ Held(cHand[c].from, CAddr(h)) =>
          Held(cHand[c].from, CAddr(h))'
    <3>1. CASE CAddr(h) \notin finished /\ Held(cHand[c].from, CAddr(h))
      <4>1. cHand' = cHand /\ cPort' = cPort
        BY DEF clientVars
      <4>2. \A a, b : a = cHand[c].from /\ b = CAddr(h) => Held(a, b)'
        BY <1>2, <3>1
      <4> QED
        BY <4>1, <4>2 DEF Held, Holds, SAddr, CAddr
    <3> QED
      BY <3>1
  <2> QED
    BY <1>1, <2>1, <2>2, <2>3 DEF HandIsHeld, clientVars
<1> QED
  BY <1>3, <1>4, <1>5, <1>6, <1>7, <1>8, <1>9 DEF Good

(* The timers of a TCB, as OneTimer counts them, and their types. *)
LEMMA TimersOf ==
  ASSUME TInv, Good, NEW k \in ServerSockets
  PROVE  /\ cwPolling[k] \in Nat /\ cwArmed[k] \in Nat
         /\ TimersRight(k)
<1>1. cwPolling[k] \in Nat /\ cwArmed[k] \in Nat
  BY DEF TInv, TypeOK
<1>2. TimersRight(k)
  BY Zenon DEF Good, OneTimer
<1> QED
  BY <1>1, <1>2

(* A TCB that is freed has no timer, or a thread is stray from then on. *)
LEMMA ServerCallKeeps ==
  ASSUME TInv, Good, ~stray', NEW s \in Servers, NEW fd \in Sockfds,
         ServerCall(s, fd)
  PROVE  Good'
<1>1. PICK k \in ServerSockets : k = <<s, fd>>
  BY DEF ServerSockets
<1>2. /\ UNCHANGED <<clientVars, cwPolling, cwArmed, late, net>>
      /\ sState[k] \in {"NULL", "CLOSED"}
      /\ \A i \in ServerSockets \ {k} :
           sState'[i] = sState[i] /\ sPort'[i] = sPort[i] /\ sPeer'[i] = sPeer[i]
      /\ \/ sState[k] = "NULL" /\ sState'[k] = "CLOSED"
         \/ sState[k] = "CLOSED" /\ sState'[k] = "LISTENING" /\ sPort' = sPort
         \/ sState'[k] = "NULL" /\ ~(Timers(k) > 0)
  <2>1. CASE \E port \in ServerPorts : ServerSock(s, fd, port)
    BY <1>1, <2>1 DEF ServerSock, IsFirstFree, TInv, TypeOK
  <2>2. CASE Accept(s, fd)
    BY <1>1, <2>2 DEF Accept, TInv, TypeOK
  <2>3. CASE ServerClose(s, fd)
    BY <1>1, <2>3 DEF ServerClose, TInv, TypeOK
  <2> QED
    BY <2>1, <2>2, <2>3 DEF ServerCall
<1>3. TimersRight(k)'
  <2>1. Timers(k)' = Timers(k) /\ Timers(k) \in Nat /\ TimersRight(k)
    BY <1>2, TimersOf DEF Timers
  <2>2. CASE sState[k] = "CLOSED" /\ sState'[k] = "LISTENING" /\ sPort' = sPort
    BY <1>2, <2>1, <2>2 DEF TimersRight, SAddr
  <2>3. CASE sState[k] = "NULL" /\ sState'[k] = "CLOSED"
    BY <2>1, <2>3 DEF TimersRight
  <2>4. CASE sState'[k] = "NULL" /\ ~(Timers(k) > 0)
    BY <2>1, <2>4 DEF TimersRight
  <2> QED
    BY <1>2, <2>2, <2>3, <2>4
<1> QED
  BY <1>2, <1>3, ServerKeeps

(* An accept that fails while a timer runs marks the address. *)
LEMMA AcceptReturnKeeps ==
  ASSUME TInv, Good, NEW s \in Servers, AcceptReturn(s)
  PROVE  Good'
<1>1. PICK k \in ServerSockets : k = <<s, accepting[s]>>
  BY DEF AcceptReturn, TInv, TypeOK, ServerSockets
<1>2. /\ UNCHANGED <<clientVars, sPort, sPeer, cwPolling, cwArmed, net, stray>>
      /\ late \subseteq late' /\ SAddr(k)' = SAddr(k) /\ sState[k] # "NULL"
      /\ \/ sState' = sState
         \/ /\ sState[k] # "CONNECTED"
            /\ sState'[k] = "CLOSED" /\ (Timers(k) > 0 => SAddr(k) \in late')
            /\ \A i \in ServerSockets \ {k} : sState'[i] = sState[i]
  BY <1>1 DEF AcceptReturn, SAddr, TInv, TypeOK, CallsHaveTCBs
<1>3. TimersRight(k)'
  BY <1>2, TimersOf DEF TimersRight, Timers
<1>4. ~stray'
  BY <1>2 DEF Good
<1> QED
  BY <1>2, <1>3, <1>4, ServerKeeps

LEMMA ServerHandleKeeps ==
  ASSUME TInv, Good, NEW s \in Servers, NEW fd \in Sockfds, NEW seg \in net,
         ServerHandle(s, fd, seg)
  PROVE  Good'
<1>1. PICK k \in ServerSockets : k = <<s, fd>>
  BY DEF ServerSockets
<1>2. /\ UNCHANGED <<clientVars, sPort, cwArmed, late, stray>> /\ ~stray
      /\ \A i \in ServerSockets \ {k} :
           /\ sState'[i] = sState[i] /\ sPeer'[i] = sPeer[i]
           /\ cwPolling'[i] = cwPolling[i]
  <2>1. CASE SynListening(s, fd, seg)
    BY <1>1, <2>1 DEF SynListening, TInv, TypeOK, Good
  <2>2. CASE FinConnected(s, fd, seg)
    BY <1>1, <2>2 DEF FinConnected, TInv, TypeOK, Good
  <2>3. CASE SynConnected(s, fd, seg) \/ FinClosewait(s, fd, seg)
    BY <2>3 DEF SynConnected, FinClosewait, serverVars, Good
  <2> QED
    BY <2>1, <2>2, <2>3 DEF ServerHandle
<1>3. SAddr(k)' = SAddr(k)
  BY <1>2 DEF SAddr
<1>4. CASE SynListening(s, fd, seg) \/ SynConnected(s, fd, seg)
  <2>1. /\ sState[k] # "CLOSEWAIT" /\ sState'[k] = "CONNECTED"
        /\ sPeer'[k] = seg.from /\ cwPolling'[k] = cwPolling[k]
        /\ sState[k] = "CONNECTED" => sPeer'[k] = sPeer[k]
    BY <1>1, <1>4
    DEF SynListening, SynConnected, serverVars, TInv, TypeOK
  <2>2. seg.to = SAddr(k)
    <3>1. seg.type = "SYN" /\ seg.to[1] = s /\ seg.to[2] = sPort[k]
      BY <1>1, <1>4 DEF SynListening, SynConnected, Found, IsFirstWithPort
    <3>2. seg.to \in ServerAddrs
      BY <3>1 DEF TInv, TypeOK, Segments
    <3> QED
      BY <1>1, <3>1, <3>2 DEF SAddr, ServerAddrs
  <2>3. Held(seg.to, seg.from)'
    BY <1>3, <2>1, <2>2 DEF Held, Holds
  <2>4. net' = net \cup {Segment("SYNACK", seg.to, seg.from)}
    BY <1>4 DEF SynListening, SynConnected, Answer
  <2>5. \A t \in net' : \/ t \in net
                        \/ t.type = "SYNACK" /\ Held(t.from, t.to)'
    <3> SUFFICES ASSUME NEW t \in net', t \notin net
                 PROVE  t.type = "SYNACK" /\ Held(t.from, t.to)'
      OBVIOUS
    <3>1. t = [type |-> "SYNACK", from |-> seg.to, to |-> seg.from]
      BY <2>4 DEF Segment
    <3>2. t.type = "SYNACK" /\ t.from = seg.to /\ t.to = seg.from
      BY <3>1
    <3> QED
      BY <2>3, <3>2 DEF Held, Holds, SAddr
  <2>6. TimersRight(k)'
    BY <1>2, <1>3, <2>1, TimersOf DEF TimersRight, Timers
  <2> QED
    BY <1>2, <1>3, <2>1, <2>5, <2>6, ServerKeeps
<1>5. CASE FinConnected(s, fd, seg) \/ FinClosewait(s, fd, seg)
  <2>1. /\ sState'[k] = "CLOSEWAIT"
        /\ sPeer[k] = seg.from /\ seg.type = "FIN"
        /\ net' = net \cup {Segment("FINACK", seg.to, seg.from)}
        /\ \/ sState[k] = "CONNECTED" /\ cwPolling'[k] = cwPolling[k] + 1
           \/ sState[k] = "CLOSEWAIT" /\ cwPolling'[k] = cwPolling[k]
    BY <1>1, <1>5
    DEF FinConnected, FinClosewait, Found, Answer, serverVars, TInv, TypeOK
  <2>2. sPeer[k] \in finished
    BY <2>1 DEF Good, FinsAreSent
  <2>3. \A t \in net' : t \in net \/ t.type = "FINACK"
    BY <2>1 DEF Segment
  <2>4. TimersRight(k)'
    BY <1>2, <1>3, <2>1, TimersOf DEF TimersRight, Timers
  <2> QED
    BY <1>2, <2>2, <2>3, <2>4, ServerKeeps
<1> QED
  BY <1>4, <1>5 DEF ServerHandle

(* A timer that writes where nothing has ended is one left over. *)
LEMMA TimerKeeps ==
  ASSUME TInv, Good, NEW k \in ServerSockets, TimerStep(k)
  PROVE  Good'
<1>1. /\ UNCHANGED <<clientVars, sPort, sPeer, late, net, stray>> /\ ~stray
      /\ \A i \in ServerSockets \ {k} :
           /\ sState'[i] = sState[i]
           /\ cwPolling'[i] = cwPolling[i] /\ cwArmed'[i] = cwArmed[i]
      /\ SAddr(k)' = SAddr(k)
  BY DEF TimerStep, CloseWaitExpire, CloseWaitWrite, CloseWaitExit, TInv, TypeOK,
         Good, SAddr
<1>2. /\ sState[k] = "CONNECTED" => SAddr(k) \in late \/ sState'[k] = sState[k]
      /\ TimersRight(k)'
  <2>1. CASE CloseWaitExpire(k)
    <3>1. /\ sState'[k] = sState[k] /\ sState[k] = "CLOSEWAIT"
          /\ cwPolling'[k] = cwPolling[k] - 1 /\ cwArmed'[k] = cwArmed[k] + 1
      BY <2>1 DEF CloseWaitExpire, TInv, TypeOK
    <3> QED
      BY <1>1, <3>1, TimersOf DEF TimersRight, Timers
  <2>2. CASE CloseWaitWrite(k)
    <3>1. /\ sState'[k] = "CLOSED" /\ sState[k] # "NULL" /\ cwArmed[k] > 0
          /\ cwPolling'[k] = cwPolling[k] /\ cwArmed'[k] = cwArmed[k] - 1
      BY <2>2 DEF CloseWaitWrite, TInv, TypeOK
    <3> QED
      BY <1>1, <3>1, TimersOf DEF TimersRight, Timers
  <2>3. CASE CloseWaitExit(k)
    <3>1. /\ cwPolling[k] > 0 /\ sState[k] \notin {"CLOSEWAIT", "NULL"}
          /\ sState'[k] = sState[k]
      BY <2>3 DEF CloseWaitExit
    <3> QED
      BY <1>1, <3>1, TimersOf DEF TimersRight, Timers
  <2> QED
    BY <2>1, <2>2, <2>3 DEF TimerStep
<1> QED
  BY <1>1, <1>2, ServerKeeps

----------------------------------------------------------------------------
(* The whole invariant *)

SInv == TInv /\ PortsDistinct /\ (~stray => Good)

LEMMA SocketsInit ==
  Init => SInv
<1> SUFFICES ASSUME Init
             PROVE  SInv
  OBVIOUS
<1>1. TInv
  BY TypeInit
<1>2. PortsDistinct
  BY DEF Init, PortsDistinct
<1>3. FinsAreSent /\ OpenIsUnfinished /\ SynackIsHeld /\ Agreement
  BY DEF Init, FinsAreSent, OpenIsUnfinished, SynackIsHeld, Agreement
<1>4. \A c \in Clients : CallIsFinished(c) /\ HandIsHeld(c)
  BY DEF Init, CallIsFinished, HandIsHeld, NoCall, NoHand
<1>5. OneTimer
  <2>1. \A k \in ServerSockets : /\ cwPolling[k] = 0 /\ cwArmed[k] = 0
                                 /\ sState[k] = "NULL"
    BY DEF Init
  <2>2. 0 + 0 = 0
    OBVIOUS
  <2>3. \A k \in ServerSockets : TimersRight(k)
    BY <2>1, <2>2 DEF TimersRight, Timers
  <2> QED
    BY <2>3, Zenon DEF OneTimer
<1> QED
  BY <1>1, <1>2, <1>3, <1>4, <1>5 DEF SInv, Good

(* A TCB in use keeps its port, and a new one gets a port nobody has. *)
LEMMA PortsStep ==
  ASSUME TInv, PortsDistinct, [Next]_vars
  PROVE  PortsDistinct'
<1>1. ASSUME \A i \in ClientSockets :
               cState'[i] # "NULL" => cState[i] # "NULL" /\ cPort'[i] = cPort[i]
      PROVE  PortsDistinct'
  BY <1>1 DEF PortsDistinct
<1>2. CASE cState' = cState /\ cPort' = cPort
  BY <1>1, <1>2
<1>3. ASSUME NEW k \in ClientSockets, NEW v, cState[k] # "NULL", cPort' = cPort,
             cState' = [cState EXCEPT ![k] = v]
      PROVE  PortsDistinct'
  BY <1>1, <1>3 DEF TInv, TypeOK
<1>4. ASSUME NEW c \in Clients, NEW fd \in Sockfds, ClientCall(c, fd)
      PROVE  PortsDistinct'
  <2>1. PICK k \in ClientSockets : k = <<c, fd>>
    BY DEF ClientSockets
  <2>2. CASE \E port \in ClientPorts : ClientSock(c, fd, port)
    <3>1. PICK port \in ClientPorts : ClientSock(c, fd, port)
      BY <2>2
    <3>2. \A i \in ClientSockets :
            i[1] = c /\ cState[i] # "NULL" => cPort[i] # port
      BY <3>1 DEF ClientSock, ClientSockets
    <3>3. /\ cPort'[k] = port
          /\ \A i \in ClientSockets \ {k} :
               cState'[i] = cState[i] /\ cPort'[i] = cPort[i]
      BY <2>1, <3>1 DEF ClientSock, TInv, TypeOK
    <3> QED
      BY <2>1, <3>2, <3>3 DEF PortsDistinct
  <2>3. CASE \E peer \in ServerAddrs : Connect(c, fd, peer)
    BY <1>3, <2>1, <2>3 DEF Connect
  <2>4. CASE Disconnect(c, fd)
    BY <1>3, <2>1, <2>4 DEF Disconnect
  <2>5. CASE ClientClose(c, fd)
    <3>1. \A i \in ClientSockets :
            cState'[i] # "NULL" => cState[i] # "NULL" /\ cPort'[i] = cPort[i]
      BY <2>1, <2>5 DEF ClientClose, TInv, TypeOK
    <3> QED
      BY <1>1, <3>1
  <2> QED
    BY <1>4, <2>2, <2>3, <2>4, <2>5 DEF ClientCall
<1>5. ASSUME NEW c \in Clients, ClientLoop(c)
      PROVE  PortsDistinct'
  <2>1. PICK k \in ClientSockets : k = <<c, cCall[c].sockfd>>
    BY FieldChanges
  <2>2. CASE ConnectResend(c) \/ DisconnectResend(c) \/ ConnectReturn(c)
    BY <1>2, <2>2 DEF ConnectResend, DisconnectResend, Resend, ConnectReturn
  <2>3. CASE ConnectFails(c)
    BY <1>3, <2>1, <2>3 DEF ConnectFails, TInv, CallsHaveTCBs, Idle
  <2>4. CASE DisconnectReturn(c)
    BY <1>3, <2>1, <2>4 DEF DisconnectReturn, TInv, CallsHaveTCBs, Idle
  <2> QED
    BY <1>5, <2>2, <2>3, <2>4 DEF ClientLoop
<1>6. ASSUME NEW c \in Clients, ClientAct(c)
      PROVE  PortsDistinct'
  <2>1. PICK k \in ClientSockets : k = <<c, cHand[c].sockfd>>
    BY FieldChanges
  <2>2. \A fd \in Sockfds : <<c, fd>> \in ClientSockets
    BY DEF ClientSockets
  <2>3. cPort' = cPort
    BY <1>6 DEF ClientAct
  <2>4. cHand[c].tcb = "live" => cState[k] # "NULL"
    BY <1>6, <2>1, HandInUse DEF ClientAct
  <2> DEFINE new == IF cHand[c].type = "SYNACK" THEN "CONNECTED" ELSE "CLOSED"
  <2>5. \/ cState' = cState
        \/ cHand[c].tcb = "live" /\ cState' = [cState EXCEPT ![k] = new]
        \/ \E fd \in Sockfds : cState[<<c, fd>>] # "NULL"
                               /\ cState' = [cState EXCEPT ![<<c, fd>>] = new]
    BY <1>6, <2>1 DEF ClientAct
  <2> HIDE DEF new
  <2> QED
    BY <1>2, <1>3, <2>2, <2>3, <2>4, <2>5
<1>7. CASE UNCHANGED vars
  BY <1>2, <1>7 DEF vars, clientVars
<1>8. ASSUME NEW c \in Clients, NEW fd \in Sockfds, NEW seg \in net,
             ClientReceive(c, fd, seg)
      PROVE  PortsDistinct'
  BY <1>2, <1>8 DEF ClientReceive
<1>9. ASSUME NEW s \in Servers,
             \/ \E fd \in Sockfds : ServerCall(s, fd)
             \/ AcceptReturn(s)
             \/ \E fd \in Sockfds : \E seg \in net : ServerHandle(s, fd, seg)
      PROVE  PortsDistinct'
  <2>1. UNCHANGED clientVars
    BY <1>9 DEF ServerCall, ServerSock, Accept, ServerClose, AcceptReturn,
      ServerHandle, SynListening, SynConnected, FinConnected, FinClosewait
  <2> QED
    BY <1>2, <2>1 DEF clientVars
<1>10. ASSUME NEW k \in ServerSockets, TimerStep(k)
       PROVE  PortsDistinct'
  <2>1. UNCHANGED clientVars
    BY <1>10 DEF TimerStep, CloseWaitExpire, CloseWaitWrite, CloseWaitExit
  <2> QED
    BY <1>2, <2>1 DEF clientVars
<1> QED
  BY <1>4, <1>5, <1>6, <1>7, <1>8, <1>9, <1>10, StepNames

(* Once a thread has been stray it is not forgotten. *)
LEMMA StraySticks ==
  ASSUME [Next]_vars
  PROVE  stray => stray'
<1>1. ASSUME NEW c \in Clients, NEW fd \in Sockfds, ClientCall(c, fd)
      PROVE  stray' = stray
  BY <1>1 DEF ClientCall, ClientSock, Connect, Disconnect, ClientClose
<1>2. ASSUME NEW c \in Clients,
             \/ ClientLoop(c)
             \/ \E fd \in Sockfds : \E seg \in net : ClientReceive(c, fd, seg)
      PROVE  stray' = stray
  BY <1>2 DEF ClientLoop, ConnectResend, DisconnectResend, Resend,
              ConnectReturn, ConnectFails, DisconnectReturn, ClientReceive
<1>3. ASSUME NEW c \in Clients, ClientAct(c), stray
      PROVE  stray'
  BY <1>3, Zenon DEF ClientAct
<1>4. ASSUME NEW s \in Servers, NEW fd \in Sockfds, ServerCall(s, fd), stray
      PROVE  stray'
  BY <1>4 DEF ServerCall, ServerSock, Accept, ServerClose
<1>5. ASSUME NEW s \in Servers,
             \/ AcceptReturn(s)
             \/ \E fd \in Sockfds : \E seg \in net : ServerHandle(s, fd, seg)
      PROVE  stray' = stray
  BY <1>5 DEF AcceptReturn, ServerHandle, SynListening, SynConnected,
              FinConnected, FinClosewait
<1>6. ASSUME NEW k \in ServerSockets, TimerStep(k)
      PROVE  stray' = stray
  BY <1>6 DEF TimerStep, CloseWaitExpire, CloseWaitWrite, CloseWaitExit
<1>7. CASE UNCHANGED vars
  BY <1>7, Zenon DEF vars
<1> QED
  BY <1>1, <1>2, <1>3, <1>4, <1>5, <1>6, <1>7, StepNames, Zenon

LEMMA SocketsStep ==
  ASSUME SInv, [Next]_vars
  PROVE  SInv'
<1>1. TInv' /\ PortsDistinct'
  BY TypeStep, PortsStep DEF SInv
<1>2. ASSUME ~stray', Good
      PROVE  Good'
  <2>1. CASE UNCHANGED vars
    <3>1. Good
      BY <1>2
    <3> QED
      BY <2>1, <3>1
      DEF vars, clientVars, serverVars, Good, FinsAreSent, OpenIsUnfinished,
          SynackIsHeld, CallIsFinished, HandIsHeld, Agreement, OneTimer, Held, Holds,
          TimersRight, Timers, SAddr, CAddr
  <2>2. CASE Next
    <3>1. ASSUME NEW c \in Clients, NEW fd \in Sockfds, ClientCall(c, fd)
          PROVE  Good'
      BY <1>2, <3>1, ClientSockKeeps, ConnectKeeps, DisconnectKeeps,
         ClientCloseKeeps DEF ClientCall, SInv
    <3>2. ASSUME NEW c \in Clients, ClientLoop(c)
          PROVE  Good'
      BY <1>2, <3>2, ResendKeeps, ConnectReturnKeeps, ReturnKeeps
      DEF ClientLoop, SInv
    <3> QED
      BY <1>2, <2>2, <3>1, <3>2, StepNames, ClientReceiveKeeps, ClientActKeeps,
         ServerCallKeeps, AcceptReturnKeeps, ServerHandleKeeps, TimerKeeps
      DEF SInv
  <2> QED
    BY <2>1, <2>2
<1>3. stray => stray'
  BY StraySticks
<1> QED
  BY <1>1, <1>2, <1>3 DEF SInv

(* With calls in progress well placed and ports distinct, the invariant of  *)
(* the tables, whatever their size and however many clients contend.        *)
THEOREM SocketsSafe == Spec => []SocketsInv
<1>1. SInv => SocketsInv
  <2> SUFFICES ASSUME SInv PROVE SocketsInv
    OBVIOUS
  <2>1. CallsHaveTCBs /\ PortsDistinct
    BY DEF SInv, TInv
  <2>2. CASE stray
    BY <2>1, <2>2 DEF SocketsInv, Agreement, OneTimer
  <2>3. CASE ~stray
    BY <2>1, <2>3 DEF SInv, Good, SocketsInv
  <2> QED
    BY <2>2, <2>3
<1> QED
  BY <1>1, SocketsInit, SocketsStep, PTL DEF Spec

(* A server never takes a second client while the first is connected, and  *)
(* every client that is connected is connected to the server it named.      *)
THEOREM ConnectedAgree == Spec => []Agreement
<1>1. SocketsInv => Agreement
  BY DEF SocketsInv
<1> QED
  BY <1>1, SocketsSafe, PTL

(* One closeWaitTimer runs for a TCB in CLOSEWAIT, none for any other,      *)
(* except at an address where an accept has failed while a timer ran.       *)
THEOREM OneTimerRuns == Spec => []OneTimer
<1>1. SocketsInv => OneTimer
  BY DEF SocketsInv
<1> QED
  BY <1>1, SocketsSafe, PTL

(* What a step may do to a connected TCB. *)
LEMMA EndsStep ==
  ASSUME TInv, Good, ~stray', [Next]_vars
  PROVE  OnlyDisconnectEnds
<1>1. CASE UNCHANGED <<cState, sState>>
  BY <1>1 DEF OnlyDisconnectEnds
<1>2. ASSUME NEW k \in ClientSockets, NEW v, UNCHANGED serverVars,
             cState' = [cState EXCEPT ![k] = v],
             cState[k] = "CONNECTED" /\ ~GivingUp(k) =>
               v \in {"CONNECTED", "FINWAIT"}
      PROVE  OnlyDisconnectEnds
  BY <1>2 DEF OnlyDisconnectEnds, TInv, TypeOK, serverVars
<1>3. ASSUME NEW k \in ServerSockets, NEW v, UNCHANGED clientVars,
             sState' = [sState EXCEPT ![k] = v],
             sState[k] = "CONNECTED" =>
               v = "CONNECTED" \/ sPeer[k] \in finished \/ LeftTimerWrites(k)
      PROVE  OnlyDisconnectEnds
  BY <1>3 DEF OnlyDisconnectEnds, TInv, TypeOK, clientVars
<1>4. ASSUME NEW c \in Clients, NEW fd \in Sockfds, ClientCall(c, fd)
      PROVE  OnlyDisconnectEnds
  <2>1. PICK k \in ClientSockets : k = <<c, fd>>
    BY DEF ClientSockets
  <2> QED
    BY <1>2, <1>4, <2>1
    DEF ClientCall, ClientSock, IsFirstFree, Connect, Disconnect, ClientClose
<1>5. ASSUME NEW c \in Clients, ClientLoop(c)
      PROVE  OnlyDisconnectEnds
  <2>1. PICK k \in ClientSockets : k = <<c, cCall[c].sockfd>>
    BY FieldChanges
  <2>2. CASE ConnectResend(c) \/ DisconnectResend(c) \/ ConnectReturn(c)
    BY <1>1, <2>2
    DEF ConnectResend, DisconnectResend, Resend, ConnectReturn, serverVars
  <2>3. CASE ConnectFails(c)
    <3>1. GivingUp(k)
      BY <2>1, <2>3 DEF ConnectFails, GivingUp
    <3> QED
      BY <1>2, <2>1, <2>3, <3>1 DEF ConnectFails
  <2>4. CASE DisconnectReturn(c)
    <3>1. cState[k] # "CONNECTED"
      BY <2>1, <2>4 DEF DisconnectReturn, Good, CallIsFinished
    <3> QED
      BY <1>2, <2>1, <2>4, <3>1 DEF DisconnectReturn
  <2> QED
    BY <1>5, <2>2, <2>3, <2>4 DEF ClientLoop
<1>6. ASSUME NEW c \in Clients, NEW fd \in Sockfds, NEW seg \in net,
             ClientReceive(c, fd, seg)
      PROVE  OnlyDisconnectEnds
  BY <1>1, <1>6 DEF ClientReceive, serverVars
<1>7. ASSUME NEW c \in Clients, ClientAct(c)
      PROVE  OnlyDisconnectEnds
  <2>1. PICK k \in ClientSockets : k = <<c, cHand[c].sockfd>>
    BY FieldChanges
  <2> DEFINE v == IF cHand[c].type = "SYNACK" THEN "CONNECTED" ELSE "CLOSED"
  <2>2. cState' = [cState EXCEPT ![k] = v] /\ UNCHANGED serverVars
        /\ cHand[c].type # "none" /\ cHand[c].tcb # "freed"
    BY <1>7, <2>1 DEF ClientAct
  <2>3. cState[k] = "CONNECTED" => v \in {"CONNECTED", "FINWAIT"}
    <3>1. HandIsHeld(c)
      BY DEF Good
    <3> QED
      BY <2>1, <2>2, <3>1, FieldChanges DEF HandIsHeld
  <2> HIDE DEF v
  <2> QED
    BY <1>2, <2>2, <2>3
<1>8. ASSUME NEW s \in Servers, NEW fd \in Sockfds, ServerCall(s, fd)
      PROVE  OnlyDisconnectEnds
  <2>1. PICK k \in ServerSockets : k = <<s, fd>>
    BY DEF ServerSockets
  <2> QED
    BY <1>3, <1>8, <2>1 DEF ServerCall, ServerSock, IsFirstFree, Accept, ServerClose
<1>9. ASSUME NEW s \in Servers, AcceptReturn(s)
      PROVE  OnlyDisconnectEnds
  <2>1. PICK k \in ServerSockets : k = <<s, accepting[s]>>
    BY <1>9 DEF AcceptReturn, TInv, TypeOK, ServerSockets
  <2> QED
    BY <1>1, <1>3, <1>9, <2>1 DEF AcceptReturn, clientVars
<1>10. ASSUME NEW s \in Servers, NEW fd \in Sockfds, NEW seg \in net,
              ServerHandle(s, fd, seg)
       PROVE  OnlyDisconnectEnds
  <2>1. PICK k \in ServerSockets : k = <<s, fd>>
    BY DEF ServerSockets
  <2>2. CASE SynListening(s, fd, seg)
    BY <1>3, <2>1, <2>2 DEF SynListening
  <2>3. CASE SynConnected(s, fd, seg) \/ FinClosewait(s, fd, seg)
    BY <1>1, <2>3 DEF SynConnected, FinClosewait, clientVars, serverVars
  <2>4. CASE FinConnected(s, fd, seg)
    <3>1. sPeer[k] \in finished
      BY <2>1, <2>4 DEF FinConnected, Found, Good, FinsAreSent
    <3> QED
      BY <1>3, <2>1, <2>4, <3>1 DEF FinConnected
  <2> QED
    BY <1>10, <2>2, <2>3, <2>4 DEF ServerHandle
<1>11. ASSUME NEW k \in ServerSockets, TimerStep(k)
       PROVE  OnlyDisconnectEnds
  <2>1. CASE CloseWaitExpire(k) \/ CloseWaitExit(k)
    BY <1>1, <2>1 DEF CloseWaitExpire, CloseWaitExit, clientVars
  <2>2. CASE CloseWaitWrite(k)
    <3>1. sState[k] = "CONNECTED" => SAddr(k) \in late
      BY <2>2, TimersOf DEF CloseWaitWrite, TimersRight, Timers
    <3>2. cwArmed'[k] < cwArmed[k]
      BY <2>2, TimersOf DEF CloseWaitWrite, TInv, TypeOK
    <3> QED
      BY <1>3, <2>2, <3>1, <3>2 DEF CloseWaitWrite, LeftTimerWrites
  <2> QED
    BY <1>11, <2>1, <2>2 DEF TimerStep
<1>12. CASE UNCHANGED vars
  BY <1>1, <1>12 DEF vars, clientVars, serverVars
<1> QED
  BY <1>4, <1>5, <1>6, <1>7, <1>8, <1>9, <1>10, <1>11, <1>12, StepNames

(* No late FINACK or FIN ends an open connection: at a client only its own *)
(* call of disconnect does, and a connect that is already giving up; at a  *)
(* server only that call of its client does, and a closeWaitTimer left     *)
(* over where an earlier accept of the same address had failed.            *)
THEOREM OnlyDisconnectEndsIt ==
  Spec => EndsByDisconnect
<1>1. SInv /\ [Next]_vars => [OnlyDisconnectEnds]_vars
  <2> SUFFICES ASSUME SInv, [Next]_vars
               PROVE  OnlyDisconnectEnds
    OBVIOUS
  <2>1. SInv'
    BY SocketsStep
  <2>2. CASE stray'
    BY <2>2 DEF OnlyDisconnectEnds
  <2>3. CASE ~stray'
    <3>1. stray => stray'
      BY StraySticks
    <3> QED
      BY <2>3, <3>1, EndsStep DEF SInv
  <2> QED
    BY <2>2, <2>3
<1> QED
  BY <1>1, SocketsInit, SocketsStep, PTL DEF Spec, EndsByDisconnect
=============================================================================
