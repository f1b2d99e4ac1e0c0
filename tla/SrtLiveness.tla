---------------------------- MODULE SrtLiveness ----------------------------
(***************************************************************************)
(* What SRT must eventually do, under the fairness its threads and its     *)
(* network give it.                                                        *)
(***************************************************************************)
EXTENDS Srt

(* A call the application has made goes on (its loops poll); whether it     *)
(* makes another one is its own choice.                                     *)
AppGoesOn ==
  /\ WF_vars((ConnectResend \/ ConnectReturn) /\ UNCHANGED serverVars)
  /\ WF_vars((Enqueue \/ SendFlush) /\ UNCHANGED serverVars)
  /\ WF_vars((DisconnectResend \/ DisconnectReturn) /\ UNCHANGED serverVars)

HandlerActs ==
  HandlerSynack \/ HandlerDataack \/ HandlerFlush \/ HandlerFinack

ClientReceive ==
  \E i \in Deliverable(s2c) : HandlerReceive(i) \/ HandlerDiscard(i)

ReceiveAck(n) ==
  \E i \in Deliverable(s2c) :
    s2c[i].type = "DATAACK" /\ s2c[i].seq = n /\ HandlerReceive(i)

(* The client's threads run, and a DATAACK sent again and again comes       *)
(* through again and again.                                                 *)
ClientThreads ==
  /\ WF_vars(TimerStep /\ UNCHANGED serverVars)
  /\ WF_vars(HandlerActs /\ UNCHANGED serverVars)
  /\ WF_vars(ClientReceive /\ UNCHANGED serverVars)
  /\ \A n \in 1 .. MaxBytes : SF_vars(ReceiveAck(n) /\ UNCHANGED serverVars)

ServerReceive ==
  \E i \in Deliverable(c2s) :
    \/ Switch(i) \/ SynConnected(i) \/ FinClosewait(i)
    \/ DataConnected(i) \/ ServerDiscard(i)

ReceiveData(n) ==
  \E i \in Deliverable(c2s) : c2s[i].seq = n /\ DataConnected(i)

ReaderReads == sState = "CONNECTED" /\ \E length \in RecvLens : Recv(length)

(* The same for the server, whose application keeps reading.                *)
ServerThreads ==
  /\ WF_vars(AcceptReturn /\ UNCHANGED clientVars)
  /\ WF_vars(RecvReturn /\ UNCHANGED clientVars)
  /\ WF_vars(ReaderReads /\ UNCHANGED clientVars)
  /\ WF_vars((SynListening \/ FinConnected) /\ UNCHANGED clientVars)
  /\ WF_vars(ServerReceive /\ UNCHANGED clientVars)
  /\ \A n \in 0 .. MaxBytes - 1 : SF_vars(ReceiveData(n) /\ UNCHANGED clientVars)

FairSpec == Spec /\ AppGoesOn /\ ClientThreads /\ ServerThreads

----------------------------------------------------------------------------
IsRead(b) == \E i \in DOMAIN delivered : delivered[i] = b

(* Every byte put into a segment reaches the application of the server, as  *)
(* long as the client stays connected: losses are made good by sendBuf_timer*)
(* although it resends unAck_segNum + 1 segments, drops for want of space   *)
(* by the reader making room.                                               *)
Delivered ==
  \A b \in 1 .. MaxBytes :
    (b <= queued /\ cState = "CONNECTED")
      ~> (IsRead(b) \/ cState # "CONNECTED")

(* The DATAACKs that the retransmissions provoke free every segBuf.         *)
Drained == sendBuf # <<>> ~> sendBuf = <<>>

(* No call of the client blocks for good: srt_client_connect and            *)
(* _disconnect give up after SYN_MAX_RETRY and FIN_MAX_RETRY tries.         *)
CallsReturn == appPc # "idle" ~> appPc = "idle"

(* srt_server_recv returns once what it wants has been put into segments.   *)
RecvReturns ==
  (/\ srvPc = "recv" /\ cState = "CONNECTED"
   /\ queued >= Len(delivered) + recvLen)
    ~> (srvPc # "recv" \/ cState # "CONNECTED")
=============================================================================
