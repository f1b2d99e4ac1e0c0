----------------------------- MODULE SrtServer -----------------------------
(***************************************************************************)
(* The server side of SRT (server/srt_server.c): one transport control     *)
(* block, from srt_server_sock to srt_server_close, and its threads:       *)
(*   - the application thread, inside srt_server_accept or _recv as srvPc  *)
(*     says;                                                               *)
(*   - the seghandler; a branch that writes the state is two steps, the    *)
(*     switch that reads it and the write (a closeWaitTimer may come in    *)
(*     between); the other branches read the state once and touch nothing  *)
(*     another thread writes without bufMutex, so they are one;            *)
(*   - the closeWaitTimer threads, which test the state and the clock and  *)
(*     write CLOSED later.                                                 *)
(*                                                                         *)
(* recvBuf is the content of the receive buffer, each byte named by its    *)
(* place in the client's stream: usedBufLen = Len(recvBuf).                *)
(***************************************************************************)
EXTENDS SrtBase

CONSTANTS
  RecvLens,           \* lengths the application passes to srt_server_recv
  MaxAccepts,         \* bound: calls of srt_server_accept
  ServerLinkMayFail   \* TRUE: the server's connection to its SNP may break

VARIABLES
  sState,             \* state of the TCB; "NULL" once srt_server_close freed it
  expect_seqNum,      \* sequence number of the next byte to store
  recvBuf,            \* bytes received and not yet read
  srvPc,              \* the call the application is in
  recvLen,            \* length asked for by the current srt_server_recv
  accepts,            \* calls of srt_server_accept so far
  sRet,               \* result of the last srt_server_accept
  cwPolling, cwArmed, \* closeWaitTimer threads: polling / about to write CLOSED
  sBranch, sSeg,      \* the branch the seghandler is in, and its segment
  sLink,              \* the seghandler is alive
  delivered,          \* history: bytes srt_server_recv returned
  synced              \* history: a SYN was accepted during the last accept

serverVars == <<sState, expect_seqNum, recvBuf, srvPc, recvLen, accepts, sRet,
                cwPolling, cwArmed, sBranch, sSeg, sLink, delivered, synced>>

callVars  == <<srvPc, recvLen, accepts, sRet>>
timerVars == <<cwPolling, cwArmed>>
shVars    == <<sBranch, sSeg, sLink>>

ASSUME ServerAssumption ==
  /\ RecvLens \subseteq Nat
  /\ MaxAccepts \in Nat
  /\ ServerLinkMayFail \in BOOLEAN

ServerStates == {"CLOSED", "LISTENING", "CONNECTED", "CLOSEWAIT", "NULL"}

(* srt_server_sock *)
ServerInit ==
  /\ sState = "CLOSED"
  /\ expect_seqNum = 0
  /\ recvBuf = <<>>
  /\ srvPc = "idle" /\ recvLen = 0
  /\ accepts = 0 /\ sRet = "none"
  /\ cwPolling = 0 /\ cwArmed = 0
  /\ sBranch = "none" /\ sSeg = ControlSeg("SYN", 0) /\ sLink = TRUE
  /\ delivered = <<>> /\ synced = FALSE

SendToClient(seg) == s2c' = Transmit(s2c, <<seg>>)

----------------------------------------------------------------------------
(* srt_server_accept *)

Accept ==
  /\ srvPc = "idle" /\ sState = "CLOSED"
  /\ accepts < MaxAccepts
  /\ accepts' = accepts + 1
  /\ sState' = "LISTENING"
  /\ srvPc' = "accept" /\ sRet' = "none"
  /\ synced' = FALSE
  /\ UNCHANGED <<netVars, expect_seqNum, recvBuf, recvLen, timerVars, shVars,
                 delivered>>

(* A poll, every ACCEPT_POLLING_INTERVAL, finds the state changed. *)
AcceptReturn ==
  /\ srvPc = "accept" /\ sState # "LISTENING"
  /\ srvPc' = "idle"
  /\ \/ sState = "CONNECTED" /\ sRet' = "accepted" /\ UNCHANGED sState
     \/ sState # "CONNECTED" /\ sRet' = "failed" /\ sState' = "CLOSED"
  /\ UNCHANGED <<netVars, expect_seqNum, recvBuf, recvLen, accepts, timerVars,
                 shVars, delivered, synced>>

----------------------------------------------------------------------------
(* srt_server_recv: whatever the state of the TCB *)

Recv(length) ==
  /\ srvPc = "idle" /\ sState # "NULL"
  /\ length <= RECEIVE_BUF_SIZE
  /\ srvPc' = "recv" /\ recvLen' = length
  /\ UNCHANGED <<netVars, sState, expect_seqNum, recvBuf, accepts, sRet,
                 timerVars, shVars, delivered, synced>>

(* mutant of RecvReturn: the rest is copied from one byte too early *)
RecvReturnKeepsLast ==
  /\ srvPc = "recv"
  /\ Len(recvBuf) >= recvLen
  /\ delivered' = delivered \o SubSeq(recvBuf, 1, recvLen)
  /\ recvBuf' = SubSeq(recvBuf, recvLen, Len(recvBuf))
  /\ srvPc' = "idle" /\ recvLen' = 0
  /\ UNCHANGED <<netVars, sState, expect_seqNum, accepts, sRet, timerVars,
                 shVars, synced>>

(* A poll finds enough bytes: copy them out, move the rest to the front. *)
RecvReturn ==
  /\ srvPc = "recv"
  /\ Len(recvBuf) >= recvLen
  /\ delivered' = delivered \o SubSeq(recvBuf, 1, recvLen)
  /\ recvBuf' = SubSeq(recvBuf, recvLen + 1, Len(recvBuf))
  /\ srvPc' = "idle" /\ recvLen' = 0
  /\ UNCHANGED <<netVars, sState, expect_seqNum, accepts, sRet, timerVars,
                 shVars, synced>>

ServerClose ==
  /\ srvPc = "idle" /\ sState = "CLOSED"
  /\ sState' = "NULL"
  /\ recvBuf' = <<>>
  /\ UNCHANGED <<netVars, expect_seqNum, callVars, timerVars, shVars,
                 delivered, synced>>

----------------------------------------------------------------------------
(* seghandler *)

Arrives(i, type) ==
  /\ sLink /\ sBranch = "none"
  /\ c2s[i].type = type
  /\ c2s' = RemoveAt(c2s, i)

(* The switch: a SYN in LISTENING, a FIN in CONNECTED. *)
Switch(i) ==
  /\ \/ Arrives(i, "SYN") /\ sState = "LISTENING"
     \/ Arrives(i, "FIN") /\ sState = "CONNECTED"
  /\ sBranch' = c2s[i].type /\ sSeg' = c2s[i]
  /\ UNCHANGED <<s2c, sState, expect_seqNum, recvBuf, callVars, timerVars,
                 sLink, delivered, synced>>

Branch(type) ==
  /\ sBranch = type /\ sState # "NULL"
  /\ sBranch' = "none" /\ sSeg' = ControlSeg("SYN", 0)

(* LISTENING: the client is remembered and its sequence number adopted. *)
SynListening ==
  /\ Branch("SYN")
  /\ sState' = "CONNECTED"
  /\ expect_seqNum' = sSeg.seq
  /\ synced' = TRUE
  /\ SendToClient(ControlSeg("SYNACK", 0))
  /\ UNCHANGED <<c2s, recvBuf, callVars, timerVars, sLink, delivered>>

(* CONNECTED: a SYN of the same client is only answered. *)
SynConnected(i) ==
  /\ Arrives(i, "SYN")
  /\ sState = "CONNECTED"
  /\ SendToClient(ControlSeg("SYNACK", 0))
  /\ UNCHANGED serverVars

FinConnected ==
  /\ Branch("FIN")
  /\ sState' = "CLOSEWAIT"
  /\ cwPolling' = cwPolling + 1
  /\ SendToClient(ControlSeg("FINACK", 0))
  /\ UNCHANGED <<c2s, expect_seqNum, recvBuf, callVars, cwArmed, sLink,
                 delivered, synced>>

FinClosewait(i) ==
  /\ Arrives(i, "FIN")
  /\ sState = "CLOSEWAIT"
  /\ SendToClient(ControlSeg("FINACK", 0))
  /\ UNCHANGED serverVars

(* mutant of Storable: a gap is not noticed *)
StorableLater(seg) ==
  /\ seg.seq >= expect_seqNum
  /\ seg.len + Len(recvBuf) < RECEIVE_BUF_SIZE

(* The next segment in order is stored if the buffer does not get full. *)
Storable(seg) ==
  /\ seg.seq = expect_seqNum
  /\ seg.len + Len(recvBuf) < RECEIVE_BUF_SIZE

(* mutant of DataConnected: a segment dropped for want of room is counted *)
DataConnectedCounts(i) ==
  /\ Arrives(i, "DATA")
  /\ sState = "CONNECTED"
  /\ recvBuf' = IF Storable(c2s[i]) THEN recvBuf \o Payload(c2s[i]) ELSE recvBuf
  /\ expect_seqNum' = IF c2s[i].seq = expect_seqNum
                        THEN SeqAdd(expect_seqNum, c2s[i].len) ELSE expect_seqNum
  /\ SendToClient(ControlSeg("DATAACK", expect_seqNum'))
  /\ UNCHANGED <<sState, callVars, timerVars, shVars, delivered, synced>>

DataConnected(i) ==
  /\ Arrives(i, "DATA")
  /\ sState = "CONNECTED"
  /\ IF Storable(c2s[i])
       THEN /\ recvBuf' = recvBuf \o Payload(c2s[i])
            /\ expect_seqNum' = SeqAdd(expect_seqNum, c2s[i].len)
       ELSE UNCHANGED <<recvBuf, expect_seqNum>>
  /\ SendToClient(ControlSeg("DATAACK", expect_seqNum'))
  /\ UNCHANGED <<sState, callVars, timerVars, shVars, delivered, synced>>

(* A segment is lost (seglost, or its checksum is wrong), or the branch the *)
(* state selects does nothing with it.                                      *)
ServerDiscard(i) ==
  /\ sLink /\ sBranch = "none"
  /\ c2s' = RemoveAt(c2s, i)
  /\ UNCHANGED <<s2c, serverVars>>

(* snp_recvseg fails: the handler closes overlay_conn_fd and terminates. *)
ServerHandlerExit ==
  /\ ServerLinkMayFail
  /\ sLink /\ sBranch = "none"
  /\ sLink' = FALSE
  /\ UNCHANGED <<netVars, sState, expect_seqNum, recvBuf, callVars, timerVars,
                 sBranch, sSeg, delivered, synced>>

----------------------------------------------------------------------------
(* closeWaitTimer *)

(* The loop has seen CLOSEWAIT and a time difference above one second: the  *)
(* clock is its nanosecond field, so that is when it wraps.                 *)
CloseWaitExpire ==
  /\ sState = "CLOSEWAIT" /\ cwPolling > 0
  /\ cwPolling' = cwPolling - 1 /\ cwArmed' = cwArmed + 1
  /\ UNCHANGED <<netVars, sState, expect_seqNum, recvBuf, callVars, shVars,
                 delivered, synced>>

CloseWaitWrite ==
  /\ sState # "NULL" /\ cwArmed > 0
  /\ cwArmed' = cwArmed - 1
  /\ sState' = "CLOSED"
  /\ UNCHANGED <<netVars, expect_seqNum, recvBuf, callVars, cwPolling, shVars,
                 delivered, synced>>

(* The loop has seen another state. *)
CloseWaitExit ==
  /\ sState \notin {"CLOSEWAIT", "NULL"} /\ cwPolling > 0
  /\ cwPolling' = cwPolling - 1
  /\ UNCHANGED <<netVars, sState, expect_seqNum, recvBuf, callVars, cwArmed,
                 shVars, delivered, synced>>

----------------------------------------------------------------------------
ServerAppStep ==
  \/ Accept \/ AcceptReturn
  \/ \E length \in RecvLens : Recv(length)
  \/ RecvReturn \/ ServerClose

ServerHandlerStep ==
  \/ \E i \in Deliverable(c2s) :
       \/ Switch(i) \/ SynConnected(i) \/ FinClosewait(i)
       \/ DataConnected(i) \/ ServerDiscard(i)
  \/ SynListening \/ FinConnected
  \/ ServerHandlerExit

CloseWaitStep == CloseWaitExpire \/ CloseWaitWrite \/ CloseWaitExit

ServerNext == ServerAppStep \/ ServerHandlerStep \/ CloseWaitStep

ServerTypeOK ==
  /\ sState \in ServerStates
  /\ expect_seqNum \in Nat
  /\ recvBuf \in Seq(Nat)
  /\ srvPc \in {"idle", "accept", "recv"}
  /\ recvLen \in Nat
  /\ accepts \in 0 .. MaxAccepts
  /\ sRet \in {"none", "accepted", "failed"}
  /\ cwPolling \in Nat /\ cwArmed \in Nat
  /\ sBranch \in {"none", "SYN", "FIN"} /\ sSeg \in Segments
  /\ sLink \in BOOLEAN
  /\ delivered \in Seq(Nat)
  /\ synced \in BOOLEAN
=============================================================================
