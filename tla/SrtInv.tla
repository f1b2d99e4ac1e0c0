------------------------------- MODULE SrtInv -------------------------------
(***************************************************************************)
(* The inductive invariant of Srt from which the safety properties follow, *)
(* as long as sequence numbers do not wrap (NoWrap).  Everything but       *)
(* SynsAreLater holds whatever order the network delivers in.              *)
(***************************************************************************)
EXTENDS Srt

NoWrap == MaxBytes < SEQ_MOD

(* What the application thread and the seghandler may rely on: the buffer   *)
(* is empty unless the connection is up, and a SYNACK or FINACK the         *)
(* seghandler still has to act upon finds the state it was read for, or the *)
(* one a call that gave up left behind.                                     *)
PhaseInv ==
  /\ cState # "CONNECTED" => sendBuf = <<>>
  /\ appPc = "send" => cState = "CONNECTED"
  /\ appPc = "connect" => cState \in {"SYNSENT", "CONNECTED", "CLOSED"}
  /\ appPc = "disconnect" => cState \in {"FINWAIT", "CLOSED"}
  /\ hPc = "act" => hSeg.type \in {"SYNACK", "DATAACK", "FINACK"}
  /\ hPc = "act" /\ hSeg.type = "SYNACK" =>
       appPc # "disconnect" /\ cState \in {"SYNSENT", "CLOSED", "NULL"}
  /\ hPc = "act" /\ hSeg.type = "FINACK" => cState # "CONNECTED"
  /\ srvPc = "accept" => sState # "NULL"

(* The counters of the client agree with the history. *)
CountersInv ==
  /\ next_seqNum = queued
  /\ queued + left <= offered
  /\ connStart <= queued
  /\ appPc = "connect" => connStart = queued

(* The send buffer: segments of the current connection, one after the other. *)
BufferInv ==
  /\ \A i \in DOMAIN sendBuf :
       /\ sendBuf[i].type = "DATA"
       /\ sendBuf[i].seq = sendBuf[i].pos
       /\ connStart <= sendBuf[i].seq
       /\ sendBuf[i].seq + sendBuf[i].len <= queued
  /\ \A i, j \in DOMAIN sendBuf :
       i < j => sendBuf[i].seq + sendBuf[i].len <= sendBuf[j].seq

(* The code's counter may be one too small, never more. *)
WindowInv ==
  /\ unSent \in 0 .. Len(sendBuf)
  /\ unSent <= unAck_segNum + 1

(* n is where a sent segment ends: no segment of the buffer lies across it, *)
(* and those from sendBufunSent on are beyond it, as long as a DATAACK or   *)
(* sendMaxSegments may still look at them.                                  *)
Frontier(n) ==
  /\ n <= queued
  /\ \A i \in DOMAIN sendBuf :
       /\ n <= sendBuf[i].seq \/ sendBuf[i].seq + sendBuf[i].len <= n
       /\ unSent < i /\ bufMutex = "free" => n <= sendBuf[i].seq

IsStored(b) == \E i \in DOMAIN Stored : Stored[i] = b

(* The server has every byte of the client's current connection up to n. *)
HasUpTo(n) == sState # "NULL" => \A b \in connStart + 1 .. n : IsStored(b)

(* Segments on their way to the server, and the SYN its handler holds. *)
ToServerSegOK(seg) ==
  /\ seg.type = "SYN" => seg.seq <= connStart
  /\ seg.type = "DATA" => seg.seq = seg.pos /\ Frontier(seg.seq + seg.len)

ToServerInv ==
  /\ \A i \in DOMAIN c2s : ToServerSegOK(c2s[i])
  /\ sBranch = "SYN" => sSeg.seq <= connStart

Received(n) == Frontier(n) /\ HasUpTo(n)

ServerInv == Received(expect_seqNum)

(* Every DATAACK under way, and the one the seghandler holds. *)
AckInv ==
  /\ \A i \in DOMAIN s2c : s2c[i].type = "DATAACK" => Received(s2c[i].seq)
  /\ hPc = "act" /\ hSeg.type = "DATAACK" => Received(hSeg.seq)

SafetyInv ==
  /\ TypeOK /\ PhaseInv /\ CountersInv /\ BufferInv /\ WindowInv
  /\ ToServerInv /\ ServerInv /\ AckInv
  /\ AckedIsStored /\ TimerRuns

(* Where the server would stand after acting upon a segment. *)
Reach(seg) ==
  IF seg.type = "DATA" THEN seg.seq + seg.len
  ELSE IF seg.type = "SYN" THEN seg.seq ELSE 0

(* With a fixed route, a SYN is behind the data sent before it, so that it  *)
(* never takes the server back.                                             *)
SynsAreLater ==
  /\ \A i \in DOMAIN c2s : c2s[i].type = "SYN" =>
       /\ expect_seqNum <= c2s[i].seq
       /\ sBranch = "SYN" => sSeg.seq <= c2s[i].seq
       /\ \A j \in 1 .. i - 1 : Reach(c2s[j]) <= c2s[i].seq
  /\ sBranch = "SYN" => expect_seqNum <= sSeg.seq

FifoInv == SafetyInv /\ SynsAreLater
=============================================================================
