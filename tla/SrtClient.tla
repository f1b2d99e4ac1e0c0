----------------------------- MODULE SrtClient -----------------------------
(***************************************************************************)
(* The client side of SRT (client/srt_client.c): one transport control     *)
(* block, from the srt_client_sock that makes it to the srt_client_close   *)
(* that frees it, and the threads that share it:                           *)
(*   - the application thread, inside srt_client_connect, _send or         *)
(*     _disconnect as appPc says;                                          *)
(*   - the seghandler, which reads the state of the TCB and acts on it     *)
(*     later (hPc);                                                        *)
(*   - the sendBuf_timer threads, one started each time a segment is put   *)
(*     into an empty send buffer.                                          *)
(* A critical section on bufMutex is one step.                             *)
(*                                                                         *)
(* sendBuf is the linked list of segBufs from sendBufHead to sendBufTail.  *)
(* The pointer sendBufunSent is kept as unSent, the number of segBufs in   *)
(* front of the one it points to: unSent = Len(sendBuf) is the NULL        *)
(* pointer, and unSent < 0 is a pointer to a segBuf that was freed.        *)
(***************************************************************************)
EXTENDS SrtBase, Integers

CONSTANTS
  SendLens,           \* lengths the application passes to srt_client_send
  MaxBytes,           \* bound: bytes the application sends in all
  MaxConnects,        \* bound: calls of srt_client_connect
  MaxTimers,          \* bound: sendBuf_timer threads alive
  LinkMayFail         \* TRUE: the connection to the local SNP may break

VARIABLES
  cState,             \* state of the TCB; "NULL" once srt_client_close freed it
  next_seqNum,        \* sequence number of the next segment
  sendBuf, unSent,    \* the send buffer and its first unsent segment
  unAck_segNum,       \* the code's count of sent-but-not-Acked segments
  bufMutex,           \* "free", or "leaked" by a return that did not unlock
  timers,             \* number of live sendBuf_timer threads
  appPc, tries,       \* the call the application is in, and its retries
  left,               \* bytes srt_client_send has not put into segments yet
  connects,           \* calls of srt_client_connect so far
  cRet,               \* result of the last connect or disconnect
  hPc, hSeg,          \* the seghandler, and the segment it holds
  cLink,              \* overlay_conn_fd is open
  offered,            \* history: bytes passed to srt_client_send
  queued,             \* history: bytes put into segments
  connStart,          \* history: bytes queued when connect was last called
  acked               \* history: bytes whose segBuf a DATAACK freed

appVars   == <<appPc, tries, left, connects, cRet>>
bufVars   == <<sendBuf, unSent, unAck_segNum, bufMutex, timers, next_seqNum>>
handVars  == <<hPc, hSeg>>
histVars  == <<offered, queued, connStart, acked>>
clientVars == <<cState, bufVars, appVars, handVars, cLink, histVars>>

ASSUME ClientAssumption ==
  /\ SendLens \subseteq Nat \ {0}
  /\ MaxBytes \in Nat
  /\ MaxConnects \in Nat
  /\ MaxTimers \in Nat
  /\ LinkMayFail \in BOOLEAN

(* The seghandler's segment buffer after memset: type 0 is SYN. *)
NoSeg == ControlSeg("SYN", 0)

ClientStates == {"CLOSED", "SYNSENT", "CONNECTED", "FINWAIT", "NULL"}

(* srt_client_sock: the TCB as it leaves malloc and the assignments. *)
ClientInit ==
  /\ cState = "CLOSED"
  /\ next_seqNum = 0
  /\ sendBuf = <<>> /\ unSent = 0
  /\ unAck_segNum = 0
  /\ bufMutex = "free"
  /\ timers = 0
  /\ appPc = "idle" /\ tries = 0 /\ left = 0
  /\ connects = 0 /\ cRet = "none"
  /\ hPc = "recv" /\ hSeg = NoSeg
  /\ cLink = TRUE
  /\ offered = 0 /\ queued = 0 /\ connStart = 0 /\ acked = {}

MinOf(a, b) == IF a < b THEN a ELSE b

SendToServer(segs) == c2s' = Transmit(c2s, segs)

----------------------------------------------------------------------------
(* srt_client_connect *)

(* The call: only in CLOSED.  If the first SYN cannot be sent the call      *)
(* returns -1 at once and the state stays SYNSENT.                          *)
Connect ==
  /\ appPc = "idle" /\ cState = "CLOSED"
  /\ connects < MaxConnects
  /\ connects' = connects + 1
  /\ cState' = "SYNSENT"
  /\ connStart' = queued
  /\ tries' = 0
  /\ \/ /\ cLink
        /\ SendToServer(<<ControlSeg("SYN", next_seqNum)>>)
        /\ appPc' = "connect" /\ cRet' = "none"
     \/ /\ ~cLink
        /\ appPc' = "idle" /\ cRet' = "failed"
        /\ UNCHANGED c2s
  /\ UNCHANGED <<s2c, bufVars, left, handVars, cLink, offered,
                 queued, acked>>

(* mutant of ConnectResend: the retries are not counted *)
ConnectResendUncounted ==
  /\ appPc = "connect" /\ cState = "SYNSENT" /\ cLink
  /\ SendToServer(<<ControlSeg("SYN", next_seqNum)>>)
  /\ UNCHANGED <<cState, s2c, bufVars, appVars, handVars, cLink, histVars>>

(* SYN_TIMEOUT passed in the waiting loop: send the SYN again. *)
ConnectResend ==
  /\ appPc = "connect" /\ cState = "SYNSENT" /\ tries < SYN_MAX_RETRY
  /\ \/ /\ cLink
        /\ SendToServer(<<ControlSeg("SYN", next_seqNum)>>)
        /\ tries' = tries + 1
        /\ UNCHANGED <<appPc, cRet>>
     \/ /\ ~cLink
        /\ appPc' = "idle" /\ cRet' = "failed" /\ tries' = 0
        /\ UNCHANGED c2s
  /\ UNCHANGED <<cState, s2c, bufVars, left, connects, handVars,
                 cLink, histVars>>

(* The loop is left: 1 if the seghandler made the state CONNECTED, else the *)
(* state becomes CLOSED and the call returns -1.                            *)
ConnectReturn ==
  /\ appPc = "connect"
  /\ cState # "SYNSENT" \/ tries = SYN_MAX_RETRY
  /\ appPc' = "idle" /\ tries' = 0
  /\ \/ cState = "CONNECTED" /\ cRet' = "connected" /\ UNCHANGED cState
     \/ cState # "CONNECTED" /\ cRet' = "failed" /\ cState' = "CLOSED"
  /\ UNCHANGED <<netVars, bufVars, left, connects, handVars,
                 cLink, histVars>>

----------------------------------------------------------------------------
(* srt_client_send *)

(* The call: only in CONNECTED.  numOfSegments, the number of turns of the  *)
(* loop, is the number of segments needed for the bytes left.               *)
Send(length) ==
  /\ appPc = "idle" /\ cState = "CONNECTED"
  /\ offered + length <= MaxBytes
  /\ appPc' = "send"
  /\ left' = length
  /\ offered' = offered + length
  /\ UNCHANGED <<cState, netVars, bufVars, tries, connects, cRet, handVars,
                 cLink, queued, connStart, acked>>

(* Every segment is full but the last, whose length is dataRemainder, the   *)
(* remainder of the length modulo MAX_SEG_LEN: none of the bytes left when  *)
(* they just fill a segment.                                                *)
LengthOfNext ==
  IF left > MAX_SEG_LEN THEN MAX_SEG_LEN
  ELSE IF left = MAX_SEG_LEN THEN 0 ELSE left

(* One turn of the loop that builds and appends the segBufs.  Appending to  *)
(* an empty buffer starts a timer thread.  sendBufunSent, when NULL, is set *)
(* to the new segBuf: unSent = Len(sendBuf) says just that.                 *)
Enqueue ==
  /\ appPc = "send" /\ left > 0
  /\ bufMutex = "free"
  /\ sendBuf = <<>> => timers < MaxTimers
  /\ sendBuf' = Append(sendBuf, DataSeg(next_seqNum, queued, LengthOfNext))
  /\ unSent' = IF sendBuf = <<>> THEN 0 ELSE unSent
  /\ timers' = IF sendBuf = <<>> THEN timers + 1 ELSE timers
  /\ next_seqNum' = SeqAdd(next_seqNum, LengthOfNext)
  /\ queued' = queued + LengthOfNext
  /\ left' = IF left > MAX_SEG_LEN THEN left - MAX_SEG_LEN ELSE 0
  /\ UNCHANGED <<cState, netVars, unAck_segNum, bufMutex, appPc, tries,
                 connects, cRet, handVars, cLink, offered, connStart, acked>>

----------------------------------------------------------------------------
(* sendMaxSegments *)

(* How many segments the loop sends: while unAck_segNum <= GBN_WINDOW. *)
FlushCount ==
  IF unAck_segNum <= GBN_WINDOW
    THEN MinOf(GBN_WINDOW + 1 - unAck_segNum, Len(sendBuf) - unSent)
    ELSE 0

(* The whole critical section.  When snp_sendseg fails the function returns *)
(* -1 without unlocking bufMutex.                                           *)
Flush ==
  /\ bufMutex = "free"
  /\ \/ /\ cLink \/ FlushCount = 0
        /\ SendToServer(SubSeq(sendBuf, unSent + 1, unSent + FlushCount))
        /\ unAck_segNum' = unAck_segNum + FlushCount
        /\ unSent' = unSent + FlushCount
        /\ UNCHANGED bufMutex
     \/ /\ ~cLink /\ FlushCount > 0
        /\ bufMutex' = "leaked"
        /\ UNCHANGED <<c2s, unAck_segNum, unSent>>
  /\ UNCHANGED <<sendBuf, timers, next_seqNum>>

(* srt_client_send returns 1 whatever sendMaxSegments returned. *)
SendFlush ==
  /\ appPc = "send" /\ left = 0
  /\ Flush
  /\ appPc' = "idle"
  /\ UNCHANGED <<cState, s2c, tries, left, connects, cRet, handVars,
                 cLink, histVars>>

(* The seghandler closes the connection inside that critical section: n     *)
(* segments are sent and counted, the next one fails.                       *)
SendFlushCut ==
  /\ appPc = "send" /\ left = 0
  /\ bufMutex = "free"
  /\ LinkMayFail /\ hPc = "recv" /\ cLink
  /\ \E n \in 1 .. FlushCount - 1 :
       /\ SendToServer(SubSeq(sendBuf, unSent + 1, unSent + n))
       /\ unAck_segNum' = unAck_segNum + n
  /\ bufMutex' = "leaked"
  /\ cLink' = FALSE /\ hPc' = "exit"
  /\ appPc' = "idle"
  /\ UNCHANGED <<cState, s2c, sendBuf, unSent, timers, next_seqNum, tries, left,
                 connects, cRet, hSeg, histVars>>

----------------------------------------------------------------------------
(* sendBuf_timer *)

(* The head was sent more than DATA_TIMEOUT ago.  The clock of the code is  *)
(* the nanosecond field alone, which restarts every second, so this can be  *)
(* found true at any poll.  The loop resends the first unAck_segNum + 1     *)
(* segments and does not count them.                                        *)
TimerResends == MinOf(unAck_segNum + 1, Len(sendBuf))

TimerFire ==
  /\ timers > 0 /\ cState # "NULL"
  /\ sendBuf # <<>>
  /\ bufMutex = "free"
  /\ IF cLink THEN SendToServer(SubSeq(sendBuf, 1, TimerResends))
              ELSE UNCHANGED c2s
  /\ unSent' = TimerResends
  /\ UNCHANGED <<cState, s2c, sendBuf, unAck_segNum, bufMutex, timers,
                 next_seqNum, appVars, handVars, cLink, histVars>>

(* mutant of TimerExit: the thread looks at the counter, not at the buffer *)
TimerExitOnCount ==
  /\ timers > 0 /\ cState # "NULL"
  /\ unAck_segNum = 0
  /\ timers' = timers - 1
  /\ UNCHANGED <<cState, netVars, sendBuf, unSent, unAck_segNum, bufMutex,
                 next_seqNum, appVars, handVars, cLink, histVars>>

(* A thread that polls an empty buffer terminates. *)
TimerExit ==
  /\ timers > 0 /\ cState # "NULL"
  /\ sendBuf = <<>>
  /\ timers' = timers - 1
  /\ UNCHANGED <<cState, netVars, sendBuf, unSent, unAck_segNum, bufMutex,
                 next_seqNum, appVars, handVars, cLink, histVars>>

----------------------------------------------------------------------------
(* srt_client_disconnect and srt_client_close *)

(* The call: only in CONNECTED.  The send buffer is freed, unAck_segNum and *)
(* next_seqNum are not touched.  If the FIN cannot be sent the call returns *)
(* -1 and the state stays FINWAIT.                                          *)
Disconnect ==
  /\ appPc = "idle" /\ cState = "CONNECTED"
  /\ bufMutex = "free"
  /\ sendBuf' = <<>> /\ unSent' = 0
  /\ cState' = "FINWAIT"
  /\ tries' = 0
  /\ \/ /\ cLink
        /\ SendToServer(<<ControlSeg("FIN", 0)>>)
        /\ appPc' = "disconnect" /\ cRet' = "none"
     \/ /\ ~cLink
        /\ appPc' = "idle" /\ cRet' = "failed"
        /\ UNCHANGED c2s
  /\ UNCHANGED <<s2c, unAck_segNum, bufMutex, timers, next_seqNum, left,
                 connects, handVars, cLink, histVars>>

DisconnectResend ==
  /\ appPc = "disconnect" /\ cState = "FINWAIT" /\ tries < FIN_MAX_RETRY
  /\ \/ /\ cLink
        /\ SendToServer(<<ControlSeg("FIN", 0)>>)
        /\ tries' = tries + 1
        /\ UNCHANGED <<appPc, cRet>>
     \/ /\ ~cLink
        /\ appPc' = "idle" /\ cRet' = "failed" /\ tries' = 0
        /\ UNCHANGED c2s
  /\ UNCHANGED <<cState, s2c, bufVars, left, connects, handVars,
                 cLink, histVars>>

DisconnectReturn ==
  /\ appPc = "disconnect"
  /\ cState # "FINWAIT" \/ tries = FIN_MAX_RETRY
  /\ appPc' = "idle" /\ tries' = 0
  /\ cRet' = IF cState = "CLOSED" THEN "disconnected" ELSE "failed"
  /\ cState' = "CLOSED"
  /\ UNCHANGED <<netVars, bufVars, left, connects, handVars,
                 cLink, histVars>>

(* The TCB and its mutex are freed; no thread is told or waited for. *)
Close ==
  /\ appPc = "idle" /\ cState = "CLOSED"
  /\ cState' = "NULL"
  /\ UNCHANGED <<netVars, bufVars, appVars, handVars, cLink, histVars>>

----------------------------------------------------------------------------
(* seghandler *)

(* The type of segment each state acts upon. *)
ActsOn(state, type) ==
  \/ state = "SYNSENT"   /\ type = "SYNACK"
  \/ state = "CONNECTED" /\ type = "DATAACK"
  \/ state = "FINWAIT"   /\ type = "FINACK"

(* A segment comes in and the state read now selects the branch. *)
HandlerReceive(i) ==
  /\ hPc = "recv" /\ cLink
  /\ ActsOn(cState, s2c[i].type)
  /\ hPc' = "act" /\ hSeg' = s2c[i]
  /\ s2c' = RemoveAt(s2c, i)
  /\ UNCHANGED <<cState, c2s, bufVars, appVars, cLink, histVars>>

(* A segment is lost (seglost, or its checksum is wrong), or the branch the *)
(* state selects does nothing with it.                                      *)
HandlerDiscard(i) ==
  /\ hPc = "recv" /\ cLink
  /\ s2c' = RemoveAt(s2c, i)
  /\ UNCHANGED <<cState, c2s, bufVars, appVars, handVars, cLink, histVars>>

HandlerSynack ==
  /\ hPc = "act" /\ hSeg.type = "SYNACK" /\ cState # "NULL"
  /\ cState' = "CONNECTED"
  /\ hPc' = "recv" /\ hSeg' = NoSeg
  /\ UNCHANGED <<netVars, bufVars, appVars, cLink, histVars>>

(* mutant of Acknowledges: <= for < *)
AcknowledgesThrough(k) ==
  /\ \A i \in 1 .. k : sendBuf[i].seq <= hSeg.seq
  /\ k < Len(sendBuf) => hSeg.seq < sendBuf[k + 1].seq

(* mutant of Acknowledges: the end of a segment must be below *)
AcknowledgesBelow(k) ==
  /\ \A i \in 1 .. k : sendBuf[i].seq + sendBuf[i].len < hSeg.seq
  /\ k < Len(sendBuf) =>
       hSeg.seq <= sendBuf[k + 1].seq + sendBuf[k + 1].len

(* The DATAACK frees the first k segBufs: the loop goes on while the head   *)
(* has a sequence number below the one acknowledged.                        *)
Acknowledges(k) ==
  /\ \A i \in 1 .. k : sendBuf[i].seq < hSeg.seq
  /\ k < Len(sendBuf) => hSeg.seq <= sendBuf[k + 1].seq

BytesOf(seg) == seg.pos + 1 .. seg.pos + seg.len

(* mutant of USub: a signed counter *)
USubSigned(n, k) == n - k

USub(n, k) == IF k <= n THEN n - k ELSE n + UINT_MOD - k

(* The first critical section of the DATAACK branch; the segments still     *)
(* unsent are sent in a second one.                                         *)
HandlerDataack ==
  /\ hPc = "act" /\ hSeg.type = "DATAACK" /\ cState # "NULL"
  /\ bufMutex = "free"
  /\ \E k \in 0 .. Len(sendBuf) :
       /\ Acknowledges(k)
       /\ sendBuf' = SubSeq(sendBuf, k + 1, Len(sendBuf))
       /\ unSent' = unSent - k
       /\ unAck_segNum' = USub(unAck_segNum, k)
       /\ acked' = acked \cup UNION {BytesOf(sendBuf[i]) : i \in 1 .. k}
  /\ hPc' = IF unSent # Len(sendBuf) THEN "flush" ELSE "recv"
  /\ hSeg' = NoSeg
  /\ UNCHANGED <<cState, netVars, bufMutex, timers, next_seqNum, appVars,
                 cLink, offered, queued, connStart>>

HandlerFlush ==
  /\ hPc = "flush" /\ cState # "NULL"
  /\ Flush
  /\ hPc' = "recv" /\ hSeg' = NoSeg
  /\ UNCHANGED <<cState, s2c, appVars, cLink, histVars>>

HandlerFinack ==
  /\ hPc = "act" /\ hSeg.type = "FINACK" /\ cState # "NULL"
  /\ cState' = "CLOSED"
  /\ hPc' = "recv" /\ hSeg' = NoSeg
  /\ UNCHANGED <<netVars, bufVars, appVars, cLink, histVars>>

(* snp_recvseg fails: the handler closes overlay_conn_fd and terminates. *)
HandlerExit ==
  /\ LinkMayFail
  /\ hPc = "recv" /\ cLink
  /\ hPc' = "exit" /\ cLink' = FALSE
  /\ UNCHANGED <<cState, netVars, bufVars, appVars, hSeg, histVars>>

----------------------------------------------------------------------------
AppStep ==
  \/ Connect \/ ConnectResend \/ ConnectReturn
  \/ \E length \in SendLens : Send(length)
  \/ Enqueue \/ SendFlush \/ SendFlushCut
  \/ Disconnect \/ DisconnectResend \/ DisconnectReturn
  \/ Close

HandlerStep ==
  \/ \E i \in Deliverable(s2c) : HandlerReceive(i) \/ HandlerDiscard(i)
  \/ HandlerSynack \/ HandlerDataack \/ HandlerFlush \/ HandlerFinack
  \/ HandlerExit

TimerStep == TimerFire \/ TimerExit

ClientNext == AppStep \/ HandlerStep \/ TimerStep

ClientTypeOK ==
  /\ cState \in ClientStates
  /\ next_seqNum \in 0 .. SEQ_MOD - 1
  /\ sendBuf \in Seq(Segments)
  /\ unSent \in Int
  /\ unAck_segNum \in 0 .. UINT_MOD - 1
  /\ bufMutex \in {"free", "leaked"}
  /\ timers \in 0 .. MaxTimers
  /\ appPc \in {"idle", "connect", "send", "disconnect"}
  /\ tries \in Nat
  /\ left \in Nat
  /\ connects \in 0 .. MaxConnects
  /\ cRet \in {"none", "connected", "disconnected", "failed"}
  /\ hPc \in {"recv", "act", "flush", "exit"}
  /\ hSeg \in Segments
  /\ cLink \in BOOLEAN
  /\ offered \in 0 .. MaxBytes
  /\ queued \in Nat /\ connStart \in Nat
  /\ acked \subseteq Nat \ {0}
=============================================================================
