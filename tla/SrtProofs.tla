----------------------------- MODULE SrtProofs -----------------------------
(***************************************************************************)
(* Machine-checked proofs about Srt, for every value of its constants.     *)
(***************************************************************************)
EXTENDS SrtInv, TLAPS, SequenceTheorems

----------------------------------------------------------------------------
(* Lemmas about the operators of the model. *)

(* Taking the i-th segment out of a channel moves the later ones up. *)
LEMMA RemoveAtProperties ==
  ASSUME NEW S, NEW s \in Seq(S), NEW i \in DOMAIN s
  PROVE  /\ RemoveAt(s, i) \in Seq(S)
         /\ Len(RemoveAt(s, i)) = Len(s) - 1
         /\ \A j \in 1 .. Len(s) - 1 :
              RemoveAt(s, i)[j] = IF j < i THEN s[j] ELSE s[j + 1]
<1> DEFINE a == SubSeq(s, 1, i - 1)
           b == SubSeq(s, i + 1, Len(s))
           r == a \o b
<1>1. i \in 1 .. Len(s) /\ Len(s) \in Nat
  OBVIOUS
<1>2. a \in Seq(S) /\ Len(a) = i - 1 /\ \A j \in 1 .. i - 1 : a[j] = s[j]
  BY <1>1
<1>3. /\ b \in Seq(S) /\ Len(b) = Len(s) - i
      /\ \A j \in 1 .. Len(s) - i : b[j] = s[j + i]
  BY <1>1
<1>4. RemoveAt(s, i) = r
  BY DEF RemoveAt
<1> HIDE DEF a, b
<1>5. /\ r \in Seq(S) /\ Len(r) = Len(a) + Len(b)
      /\ \A j \in 1 .. Len(a) + Len(b) :
           r[j] = IF j <= Len(a) THEN a[j] ELSE b[j - Len(a)]
  BY <1>2, <1>3, ConcatProperties
<1>6. ASSUME NEW j \in 1 .. Len(s) - 1
      PROVE  r[j] = IF j < i THEN s[j] ELSE s[j + 1]
  <2>1. CASE j < i
    BY <1>1, <1>2, <1>3, <1>5, <2>1, SMTT(40)
  <2>2. CASE ~(j < i)
    <3>0. Len(a) = i - 1 /\ Len(b) = Len(s) - i
      BY <1>2, <1>3
    <3>4. j \in 1 .. Len(a) + Len(b) /\ ~(j <= Len(a))
      BY <1>1, <2>2, <3>0
    <3>5. r[j] = b[j - Len(a)]
      BY <1>5, <3>4
    <3>1. r[j] = b[j - (i - 1)]
      BY <3>0, <3>5
    <3>2. j - (i - 1) \in 1 .. Len(s) - i /\ (j - (i - 1)) + i = j + 1
      BY <1>1, <2>2
    <3>3. b[j - (i - 1)] = s[(j - (i - 1)) + i]
      BY <1>3, <3>2
    <3> QED
      BY <2>2, <3>1, <3>2, <3>3
  <2> QED
    BY <2>1, <2>2
<1>7. Len(a) + Len(b) = Len(s) - 1
  BY <1>1, <1>2, <1>3
<1>8. r \in Seq(S) /\ Len(r) = Len(s) - 1
  BY <1>5, <1>7
<1>9. \A j \in 1 .. Len(s) - 1 : r[j] = IF j < i THEN s[j] ELSE s[j + 1]
  BY <1>6
<1> HIDE DEF r
<1> QED
  BY <1>4, <1>8, <1>9

(* What was in a channel stays where it is, and what is put in comes after. *)
LEMMA TransmitProperties ==
  ASSUME NEW S, NEW ch \in Seq(S), NEW segs \in Seq(S)
  PROVE  /\ Transmit(ch, segs) \in Seq(S)
         /\ Len(Transmit(ch, segs)) <= Len(ch) + Len(segs)
         /\ \A i \in DOMAIN Transmit(ch, segs) :
              /\ i <= Len(ch) => Transmit(ch, segs)[i] = ch[i]
              /\ Len(ch) < i => /\ i - Len(ch) \in DOMAIN segs
                                /\ Transmit(ch, segs)[i] = segs[i - Len(ch)]
<1> DEFINE all == ch \o segs
<1>1. /\ all \in Seq(S) /\ Len(all) = Len(ch) + Len(segs)
      /\ \A i \in 1 .. Len(all) :
           all[i] = IF i <= Len(ch) THEN ch[i] ELSE segs[i - Len(ch)]
  BY ConcatProperties
<1> HIDE DEF all
<1>2. NetCap \in Nat
  BY ConstantsAssumption
<1>3. CASE Len(all) <= NetCap
  <2>1. Transmit(ch, segs) = all
    BY <1>3 DEF Transmit, all
  <2> QED
    BY <2>1, <1>1
<1>4. CASE ~(Len(all) <= NetCap)
  <2> DEFINE cut == SubSeq(all, 1, NetCap)
  <2>1. Transmit(ch, segs) = cut
    BY <1>4 DEF Transmit, all
  <2>2. /\ cut \in Seq(S) /\ Len(cut) = NetCap
        /\ \A i \in 1 .. NetCap : cut[i] = all[i]
    BY <1>1, <1>2, <1>4
  <2> QED
    BY <2>1, <2>2, <1>1, <1>4
<1> QED
  BY <1>3, <1>4

(* The payload of a segment is a sequence of byte numbers. *)
LEMMA PayloadProperties ==
  ASSUME NEW seg \in Segments
  PROVE  /\ Payload(seg) \in Seq(Nat)
         /\ Len(Payload(seg)) = seg.len
         /\ \A i \in 1 .. seg.len : Payload(seg)[i] = seg.pos + i
<1>1. seg.len \in Nat /\ seg.pos \in Nat
  BY DEF Segments
<1> QED
  BY <1>1 DEF Payload

(* SYN, FIN and the answers to them are segments. *)
LEMMA ControlSegType ==
  ASSUME NEW type \in SegTypes, NEW n \in Nat
  PROVE  ControlSeg(type, n) \in Segments
BY DEF ControlSeg, Segments

(* Sequence numbers are natural numbers. *)
LEMMA SeqAddType ==
  ASSUME NEW seq \in Nat, NEW len \in Nat
  PROVE  SeqAdd(seq, len) \in Nat
BY ConstantsAssumption DEF SeqAdd

(* How much sendMaxSegments sends. *)
LEMMA FlushCountProperties ==
  ASSUME TypeOK, WindowInv
  PROVE  /\ FlushCount \in 0 .. Len(sendBuf) - unSent
         /\ unAck_segNum + FlushCount \in 0 .. UINT_MOD - 1
         /\ SubSeq(sendBuf, unSent + 1, unSent + FlushCount) \in Seq(Segments)
<1>1. /\ sendBuf \in Seq(Segments) /\ unAck_segNum \in 0 .. UINT_MOD - 1
      /\ unSent \in 0 .. Len(sendBuf) /\ Len(sendBuf) \in Nat
  BY DEF TypeOK, ClientTypeOK, WindowInv
<1>2. /\ FlushCount \in 0 .. Len(sendBuf) - unSent
      /\ unAck_segNum + FlushCount \in 0 .. UINT_MOD - 1
  BY <1>1, ConstantsAssumption DEF FlushCount, MinOf
<1>3. SubSeq(sendBuf, unSent + 1, unSent + FlushCount) \in Seq(Segments)
  BY <1>1, <1>2
<1> QED
  BY <1>2, <1>3

(* The same for a critical section of sendMaxSegments that is cut short. *)
LEMMA CutProperties ==
  ASSUME TypeOK, WindowInv, NEW n \in 1 .. FlushCount - 1
  PROVE  /\ n \in 1 .. Len(sendBuf) - unSent
         /\ unAck_segNum + n \in 0 .. UINT_MOD - 1
         /\ SubSeq(sendBuf, unSent + 1, unSent + n) \in Seq(Segments)
<1>1. /\ sendBuf \in Seq(Segments) /\ unAck_segNum \in 0 .. UINT_MOD - 1
      /\ unSent \in 0 .. Len(sendBuf) /\ Len(sendBuf) \in Nat
  BY DEF TypeOK, ClientTypeOK, WindowInv
<1>2. /\ FlushCount \in 0 .. Len(sendBuf) - unSent
      /\ unAck_segNum + FlushCount \in 0 .. UINT_MOD - 1
  BY FlushCountProperties
<1>3. n \in 1 .. Len(sendBuf) - unSent /\ unAck_segNum + n \in 0 .. UINT_MOD - 1
  BY <1>1, <1>2, ConstantsAssumption
<1>4. SubSeq(sendBuf, unSent + 1, unSent + n) \in Seq(Segments)
  BY <1>1, <1>3
<1> QED
  BY <1>3, <1>4

(* The timer resends at most the sent segments, and only those. *)
LEMMA TimerResendsProperties ==
  ASSUME TypeOK
  PROVE  /\ TimerResends \in 0 .. Len(sendBuf)
         /\ TimerResends <= unAck_segNum + 1
         /\ SubSeq(sendBuf, 1, TimerResends) \in Seq(Segments)
<1>1. /\ sendBuf \in Seq(Segments) /\ unAck_segNum \in 0 .. UINT_MOD - 1
      /\ Len(sendBuf) \in Nat
  BY DEF TypeOK, ClientTypeOK
<1>2. TimerResends \in 0 .. Len(sendBuf) /\ TimerResends <= unAck_segNum + 1
  BY <1>1, ConstantsAssumption DEF TimerResends, MinOf
<1> QED
  BY <1>1, <1>2

(* A DATAACK frees sent segments only, so that sendBufunSent stays valid. *)
LEMMA DataackWithinSent ==
  ASSUME TypeOK, WindowInv, AckInv, hPc = "act", hSeg.type = "DATAACK",
         bufMutex = "free", NEW k \in 0 .. Len(sendBuf), Acknowledges(k)
  PROVE  k <= unSent
<1> SUFFICES ASSUME unSent < k
             PROVE  FALSE
  BY DEF WindowInv
<1>1. k \in 1 .. k /\ k \in DOMAIN sendBuf
  BY DEF WindowInv, TypeOK, ClientTypeOK
<1>2. sendBuf[k].seq < hSeg.seq
  BY <1>1 DEF Acknowledges
<1>3. hSeg.seq <= sendBuf[k].seq
  BY <1>1 DEF AckInv, Received, Frontier
<1>4. hSeg \in Segments /\ sendBuf[k] \in Segments
  BY <1>1 DEF TypeOK, ClientTypeOK
<1>5. hSeg.seq \in Nat /\ sendBuf[k].seq \in Nat
  BY <1>4 DEF Segments
<1> QED
  BY <1>2, <1>3, <1>5

----------------------------------------------------------------------------
(* Type correctness. *)

(* The two ends and the two directions of the network are typed apart.  The *)
(* sequence of a segment in a channel is typed because every sender puts a  *)
(* typed segment in.                                                        *)
LEMMA ServerStepType ==
  ASSUME TypeOK, ServerNext, UNCHANGED clientVars
  PROVE  TypeOK'
<1> USE DEF TypeOK, ServerTypeOK, serverVars, callVars, timerVars, shVars,
            netVars
<1>1. ClientTypeOK'
  BY DEF clientVars, ClientTypeOK, bufVars, appVars, handVars, histVars
<1>2. ASSUME NEW seg \in Segments, SendToClient(seg)
      PROVE  s2c' \in Seq(Segments)
  <2>1. <<seg>> \in Seq(Segments)
    OBVIOUS
  <2> QED
    BY <1>2, <2>1, TransmitProperties DEF SendToClient
<1>3. ASSUME NEW i \in Deliverable(c2s), c2s' = RemoveAt(c2s, i)
      PROVE  c2s' \in Seq(Segments) /\ c2s[i] \in Segments
  BY <1>3, RemoveAtProperties DEF Deliverable
<1>4. ControlSeg("SYNACK", 0) \in Segments /\ ControlSeg("FINACK", 0) \in Segments
      /\ ControlSeg("SYN", 0) \in Segments
  BY ControlSegType DEF SegTypes
<1>5. CASE Accept
  <2>1. accepts' \in 0 .. MaxAccepts
    BY <1>5, ServerAssumption DEF Accept
  <2> QED
    BY <1>1, <1>5, <2>1 DEF Accept, ServerStates
<1>6. CASE AcceptReturn
  BY <1>1, <1>6 DEF AcceptReturn, ServerStates
<1>7. ASSUME NEW length \in RecvLens, Recv(length)
      PROVE  TypeOK'
  BY <1>1, <1>7, ServerAssumption DEF Recv
<1>8. CASE RecvReturn
  <2>1. /\ SubSeq(recvBuf, 1, recvLen) \in Seq(Nat)
        /\ SubSeq(recvBuf, recvLen + 1, Len(recvBuf)) \in Seq(Nat)
    BY <1>8, SMTT(40) DEF RecvReturn
  <2>2. delivered \o SubSeq(recvBuf, 1, recvLen) \in Seq(Nat)
    BY <2>1, ConcatProperties
  <2> QED
    BY <1>1, <1>8, <2>1, <2>2 DEF RecvReturn
<1>9. CASE ServerClose
  BY <1>1, <1>9 DEF ServerClose, ServerStates
<1>10. ASSUME NEW i \in Deliverable(c2s), Switch(i)
       PROVE  TypeOK'
  BY <1>1, <1>3, <1>10 DEF Switch, Arrives, Segments
<1>11. CASE SynListening
  <2>1. s2c' \in Seq(Segments)
    BY <1>2, <1>4, <1>11 DEF SynListening
  <2>2. sSeg.seq \in Nat
    BY DEF Segments
  <2> QED
    BY <1>1, <1>4, <1>11, <2>1, <2>2 DEF SynListening, Branch, ServerStates
<1>12. ASSUME NEW i \in Deliverable(c2s), SynConnected(i)
       PROVE  TypeOK'
  <2>1. s2c' \in Seq(Segments)
    BY <1>2, <1>4, <1>12 DEF SynConnected
  <2> QED
    BY <1>1, <1>3, <1>12, <2>1 DEF SynConnected, Arrives
<1>13. CASE FinConnected
  <2>1. s2c' \in Seq(Segments)
    BY <1>2, <1>4, <1>13 DEF FinConnected
  <2> QED
    BY <1>1, <1>4, <1>13, <2>1 DEF FinConnected, Branch, ServerStates
<1>14. ASSUME NEW i \in Deliverable(c2s), FinClosewait(i)
       PROVE  TypeOK'
  <2>1. s2c' \in Seq(Segments)
    BY <1>2, <1>4, <1>14 DEF FinClosewait
  <2> QED
    BY <1>1, <1>3, <1>14, <2>1 DEF FinClosewait, Arrives
<1>15. ASSUME NEW i \in Deliverable(c2s), DataConnected(i)
       PROVE  TypeOK'
  <2>1. c2s' \in Seq(Segments) /\ c2s[i] \in Segments
    BY <1>3, <1>15 DEF DataConnected, Arrives
  <2>2. c2s[i].len \in Nat /\ Payload(c2s[i]) \in Seq(Nat)
    BY <2>1, PayloadProperties DEF Segments
  <2>3. recvBuf \o Payload(c2s[i]) \in Seq(Nat)
    BY <2>2, ConcatProperties
  <2>4. SeqAdd(expect_seqNum, c2s[i].len) \in Nat
    BY <2>2, SeqAddType
  <2>5. recvBuf' \in Seq(Nat) /\ expect_seqNum' \in Nat
    BY <1>15, <2>3, <2>4 DEF DataConnected
  <2>6. s2c' \in Seq(Segments)
    <3>1. ControlSeg("DATAACK", expect_seqNum') \in Segments
      BY <2>5, ControlSegType DEF SegTypes
    <3> QED
      BY <1>2, <1>15, <3>1 DEF DataConnected
  <2> QED
    BY <1>1, <1>15, <2>1, <2>5, <2>6 DEF DataConnected
<1>16. ASSUME NEW i \in Deliverable(c2s), ServerDiscard(i)
       PROVE  TypeOK'
  BY <1>1, <1>3, <1>16 DEF ServerDiscard
<1>17. CASE ServerHandlerExit
  BY <1>1, <1>17 DEF ServerHandlerExit
<1>18. CASE CloseWaitExpire
  BY <1>1, <1>18 DEF CloseWaitExpire
<1>19. CASE CloseWaitWrite
  BY <1>1, <1>19 DEF CloseWaitWrite, ServerStates
<1>20. CASE CloseWaitExit
  BY <1>1, <1>20 DEF CloseWaitExit
<1> QED
  BY <1>5, <1>6, <1>7, <1>8, <1>9, <1>10, <1>11, <1>12, <1>13, <1>14, <1>15,
     <1>16, <1>17, <1>18, <1>19, <1>20
     DEF ServerNext, ServerAppStep, ServerHandlerStep, CloseWaitStep

(* Every step of the client keeps the types. *)
LEMMA ClientStepType ==
  ASSUME TypeOK, WindowInv, AckInv, ClientNext, UNCHANGED serverVars
  PROVE  TypeOK'
<1> USE DEF TypeOK, ClientTypeOK, netVars, bufVars, appVars, handVars, histVars
<1>1. ServerTypeOK'
  BY DEF serverVars, ServerTypeOK
<1>2. ASSUME NEW segs \in Seq(Segments), SendToServer(segs)
      PROVE  c2s' \in Seq(Segments)
  BY <1>2, TransmitProperties DEF SendToServer
<1>3. ASSUME NEW i \in Deliverable(s2c), s2c' = RemoveAt(s2c, i)
      PROVE  s2c' \in Seq(Segments) /\ s2c[i] \in Segments
  BY <1>3, RemoveAtProperties DEF Deliverable
<1>4. NoSeg \in Segments
  BY ControlSegType DEF NoSeg, SegTypes
<1>5. <<ControlSeg("SYN", next_seqNum)>> \in Seq(Segments)
  <2>1. ControlSeg("SYN", next_seqNum) \in Segments
    BY ConstantsAssumption, ControlSegType DEF SegTypes
  <2> QED
    BY <2>1
<1>6. <<ControlSeg("FIN", 0)>> \in Seq(Segments)
  <2>1. ControlSeg("FIN", 0) \in Segments
    BY ControlSegType DEF SegTypes
  <2> QED
    BY <2>1
<1>7. CASE Connect
  <2>1. c2s' \in Seq(Segments)
    BY <1>2, <1>5, <1>7 DEF Connect
  <2>2. connects' \in 0 .. MaxConnects
    BY <1>7, ClientAssumption DEF Connect
  <2> QED
    BY <1>1, <1>7, <2>1, <2>2 DEF Connect, ClientStates
<1>8. CASE ConnectResend
  <2>1. c2s' \in Seq(Segments)
    BY <1>2, <1>5, <1>8 DEF ConnectResend
  <2> QED
    BY <1>1, <1>8, <2>1 DEF ConnectResend
<1>9. CASE ConnectReturn
  BY <1>1, <1>9 DEF ConnectReturn, ClientStates
<1>10. ASSUME NEW length \in SendLens, Send(length)
       PROVE  TypeOK'
  <2>1. length \in Nat /\ offered' \in 0 .. MaxBytes
    BY <1>10, ClientAssumption DEF Send
  <2> QED
    BY <1>1, <1>10, <2>1 DEF Send
<1>11. CASE Enqueue
  <2>1. LengthOfNext \in 0 .. MAX_SEG_LEN /\ left' \in Nat
    BY <1>11, ConstantsAssumption DEF Enqueue, LengthOfNext
  <2>2. next_seqNum' \in 0 .. SEQ_MOD - 1
    BY <1>11, <2>1, ConstantsAssumption DEF Enqueue, SeqAdd
  <2>3. DataSeg(next_seqNum, queued, LengthOfNext) \in Segments
    BY <2>1, ConstantsAssumption DEF DataSeg, Segments, SegTypes
  <2>4. sendBuf' \in Seq(Segments)
    BY <1>11, <2>3, AppendProperties DEF Enqueue
  <2>5. timers' \in 0 .. MaxTimers
    BY <1>11, ClientAssumption DEF Enqueue
  <2>6. queued' \in Nat
    BY <1>11, <2>1, ConstantsAssumption DEF Enqueue
  <2> QED
    BY <1>1, <1>11, <2>1, <2>2, <2>4, <2>5, <2>6 DEF Enqueue
<1>12. ASSUME Flush
       PROVE  /\ c2s' \in Seq(Segments)
              /\ unAck_segNum' \in 0 .. UINT_MOD - 1 /\ unSent' \in Int
              /\ bufMutex' \in {"free", "leaked"}
              /\ UNCHANGED <<sendBuf, timers, next_seqNum>>
  <2>1. FlushCount \in Int
    BY FlushCountProperties
  <2>2. c2s' \in Seq(Segments)
    BY <1>2, <1>12, FlushCountProperties DEF Flush
  <2> QED
    BY <1>12, <2>1, <2>2, FlushCountProperties, SMTT(40) DEF Flush
<1>13. CASE SendFlush
  BY <1>1, <1>12, <1>13 DEF SendFlush
<1>27. CASE SendFlushCut
  <2>1. PICK n \in 1 .. FlushCount - 1 :
          /\ SendToServer(SubSeq(sendBuf, unSent + 1, unSent + n))
          /\ unAck_segNum' = unAck_segNum + n
    BY <1>27 DEF SendFlushCut
  <2>2. /\ SubSeq(sendBuf, unSent + 1, unSent + n) \in Seq(Segments)
        /\ unAck_segNum' \in 0 .. UINT_MOD - 1
    BY <2>1, CutProperties
  <2>3. c2s' \in Seq(Segments)
    BY <1>2, <2>1, <2>2
  <2> QED
    BY <1>1, <1>27, <2>2, <2>3 DEF SendFlushCut
<1>14. CASE TimerFire
  <2>1. c2s' \in Seq(Segments)
    BY <1>2, <1>14, TimerResendsProperties DEF TimerFire
  <2>2. unSent' \in Int
    BY <1>14, TimerResendsProperties DEF TimerFire
  <2> QED
    BY <1>1, <1>14, <2>1, <2>2 DEF TimerFire
<1>15. CASE TimerExit
  <2>1. timers' \in 0 .. MaxTimers
    BY <1>15, ClientAssumption DEF TimerExit
  <2> QED
    BY <1>1, <1>15, <2>1 DEF TimerExit
<1>16. CASE Disconnect
  <2>1. c2s' \in Seq(Segments)
    BY <1>2, <1>6, <1>16 DEF Disconnect
  <2> QED
    BY <1>1, <1>16, <2>1 DEF Disconnect, ClientStates
<1>17. CASE DisconnectResend
  <2>1. c2s' \in Seq(Segments)
    BY <1>2, <1>6, <1>17 DEF DisconnectResend
  <2> QED
    BY <1>1, <1>17, <2>1 DEF DisconnectResend
<1>18. CASE DisconnectReturn
  BY <1>1, <1>18 DEF DisconnectReturn, ClientStates
<1>19. CASE Close
  BY <1>1, <1>19 DEF Close, ClientStates
<1>20. ASSUME NEW i \in Deliverable(s2c), HandlerReceive(i)
       PROVE  TypeOK'
  BY <1>1, <1>3, <1>20 DEF HandlerReceive
<1>21. ASSUME NEW i \in Deliverable(s2c), HandlerDiscard(i)
       PROVE  TypeOK'
  BY <1>1, <1>3, <1>21 DEF HandlerDiscard
<1>22. CASE HandlerSynack
  BY <1>1, <1>4, <1>22 DEF HandlerSynack, ClientStates
<1>23. CASE HandlerDataack
  <2>1. PICK k \in 0 .. Len(sendBuf) :
          /\ sendBuf' = SubSeq(sendBuf, k + 1, Len(sendBuf))
          /\ unSent' = unSent - k
          /\ unAck_segNum' = USub(unAck_segNum, k)
          /\ acked' = acked \cup UNION {BytesOf(sendBuf[i]) : i \in 1 .. k}
          /\ Acknowledges(k)
    BY <1>23 DEF HandlerDataack
  <2>5. k <= unSent
    BY <1>23, <2>1, DataackWithinSent DEF HandlerDataack
  <2>2. sendBuf' \in Seq(Segments)
    BY <2>1
  <2>3. unAck_segNum' \in 0 .. UINT_MOD - 1
    BY <2>1, <2>5, ConstantsAssumption DEF USub, WindowInv
  <2>4. acked' \subseteq Nat \ {0}
    <3>1. ASSUME NEW i \in 1 .. k
          PROVE  BytesOf(sendBuf[i]) \subseteq Nat \ {0}
      <4>1. sendBuf[i] \in Segments
        BY <2>1
      <4>2. sendBuf[i].pos \in Nat /\ sendBuf[i].len \in Nat
        BY <4>1 DEF Segments
      <4> QED
        BY <4>2, SMTT(40) DEF BytesOf
    <3> QED
      BY <2>1, <3>1, ZenonT(40)
  <2> QED
    BY <1>1, <1>4, <1>23, <2>1, <2>2, <2>3, <2>4, SMTT(40) DEF HandlerDataack
<1>24. CASE HandlerFlush
  BY <1>1, <1>4, <1>12, <1>24 DEF HandlerFlush
<1>25. CASE HandlerFinack
  BY <1>1, <1>4, <1>25 DEF HandlerFinack, ClientStates
<1>26. CASE HandlerExit
  BY <1>1, <1>26 DEF HandlerExit
<1> QED
  BY <1>7, <1>8, <1>9, <1>10, <1>11, <1>13, <1>14, <1>15, <1>16, <1>17, <1>18,
     <1>19, <1>20, <1>21, <1>22, <1>23, <1>24, <1>25, <1>26, <1>27
     DEF ClientNext, AppStep, HandlerStep, TimerStep

----------------------------------------------------------------------------
(* The phases of a connection, as the threads of the client see them. *)

(* A client out of the connection has nothing buffered. *)
LEMMA PhaseStep ==
  ASSUME TypeOK, PhaseInv, ClientNext, UNCHANGED serverVars
  PROVE  PhaseInv'
<1> USE DEF serverVars, PhaseInv, bufVars, appVars, handVars, NoSeg, ControlSeg
<1>1. CASE Connect
  BY <1>1 DEF Connect
<1>2. CASE ConnectResend
  BY <1>2 DEF ConnectResend
<1>3. CASE ConnectReturn
  BY <1>3 DEF ConnectReturn
<1>4. ASSUME NEW length \in SendLens, Send(length)
      PROVE  PhaseInv'
  BY <1>4 DEF Send
<1>5. CASE Enqueue
  BY <1>5 DEF Enqueue
<1>6. CASE SendFlush
  BY <1>6 DEF SendFlush, Flush
<1>20. CASE SendFlushCut
  BY <1>20 DEF SendFlushCut
<1>7. CASE TimerFire
  BY <1>7 DEF TimerFire
<1>8. CASE TimerExit
  BY <1>8 DEF TimerExit
<1>9. CASE Disconnect
  BY <1>9 DEF Disconnect
<1>10. CASE DisconnectResend
  BY <1>10 DEF DisconnectResend
<1>11. CASE DisconnectReturn
  BY <1>11 DEF DisconnectReturn
<1>12. CASE Close
  BY <1>12 DEF Close
<1>13. ASSUME NEW i \in Deliverable(s2c), HandlerReceive(i)
       PROVE  PhaseInv'
  BY <1>13 DEF HandlerReceive, ActsOn
<1>14. ASSUME NEW i \in Deliverable(s2c), HandlerDiscard(i)
       PROVE  PhaseInv'
  BY <1>14 DEF HandlerDiscard
<1>15. CASE HandlerSynack
  BY <1>15 DEF HandlerSynack
<1>16. CASE HandlerDataack
  <2>1. cState # "CONNECTED" => sendBuf' = <<>>
    <3>1. ASSUME cState # "CONNECTED"
          PROVE  sendBuf' = <<>>
      <4>1. sendBuf = <<>>
        BY <3>1
      <4> QED
        BY <1>16, <4>1 DEF HandlerDataack
    <3> QED
      BY <3>1
  <2> QED
    BY <1>16, <2>1 DEF HandlerDataack
<1>17. CASE HandlerFlush
  BY <1>17 DEF HandlerFlush, Flush
<1>18. CASE HandlerFinack
  BY <1>18 DEF HandlerFinack
<1>19. CASE HandlerExit
  BY <1>19 DEF HandlerExit
<1> QED
  BY <1>1, <1>2, <1>3, <1>4, <1>5, <1>6, <1>7, <1>8, <1>9, <1>10, <1>11, <1>12,
     <1>13, <1>14, <1>15, <1>16, <1>17, <1>18, <1>19, <1>20
     DEF ClientNext, AppStep, HandlerStep, TimerStep

----------------------------------------------------------------------------
(* The send buffer and the window. *)

(* What is left of the buffer when its first k segments are freed. *)
LEMMA DropProperties ==
  ASSUME TypeOK, NEW k \in 0 .. Len(sendBuf),
         sendBuf' = SubSeq(sendBuf, k + 1, Len(sendBuf))
  PROVE  /\ Len(sendBuf') = Len(sendBuf) - k
         /\ \A i \in DOMAIN sendBuf' :
              i + k \in DOMAIN sendBuf /\ sendBuf'[i] = sendBuf[i + k]
<1>1. sendBuf \in Seq(Segments)
  BY DEF TypeOK, ClientTypeOK
<1> QED
  BY <1>1

(* The segments of the buffer have natural sequence numbers and lengths. *)
LEMMA BufferSegType ==
  ASSUME TypeOK, NEW i \in DOMAIN sendBuf
  PROVE  /\ sendBuf[i] \in Segments
         /\ sendBuf[i].seq \in Nat /\ sendBuf[i].len \in Nat
<1>1. sendBuf[i] \in Segments
  BY DEF TypeOK, ClientTypeOK
<1> QED
  BY <1>1 DEF Segments

(* A new segment goes to the end, its number is that of its first byte. *)
LEMMA EnqueueProperties ==
  ASSUME TypeOK, NoWrap, CountersInv, Enqueue
  PROVE  /\ LengthOfNext \in Nat
         /\ CountersInv' /\ queued' = queued + LengthOfNext
         /\ DOMAIN sendBuf' = 1 .. Len(sendBuf) + 1
         /\ \A i \in 1 .. Len(sendBuf) : sendBuf'[i] = sendBuf[i]
         /\ sendBuf'[Len(sendBuf) + 1] = DataSeg(queued, queued, LengthOfNext)
<1>1. /\ left \in Nat /\ queued \in Nat /\ offered \in Nat /\ connStart \in Nat
      /\ offered <= MaxBytes /\ sendBuf \in Seq(Segments) /\ MaxBytes \in Nat
  BY ClientAssumption DEF TypeOK, ClientTypeOK
<1>2. LengthOfNext \in Nat /\ LengthOfNext + left' <= left /\ left' \in Nat
  BY <1>1, ConstantsAssumption DEF Enqueue, LengthOfNext
<1>3. /\ queued' = queued + LengthOfNext /\ offered' = offered
      /\ connStart' = connStart /\ appPc' # "connect"
  BY DEF Enqueue
<1>10. queued + left <= offered /\ connStart <= queued
  BY DEF CountersInv
<1>11. ASSUME NEW n \in Nat, NEW l \in Nat, n + l <= left
       PROVE  /\ (queued + n) + l <= offered /\ queued + n <= MaxBytes
              /\ connStart <= queued + n
  BY <1>1, <1>10, <1>11
<1>4. queued' + left' <= offered' /\ connStart' <= queued'
  BY <1>2, <1>3, <1>11
<1>5. queued + LengthOfNext <= MaxBytes
  BY <1>2, <1>11
<1>6. next_seqNum + LengthOfNext < SEQ_MOD
  BY <1>1, <1>2, <1>5, ConstantsAssumption DEF CountersInv, NoWrap
<1>7. next_seqNum' = queued'
  BY <1>3, <1>6 DEF Enqueue, SeqAdd, CountersInv
<1> DEFINE s == DataSeg(queued, queued, LengthOfNext)
<1>8. sendBuf' = Append(sendBuf, s)
  BY DEF Enqueue, CountersInv
<1>9. /\ DOMAIN Append(sendBuf, s) = 1 .. Len(sendBuf) + 1
      /\ \A i \in 1 .. Len(sendBuf) : Append(sendBuf, s)[i] = sendBuf[i]
      /\ Append(sendBuf, s)[Len(sendBuf) + 1] = s
  BY <1>1
<1> QED
  BY <1>2, <1>3, <1>4, <1>7, <1>8, <1>9 DEF CountersInv

(* unAck_segNum and sendBufunSent stay in step with the buffer. *)
LEMMA CountersStep ==
  ASSUME TypeOK, NoWrap, CountersInv, ClientNext
  PROVE  CountersInv'
<1> USE DEF bufVars, appVars, histVars, CountersInv
<1>1. /\ left \in Nat /\ queued \in Nat /\ connStart \in Nat /\ offered \in Nat
  BY DEF TypeOK, ClientTypeOK
<1>2. CASE Connect
  BY <1>1, <1>2 DEF Connect
<1>3. ASSUME NEW length \in SendLens, Send(length)
      PROVE  CountersInv'
  <2>1. length \in Nat /\ queued <= offered
    BY <1>1, ClientAssumption
  <2>2. /\ left' = length /\ offered' = offered + length /\ appPc' = "send"
        /\ UNCHANGED <<queued, next_seqNum, connStart>>
    BY <1>3 DEF Send
  <2> QED
    BY <1>1, <2>1, <2>2
<1>4. CASE Enqueue
  BY <1>4, EnqueueProperties
<1>5. CASE SendFlush \/ SendFlushCut \/ HandlerFlush
  BY <1>5 DEF SendFlush, SendFlushCut, HandlerFlush, Flush
<1>6. CASE TimerFire \/ TimerExit
  BY <1>6 DEF TimerFire, TimerExit
<1>7. CASE ConnectResend \/ ConnectReturn \/ Close
  BY <1>7 DEF ConnectResend, ConnectReturn, Close
<1>8. CASE Disconnect \/ DisconnectResend \/ DisconnectReturn
  BY <1>8 DEF Disconnect, DisconnectResend, DisconnectReturn
<1>9. ASSUME NEW i \in Deliverable(s2c), HandlerReceive(i) \/ HandlerDiscard(i)
      PROVE  CountersInv'
  BY <1>9 DEF HandlerReceive, HandlerDiscard
<1>10. CASE HandlerSynack \/ HandlerFinack \/ HandlerExit
  BY <1>10 DEF HandlerSynack, HandlerFinack, HandlerExit
<1>11. CASE HandlerDataack
  BY <1>11 DEF HandlerDataack
<1> QED
  BY <1>2, <1>3, <1>4, <1>5, <1>6, <1>7, <1>8, <1>9, <1>10, <1>11
     DEF ClientNext, AppStep, HandlerStep, TimerStep

(* A step of the client that does none of the following leaves the buffer,  *)
(* its unsent part and the start of the connection alone.                   *)
LEMMA BufferSteps ==
  ASSUME ClientNext
  PROVE  \/ UNCHANGED <<sendBuf, unSent, queued, connStart>>
         \/ Connect \/ Enqueue \/ SendFlush \/ HandlerFlush \/ TimerFire
         \/ Disconnect \/ HandlerDataack
<1> USE DEF bufVars, histVars
<1>1. ASSUME NEW length \in SendLens, Send(length)
      PROVE  UNCHANGED <<sendBuf, unSent, queued, connStart>>
  BY <1>1 DEF Send
<1>2. CASE TimerExit \/ ConnectResend \/ ConnectReturn \/ Close
  BY <1>2 DEF TimerExit, ConnectResend, ConnectReturn, Close
<1>3. CASE DisconnectResend \/ DisconnectReturn
  BY <1>3 DEF DisconnectResend, DisconnectReturn
<1>4. ASSUME NEW i \in Deliverable(s2c), HandlerReceive(i) \/ HandlerDiscard(i)
      PROVE  UNCHANGED <<sendBuf, unSent, queued, connStart>>
  BY <1>4 DEF HandlerReceive, HandlerDiscard
<1>5. CASE HandlerSynack \/ HandlerFinack \/ HandlerExit \/ SendFlushCut
  BY <1>5 DEF HandlerSynack, HandlerFinack, HandlerExit, SendFlushCut
<1> QED
  BY <1>1, <1>2, <1>3, <1>4, <1>5
     DEF ClientNext, AppStep, HandlerStep, TimerStep

(* Every step keeps the buffer a contiguous stretch of bytes. *)
LEMMA BufferStep ==
  ASSUME TypeOK, NoWrap, PhaseInv, CountersInv, BufferInv, ClientNext
  PROVE  BufferInv'
<1>0. /\ queued \in Nat /\ connStart \in Nat /\ sendBuf \in Seq(Segments)
  BY DEF TypeOK, ClientTypeOK
<1>1. CASE UNCHANGED <<sendBuf, queued, connStart>>
  BY <1>1 DEF BufferInv
<1>2. CASE Connect \/ Disconnect
  <2>1. sendBuf' = <<>>
    BY <1>2 DEF Connect, PhaseInv, Disconnect, bufVars
  <2> QED
    BY <2>1 DEF BufferInv
<1>3. CASE Enqueue
  <2> DEFINE n == Len(sendBuf)
  <2>1. /\ connStart' = connStart /\ n \in Nat /\ DOMAIN sendBuf = 1 .. n
        /\ queued <= queued'
    BY <1>0, <1>3, EnqueueProperties DEF Enqueue
  <2>2. ASSUME NEW i \in 1 .. n
        PROVE  /\ sendBuf'[i] = sendBuf[i]
               /\ sendBuf[i].seq \in Nat /\ sendBuf[i].len \in Nat
               /\ sendBuf[i].seq + sendBuf[i].len <= queued
    BY <1>3, <2>1, EnqueueProperties, BufferSegType DEF BufferInv
  <2>3. /\ sendBuf'[n + 1].type = "DATA" /\ sendBuf'[n + 1].seq = queued
        /\ sendBuf'[n + 1].pos = queued
        /\ sendBuf'[n + 1].seq + sendBuf'[n + 1].len = queued'
    BY <1>3, EnqueueProperties DEF DataSeg
  <2>4. ASSUME NEW i \in 1 .. n + 1
        PROVE  /\ sendBuf'[i].type = "DATA"
               /\ sendBuf'[i].seq = sendBuf'[i].pos
               /\ connStart' <= sendBuf'[i].seq
               /\ sendBuf'[i].seq + sendBuf'[i].len <= queued'
    <3>1. CASE i \in 1 .. n
      BY <1>0, <1>3, <2>1, <2>2, <3>1, EnqueueProperties, SMTT(40) DEF BufferInv
    <3>2. CASE i = n + 1
      BY <1>0, <1>3, <2>1, <2>3, <3>2, EnqueueProperties DEF CountersInv
    <3> QED
      BY <2>1, <3>1, <3>2
  <2>5. ASSUME NEW i \in 1 .. n + 1, NEW j \in 1 .. n + 1, i < j
        PROVE  sendBuf'[i].seq + sendBuf'[i].len <= sendBuf'[j].seq
    <3>1. i \in 1 .. n
      BY <2>1, <2>5
    <3>2. CASE j \in 1 .. n
      BY <2>1, <2>2, <2>5, <3>1, <3>2 DEF BufferInv
    <3>3. CASE j = n + 1
      BY <2>2, <2>3, <3>1, <3>3
    <3> QED
      BY <2>1, <3>2, <3>3
  <2> QED
    BY <1>3, <2>4, <2>5, EnqueueProperties DEF BufferInv
<1>4. CASE SendFlush \/ HandlerFlush \/ TimerFire
  BY <1>1, <1>4 DEF SendFlush, HandlerFlush, TimerFire, Flush, histVars
<1>5. CASE HandlerDataack
  <2>1. PICK k \in 0 .. Len(sendBuf) :
          sendBuf' = SubSeq(sendBuf, k + 1, Len(sendBuf))
    BY <1>5 DEF HandlerDataack
  <2>2. UNCHANGED <<queued, connStart>>
    BY <1>5 DEF HandlerDataack
  <2>3. \A i \in DOMAIN sendBuf' :
          i + k \in DOMAIN sendBuf /\ sendBuf'[i] = sendBuf[i + k] /\ i \in Nat
    BY <1>0, <2>1, DropProperties
  <2>4. \A i, j \in DOMAIN sendBuf' : i < j => i + k < j + k
    BY <2>3
  <2> QED
    BY <2>2, <2>3, <2>4 DEF BufferInv
<1> QED
  BY <1>1, <1>2, <1>3, <1>4, <1>5, BufferSteps

(* unAck_segNum drifts from the number of sent segments, but never so that  *)
(* the timer would move sendBufunSent back.                                 *)
LEMMA WindowStep ==
  ASSUME TypeOK, NoWrap, PhaseInv, CountersInv, WindowInv, AckInv, ClientNext
  PROVE  WindowInv'
<1>0. /\ sendBuf \in Seq(Segments) /\ unAck_segNum \in Nat /\ Len(sendBuf) \in Nat
      /\ unAck_segNum \in 0 .. UINT_MOD - 1 /\ unSent \in 0 .. Len(sendBuf)
      /\ unSent <= unAck_segNum + 1
  BY ConstantsAssumption DEF TypeOK, ClientTypeOK, WindowInv
<1>1. CASE UNCHANGED <<sendBuf, unSent, unAck_segNum>>
  BY <1>1 DEF WindowInv
<1>2. CASE Disconnect
  <2>1. sendBuf' = <<>> /\ unSent' = 0 /\ unAck_segNum' = unAck_segNum
    BY <1>2 DEF Disconnect
  <2> QED
    BY <1>0, <2>1 DEF WindowInv
<1>3. CASE Enqueue
  <2>1. unAck_segNum' = unAck_segNum /\ unSent' \in {0, unSent}
    BY <1>3 DEF Enqueue
  <2>2. Len(sendBuf') = Len(sendBuf) + 1
    BY <1>0, <1>3 DEF Enqueue
  <2> QED
    BY <1>0, <2>1, <2>2 DEF WindowInv
<1>4. ASSUME Flush
      PROVE  WindowInv'
  BY <1>0, <1>4, FlushCountProperties DEF Flush, WindowInv
<1>13. CASE SendFlushCut
  <2>1. PICK n \in 1 .. FlushCount - 1 : unAck_segNum' = unAck_segNum + n
    BY <1>13 DEF SendFlushCut
  <2>2. n \in Nat
    BY CutProperties
  <2> QED
    BY <1>0, <1>13, <2>1, <2>2 DEF SendFlushCut, WindowInv
<1>5. CASE TimerFire
  BY <1>0, <1>5, TimerResendsProperties DEF TimerFire, WindowInv
<1>6. CASE HandlerDataack
  <2>1. PICK k \in 0 .. Len(sendBuf) :
          /\ Acknowledges(k)
          /\ sendBuf' = SubSeq(sendBuf, k + 1, Len(sendBuf))
          /\ unSent' = unSent - k
          /\ unAck_segNum' = USub(unAck_segNum, k)
    BY <1>6 DEF HandlerDataack
  <2>2. k <= unSent
    BY <1>6, <2>1, DataackWithinSent DEF HandlerDataack
  <2>3. Len(sendBuf') = Len(sendBuf) - k
    BY <2>1, DropProperties
  <2>4. unSent' <= unAck_segNum' + 1
    BY <1>0, <2>1, <2>2, ConstantsAssumption DEF USub
  <2> QED
    BY <1>0, <2>1, <2>2, <2>3, <2>4 DEF WindowInv
<1>7. CASE Connect
  BY <1>1, <1>7 DEF Connect, bufVars
<1>8. ASSUME NEW length \in SendLens, Send(length)
      PROVE  WindowInv'
  BY <1>1, <1>8 DEF Send, bufVars
<1>9. CASE TimerExit \/ ConnectResend \/ ConnectReturn \/ Close
  BY <1>1, <1>9 DEF TimerExit, ConnectResend, ConnectReturn, Close, bufVars
<1>10. CASE DisconnectResend \/ DisconnectReturn
  BY <1>1, <1>10 DEF DisconnectResend, DisconnectReturn, bufVars
<1>11. ASSUME NEW i \in Deliverable(s2c), HandlerReceive(i) \/ HandlerDiscard(i)
      PROVE  WindowInv'
  BY <1>1, <1>11 DEF HandlerReceive, HandlerDiscard, bufVars
<1>12. CASE HandlerSynack \/ HandlerFinack \/ HandlerExit
  BY <1>1, <1>12 DEF HandlerSynack, HandlerFinack, HandlerExit, bufVars
<1> QED
  BY <1>2, <1>3, <1>4, <1>5, <1>6, <1>7, <1>8, <1>9, <1>10, <1>11, <1>12, <1>13
     DEF ClientNext, AppStep, HandlerStep, TimerStep, SendFlush, HandlerFlush

----------------------------------------------------------------------------
(* Frontiers: once a place in the stream is where a sent segment ends, it   *)
(* stays one.                                                               *)

(* With an empty buffer only the next number to use is a frontier. *)
LEMMA EmptyBufferFrontier ==
  ASSUME NEW n \in Nat, sendBuf' = <<>>, n <= queued'
  PROVE  Frontier(n)'
BY DEF Frontier

(* The timer never moves sendBufunSent back over a segment already sent. *)
LEMMA TimerNeverBack ==
  ASSUME TypeOK, WindowInv
  PROVE  unSent <= TimerResends
<1>1. /\ unAck_segNum \in Nat /\ Len(sendBuf) \in Nat
      /\ unSent \in 0 .. Len(sendBuf) /\ unSent <= unAck_segNum + 1
  BY ConstantsAssumption DEF TypeOK, ClientTypeOK, WindowInv
<1> QED
  BY <1>1 DEF TimerResends, MinOf

(* Nothing unlocks bufMutex once a failed sendMaxSegments has returned. *)
LEMMA LeakStays ==
  ASSUME ClientNext, bufMutex' = "free"
  PROVE  bufMutex = "free"
<1> USE DEF bufVars
<1>1. ASSUME NEW length \in SendLens, Send(length)
      PROVE  UNCHANGED bufMutex
  BY <1>1 DEF Send
<1>2. ASSUME NEW i \in Deliverable(s2c), HandlerReceive(i) \/ HandlerDiscard(i)
      PROVE  UNCHANGED bufMutex
  BY <1>2 DEF HandlerReceive, HandlerDiscard
<1>3. CASE Connect \/ ConnectResend \/ ConnectReturn \/ Enqueue \/ SendFlush
  BY <1>3 DEF Connect, ConnectResend, ConnectReturn, Enqueue, SendFlush, Flush
<1>4. CASE SendFlushCut \/ DisconnectResend \/ DisconnectReturn \/ Close
  BY <1>4 DEF SendFlushCut, DisconnectResend, DisconnectReturn, Close
<1>5. CASE HandlerSynack \/ HandlerDataack \/ HandlerFlush \/ HandlerFinack
  BY <1>5 DEF HandlerSynack, HandlerDataack, HandlerFlush, HandlerFinack, Flush
<1>6. CASE Disconnect \/ HandlerExit \/ TimerFire \/ TimerExit
  BY <1>6 DEF Disconnect, HandlerExit, TimerFire, TimerExit
<1> QED
  BY <1>1, <1>2, <1>3, <1>4, <1>5, <1>6
     DEF ClientNext, AppStep, HandlerStep, TimerStep

(* A frontier stays one in every step of the same connection. *)
LEMMA FrontierStep ==
  ASSUME TypeOK, NoWrap, PhaseInv, CountersInv, BufferInv, WindowInv, AckInv,
         ClientNext, NEW n \in Nat, Frontier(n)
  PROVE  Frontier(n)'
<1>0. /\ sendBuf \in Seq(Segments) /\ queued \in Nat /\ unSent \in 0 .. Len(sendBuf)
      /\ Len(sendBuf) \in Nat /\ n <= queued
  BY DEF TypeOK, ClientTypeOK, WindowInv, Frontier
<1>1. CASE UNCHANGED <<sendBuf, unSent, queued, connStart>>
  BY <1>1, LeakStays DEF Frontier
<1>2. CASE Connect \/ Disconnect
  <2>1. sendBuf' = <<>> /\ queued' = queued
    BY <1>2 DEF Connect, PhaseInv, Disconnect, bufVars, histVars
  <2> QED
    BY <1>0, <2>1, EmptyBufferFrontier
<1>3. CASE Enqueue
  <2> DEFINE m == Len(sendBuf)
  <2>1. /\ DOMAIN sendBuf = 1 .. m /\ DOMAIN sendBuf' = 1 .. m + 1 /\ m \in Nat
        /\ \A i \in 1 .. m : sendBuf'[i] = sendBuf[i]
        /\ sendBuf'[m + 1].seq = queued
        /\ n <= queued'
    BY <1>0, <1>3, EnqueueProperties DEF DataSeg
  <2>2. sendBuf # <<>> => unSent' = unSent
    BY <1>3 DEF Enqueue
  <2>3. ASSUME NEW i \in 1 .. m + 1
        PROVE  /\ n <= sendBuf'[i].seq \/ sendBuf'[i].seq + sendBuf'[i].len <= n
               /\ unSent' < i /\ bufMutex' = "free" => n <= sendBuf'[i].seq
    <3>1. CASE i \in 1 .. m
      <4>1. sendBuf # <<>>
        BY <3>1
      <4> QED
        BY <2>1, <2>2, <3>1, <4>1, LeakStays DEF Frontier
    <3>2. CASE i = m + 1
      BY <1>0, <2>1, <3>2
    <3> QED
      BY <2>1, <3>1, <3>2
  <2> QED
    BY <2>1, <2>3 DEF Frontier
<1>4. CASE SendFlush \/ HandlerFlush \/ TimerFire
  <2>1. /\ sendBuf' = sendBuf /\ queued' = queued
        /\ unSent' \in Nat /\ unSent <= unSent'
    <3>1. CASE TimerFire
      BY <1>0, <3>1, TimerResendsProperties, TimerNeverBack
         DEF TimerFire, histVars
    <3>2. CASE SendFlush \/ HandlerFlush
      BY <1>0, <3>2, FlushCountProperties
         DEF SendFlush, HandlerFlush, Flush, histVars
    <3> QED
      BY <1>4, <3>1, <3>2
  <2>2. \A i \in DOMAIN sendBuf : unSent' < i => unSent < i
    BY <1>0, <2>1
  <2> QED
    BY <2>1, <2>2, LeakStays DEF Frontier
<1>5. CASE HandlerDataack
  <2>1. PICK k \in 0 .. Len(sendBuf) :
          /\ sendBuf' = SubSeq(sendBuf, k + 1, Len(sendBuf))
          /\ unSent' = unSent - k
    BY <1>5 DEF HandlerDataack
  <2>2. /\ queued' = queued
        /\ \A i \in DOMAIN sendBuf' :
              /\ i + k \in DOMAIN sendBuf /\ sendBuf'[i] = sendBuf[i + k]
              /\ unSent' < i => unSent < i + k
    BY <1>0, <1>5, <2>1, DropProperties, SMTT(40) DEF HandlerDataack
  <2> QED
    BY <2>2, LeakStays DEF Frontier
<1> QED
  BY <1>1, <1>2, <1>3, <1>4, <1>5, BufferSteps

(* Where a segment ends that sendMaxSegments or the timer has now sent is a *)
(* frontier.                                                                *)
LEMMA SentFrontier ==
  ASSUME TypeOK, BufferInv, WindowInv, UNCHANGED <<sendBuf, queued>>, unSent' \in Int,
         NEW j \in DOMAIN sendBuf, j <= unSent' \/ bufMutex' # "free",
         NEW n \in Nat, n = sendBuf[j].seq + sendBuf[j].len
  PROVE  Frontier(n)'
<1>1. /\ sendBuf[j].seq <= n /\ n <= queued
      /\ sendBuf \in Seq(Segments)
  <2>1. sendBuf[j].seq \in Nat /\ sendBuf[j].len \in Nat
    BY BufferSegType
  <2>2. sendBuf[j].seq + sendBuf[j].len <= queued
    BY DEF BufferInv
  <2> QED
    BY <2>1, <2>2, SMTT(40) DEF TypeOK, ClientTypeOK
<1>2. ASSUME NEW i \in DOMAIN sendBuf
      PROVE  /\ n <= sendBuf[i].seq \/ sendBuf[i].seq + sendBuf[i].len <= n
             /\ unSent' < i /\ bufMutex' = "free" => n <= sendBuf[i].seq
  <2>1. i \in Nat /\ j \in Nat /\ sendBuf[i].seq \in Nat /\ sendBuf[i].len \in Nat
    BY <1>1, BufferSegType
  <2>2. CASE i < j
    <3>1. sendBuf[i].seq + sendBuf[i].len <= sendBuf[j].seq
      BY <2>2 DEF BufferInv
    <3>2. sendBuf[j].seq \in Nat
      BY BufferSegType
    <3> QED
      BY <1>1, <2>1, <2>2, <3>1, <3>2
  <2>3. CASE i = j
    BY <1>1, <2>1, <2>3
  <2>4. CASE j < i
    BY <2>4 DEF BufferInv
  <2> QED
    BY <1>1, <2>1, <2>2, <2>3, <2>4
<1> QED
  BY <1>1, <1>2 DEF Frontier

(* A sequence number the current connection starts at or after is one. *)
LEMMA StartFrontier ==
  ASSUME TypeOK, CountersInv, BufferInv, NEW n \in Nat, n <= connStart
  PROVE  Frontier(n)
<1>1. connStart \in Nat /\ queued \in Nat
  BY DEF TypeOK, ClientTypeOK
<1>2. n <= queued
  BY <1>1 DEF CountersInv
<1>3. ASSUME NEW i \in DOMAIN sendBuf
      PROVE  n <= sendBuf[i].seq
  BY <1>1, BufferSegType DEF BufferInv
<1> QED
  BY <1>2, <1>3 DEF Frontier

----------------------------------------------------------------------------
(* What the server has stored. *)

(* What the server stores is a sequence of byte numbers. *)
LEMMA StoredType ==
  ASSUME TypeOK
  PROVE  /\ Stored \in Seq(Nat) /\ delivered \in Seq(Nat) /\ recvBuf \in Seq(Nat)
         /\ DOMAIN Stored = 1 .. Len(Stored)
BY ConcatProperties DEF TypeOK, ServerTypeOK, Stored

(* Byte sequences are closed under concatenation. *)
LEMMA ConcatBytes ==
  \A s, t, u \in Seq(Nat) : (s \o t) \o u = s \o (t \o u)
<1>1. ASSUME NEW s \in Seq(Nat), NEW t \in Seq(Nat), NEW u \in Seq(Nat)
      PROVE  (s \o t) \o u = s \o (t \o u)
  BY ConcatAssociative, SMTT(40)
<1> QED
  BY <1>1

(* Reading moves bytes from the front of the buffer to what was delivered. *)
LEMMA ReadProperties ==
  ASSUME NEW d \in Seq(Nat), NEW r \in Seq(Nat), NEW n \in 0 .. Len(r)
  PROVE  (d \o SubSeq(r, 1, n)) \o SubSeq(r, n + 1, Len(r)) = d \o r
<1>1. Len(r) \in Nat /\ n \in Nat
  OBVIOUS
<1>2. SubSeq(r, 1, n) \in Seq(Nat) /\ SubSeq(r, n + 1, Len(r)) \in Seq(Nat)
  BY <1>1
<1>3. SubSeq(r, 1, n) \o SubSeq(r, n + 1, Len(r)) = SubSeq(r, 1, Len(r))
  <2>1. /\ 1 \in 1 .. Len(r) + 1 /\ n \in 1 - 1 .. Len(r)
        /\ Len(r) \in n .. Len(r)
    BY <1>1
  <2> QED
    BY <2>1, ConcatAdjacentSubSeq
<1>4. SubSeq(r, 1, Len(r)) = r
  BY SubSeqFull
<1> DEFINE a == SubSeq(r, 1, n)
           b == SubSeq(r, n + 1, Len(r))
<1>5. a \in Seq(Nat) /\ b \in Seq(Nat) /\ a \o b = r
  BY <1>2, <1>3, <1>4
<1> HIDE DEF a, b
<1>6. (d \o a) \o b = d \o (a \o b)
  BY <1>5, ConcatBytes, ZenonT(40)
<1> QED
  BY <1>5, <1>6 DEF a, b

(* Storing a segment appends its payload to what is stored. *)
LEMMA StoredData ==
  ASSUME TypeOK, NEW i \in Deliverable(c2s), DataConnected(i), Storable(c2s[i])
  PROVE  Stored' = Stored \o Payload(c2s[i])
<1>1. /\ delivered \in Seq(Nat) /\ recvBuf \in Seq(Nat)
      /\ c2s[i] \in Segments
  BY DEF TypeOK, ServerTypeOK, Deliverable
<1>2. Payload(c2s[i]) \in Seq(Nat)
  BY <1>1, PayloadProperties
<1>3. \A p \in Seq(Nat) :
        delivered \o (recvBuf \o p) = (delivered \o recvBuf) \o p
  BY <1>1, ConcatBytes, Zenon
<1>4. delivered \o (recvBuf \o Payload(c2s[i])) = Stored \o Payload(c2s[i])
  BY <1>2, <1>3 DEF Stored
<1>5. /\ delivered' = delivered
      /\ recvBuf' = recvBuf \o Payload(c2s[i])
  BY DEF DataConnected
<1> QED
  BY <1>4, <1>5 DEF Stored

(* A step of the server adds the payload of a segment to what is stored, or *)
(* closes the TCB, or changes nothing of it.                                *)
LEMMA StoredStep ==
  ASSUME TypeOK, ServerNext
  PROVE  \/ sState' = "NULL"
         \/ Stored' = Stored
         \/ \E i \in Deliverable(c2s) :
              /\ DataConnected(i) /\ Storable(c2s[i])
              /\ Stored' = Stored \o Payload(c2s[i])
<1> USE DEF Stored, serverVars
<1>1. delivered \in Seq(Nat) /\ recvBuf \in Seq(Nat)
  BY DEF TypeOK, ServerTypeOK
<1>2. CASE Accept \/ AcceptReturn
  BY <1>2 DEF Accept, AcceptReturn
<1>3. ASSUME NEW length \in RecvLens, Recv(length)
      PROVE  Stored' = Stored
  BY <1>3 DEF Recv
<1>4. CASE RecvReturn
  <2>1. recvLen \in 0 .. Len(recvBuf)
    BY <1>1, <1>4 DEF RecvReturn, TypeOK, ServerTypeOK
  <2> QED
    BY <1>1, <1>4, <2>1, ReadProperties DEF RecvReturn
<1>5. CASE ServerClose
  BY <1>5 DEF ServerClose
<1>6. ASSUME NEW i \in Deliverable(c2s), DataConnected(i)
      PROVE  \/ Stored' = Stored
             \/ Storable(c2s[i]) /\ Stored' = Stored \o Payload(c2s[i])
  <2>1. CASE Storable(c2s[i])
    BY <1>6, <2>1, StoredData
  <2>2. CASE ~Storable(c2s[i])
    BY <1>6, <2>2 DEF DataConnected
  <2> QED
    BY <2>1, <2>2
<1>7. ASSUME NEW i \in Deliverable(c2s),
             Switch(i) \/ SynConnected(i) \/ FinClosewait(i) \/ ServerDiscard(i)
      PROVE  Stored' = Stored
  BY <1>7 DEF Switch, SynConnected, FinClosewait, ServerDiscard
<1>8. CASE SynListening \/ FinConnected \/ ServerHandlerExit
  BY <1>8 DEF SynListening, FinConnected, ServerHandlerExit
<1>9. CASE CloseWaitExpire \/ CloseWaitWrite \/ CloseWaitExit
  BY <1>9 DEF CloseWaitExpire, CloseWaitWrite, CloseWaitExit
<1> QED
  BY <1>2, <1>3, <1>4, <1>5, <1>6, <1>7, <1>8, <1>9
     DEF ServerNext, ServerAppStep, ServerHandlerStep, CloseWaitStep

(* Bytes are only added at the end. *)
LEMMA StoredAppend ==
  ASSUME TypeOK, NEW seg \in Segments, Stored' = Stored \o Payload(seg)
  PROVE  /\ \A b : IsStored(b) => IsStored(b)'
         /\ \A b \in seg.pos + 1 .. seg.pos + seg.len : IsStored(b)'
<1> DEFINE p == Payload(seg)
           t == Stored \o p
<1>1. /\ Stored \in Seq(Nat) /\ p \in Seq(Nat) /\ Len(p) = seg.len
      /\ \A i \in 1 .. seg.len : p[i] = seg.pos + i
      /\ seg.len \in Nat /\ seg.pos \in Nat /\ Len(Stored) \in Nat
  BY StoredType, PayloadProperties DEF Segments
<1> HIDE DEF p
<1>2. /\ DOMAIN t = 1 .. Len(Stored) + Len(p)
      /\ \A i \in 1 .. Len(Stored) + Len(p) :
           t[i] = IF i <= Len(Stored) THEN Stored[i] ELSE p[i - Len(Stored)]
  <2>1. t \in Seq(Nat) /\ Len(t) = Len(Stored) + Len(p)
    BY <1>1, ConcatProperties
  <2> QED
    BY <1>1, <2>1, ConcatProperties
<1>3. Stored' = t
  BY DEF p
<1> HIDE DEF t
<1>4. ASSUME NEW i \in 1 .. Len(Stored)
      PROVE  i \in DOMAIN t /\ t[i] = Stored[i]
  BY <1>1, <1>2
<1>5. ASSUME NEW b \in seg.pos + 1 .. seg.pos + seg.len
      PROVE  \E i \in DOMAIN t : t[i] = b
  <2> DEFINE k == b - seg.pos
  <2>5. k \in 1 .. seg.len /\ seg.pos + k = b
    BY <1>1
  <2> HIDE DEF k
  <2>1. k \in 1 .. seg.len /\ p[k] = b
    BY <1>1, <2>5
  <2>2. Len(Stored) + k \in DOMAIN t
    BY <1>1, <1>2, <2>1
  <2>3. ~(Len(Stored) + k <= Len(Stored)) /\ (Len(Stored) + k) - Len(Stored) = k
    BY <1>1, <2>1
  <2>4. t[Len(Stored) + k] = p[k]
    BY <1>2, <2>2, <2>3
  <2> QED
    BY <2>1, <2>2, <2>4
<1> QED
  BY <1>3, <1>4, <1>5, StoredType DEF IsStored

(* What is stored stays stored while the TCB exists. *)
LEMMA IsStoredStep ==
  ASSUME TypeOK, Next, sState' # "NULL", NEW b, IsStored(b)
  PROVE  IsStored(b)'
<1>1. CASE UNCHANGED serverVars
  BY <1>1 DEF serverVars, IsStored, Stored
<1>2. CASE ServerNext
  <2>1. CASE Stored' = Stored
    BY <2>1 DEF IsStored
  <2>2. ASSUME NEW i \in Deliverable(c2s), Stored' = Stored \o Payload(c2s[i])
        PROVE  IsStored(b)'
    <3>1. c2s[i] \in Segments
      BY DEF TypeOK, Deliverable
    <3> QED
      BY <2>2, <3>1, StoredAppend
  <2> QED
    BY <1>2, <2>1, <2>2, StoredStep
<1> QED
  BY <1>1, <1>2 DEF Next

(* No call brings a TCB back, and sequence numbers of a connection only grow.*)
LEMMA NullStays ==
  ASSUME PhaseInv, Next, sState = "NULL"
  PROVE  sState' = "NULL"
<1>1. CASE UNCHANGED serverVars
  BY <1>1 DEF serverVars
<1>2. CASE ServerNext
  <2>1. CASE ServerAppStep
    BY <2>1 DEF PhaseInv, ServerAppStep, Accept, AcceptReturn, Recv, RecvReturn,
                ServerClose
  <2>2. CASE CloseWaitStep
    BY <2>2 DEF CloseWaitStep, CloseWaitExpire, CloseWaitWrite, CloseWaitExit
  <2>3. CASE SynListening \/ FinConnected \/ ServerHandlerExit
    BY <2>3 DEF SynListening, FinConnected, ServerHandlerExit, Branch
  <2>4. ASSUME NEW i \in Deliverable(c2s),
               \/ Switch(i) \/ SynConnected(i) \/ FinClosewait(i)
               \/ DataConnected(i) \/ ServerDiscard(i)
        PROVE  sState' = "NULL"
    BY <2>4 DEF Switch, SynConnected, FinClosewait, DataConnected,
                ServerDiscard, serverVars
  <2> QED
    BY <1>2, <2>1, <2>2, <2>3, <2>4 DEF ServerNext, ServerHandlerStep
<1> QED
  BY <1>1, <1>2 DEF Next

(* The start of a connection stays a frontier of its predecessor. *)
LEMMA ConnStartStep ==
  ASSUME TypeOK, CountersInv, ClientNext
  PROVE  connStart' \in {connStart, queued} /\ connStart <= connStart'
<1>1. connStart \in Nat /\ queued \in Nat /\ connStart <= queued
  BY DEF TypeOK, ClientTypeOK, CountersInv
<1>2. connStart' = connStart \/ Connect
  BY BufferSteps DEF Enqueue, SendFlush, HandlerFlush, TimerFire, Disconnect,
     HandlerDataack, histVars
<1> QED
  BY <1>1, <1>2 DEF Connect

(* The server goes on having what it has. *)
LEMMA HasUpToStep ==
  ASSUME TypeOK, PhaseInv, CountersInv, Next,
         NEW n \in Nat, n <= queued, HasUpTo(n)
  PROVE  HasUpTo(n)'
<1> SUFFICES ASSUME sState' # "NULL", NEW b \in connStart' + 1 .. n
             PROVE  IsStored(b)'
  BY DEF HasUpTo
<1>1. connStart \in Nat /\ queued \in Nat
  BY DEF TypeOK, ClientTypeOK
<1>2. sState # "NULL"
  BY NullStays
<1>3. connStart' = connStart
  <2>1. CASE UNCHANGED clientVars
    BY <2>1 DEF clientVars, histVars
  <2>2. CASE ClientNext
    BY <1>1, <2>2, ConnStartStep
  <2> QED
    BY <2>1, <2>2 DEF Next
<1>4. IsStored(b)
  BY <1>2, <1>3 DEF HasUpTo
<1> QED
  BY <1>4, IsStoredStep

----------------------------------------------------------------------------
(* Segments on their way to the server. *)

(* A segment that was fit to travel stays so. *)
LEMMA SegOKStep ==
  ASSUME TypeOK, NoWrap, PhaseInv, CountersInv, BufferInv, WindowInv, AckInv,
         ClientNext, NEW seg \in Segments, ToServerSegOK(seg)
  PROVE  ToServerSegOK(seg)'
<1>1. seg.seq \in Nat /\ seg.len \in Nat /\ seg.seq + seg.len \in Nat
  BY DEF Segments
<1>2. connStart \in Nat /\ connStart' \in Nat /\ connStart <= connStart'
  BY ConnStartStep DEF TypeOK, ClientTypeOK
<1>3. seg.type = "SYN" => seg.seq <= connStart'
  BY <1>1, <1>2 DEF ToServerSegOK
<1>4. ASSUME seg.type = "DATA"
      PROVE  seg.seq = seg.pos /\ Frontier(seg.seq + seg.len)'
  BY <1>1, <1>4, FrontierStep DEF ToServerSegOK
<1> QED
  BY <1>3, <1>4 DEF ToServerSegOK

(* What the client sends is fit to travel: a SYN travels alone and has the  *)
(* number at which the connection starts, a DATA segment ends at a frontier.*)
LEMMA ClientSends ==
  ASSUME TypeOK, NoWrap, CountersInv, BufferInv, WindowInv, ClientNext
  PROVE  \/ UNCHANGED c2s
         \/ \E segs \in Seq(Segments) :
              /\ c2s' = Transmit(c2s, segs)
              /\ \A j \in DOMAIN segs :
                   /\ ToServerSegOK(segs[j])'
                   /\ segs[j].type = "SYN" => j = 1 /\ segs[j].seq = queued
<1> DEFINE Goal == \/ UNCHANGED c2s
                   \/ \E segs \in Seq(Segments) :
                        /\ c2s' = Transmit(c2s, segs)
                        /\ \A j \in DOMAIN segs :
                             /\ ToServerSegOK(segs[j])'
                             /\ segs[j].type = "SYN" =>
                                  j = 1 /\ segs[j].seq = queued
<1>0. /\ sendBuf \in Seq(Segments) /\ unSent \in 0 .. Len(sendBuf)
      /\ Len(sendBuf) \in Nat
  BY DEF TypeOK, ClientTypeOK, WindowInv
<1>1. ASSUME NEW seg \in Segments, SendToServer(<<seg>>), ToServerSegOK(seg)',
             seg.type = "SYN" => seg.seq = queued
      PROVE  Goal
  <2>1. /\ <<seg>> \in Seq(Segments) /\ DOMAIN <<seg>> = {1}
        /\ <<seg>>[1] = seg
    OBVIOUS
  <2>2. \A j \in DOMAIN <<seg>> : ToServerSegOK(<<seg>>[j])'
    BY <1>1, <2>1 DEF ToServerSegOK, Frontier
  <2> QED
    BY <1>1, <2>1, <2>2 DEF SendToServer
<1>2. CASE Connect \/ ConnectResend
  <2>1. PICK seg \in Segments : seg = ControlSeg("SYN", next_seqNum)
    <3>1. next_seqNum \in Nat
      BY ConstantsAssumption DEF TypeOK, ClientTypeOK
    <3> QED
      BY <3>1, ControlSegType DEF SegTypes
  <2>2. connStart' = queued /\ queued \in Nat
    BY <1>2 DEF Connect, ConnectResend, CountersInv, histVars,
                TypeOK, ClientTypeOK
  <2>3. seg.type = "SYN" /\ seg.seq = queued
    BY <2>1 DEF ControlSeg, CountersInv
  <2>4. ToServerSegOK(seg)'
    BY <2>2, <2>3 DEF ToServerSegOK
  <2>5. UNCHANGED c2s \/ SendToServer(<<seg>>)
    BY <1>2, <2>1 DEF Connect, ConnectResend
  <2> QED
    BY <1>1, <2>3, <2>4, <2>5
<1>3. CASE Disconnect \/ DisconnectResend
  <2>1. PICK seg \in Segments : seg = ControlSeg("FIN", 0)
    BY ControlSegType DEF SegTypes
  <2>2. ToServerSegOK(seg)' /\ seg.type # "SYN"
    BY <2>1 DEF ToServerSegOK, ControlSeg
  <2>3. UNCHANGED c2s \/ SendToServer(<<seg>>)
    BY <1>3, <2>1 DEF Disconnect, DisconnectResend
  <2> QED
    BY <1>1, <2>2, <2>3
<1>4. ASSUME NEW m \in 1 .. Len(sendBuf) + 1, NEW n \in m - 1 .. Len(sendBuf),
             SendToServer(SubSeq(sendBuf, m, n)),
             UNCHANGED <<sendBuf, queued>>, unSent' \in Int,
             n <= unSent' \/ bufMutex' # "free"
      PROVE  Goal
  <2>1. SubSeq(sendBuf, m, n) \in Seq(Segments)
    BY <1>0
  <2>2. PICK segs \in Seq(Segments) : segs = SubSeq(sendBuf, m, n)
    BY <2>1
  <2>3. ASSUME NEW j \in DOMAIN segs
        PROVE  ToServerSegOK(segs[j])' /\ segs[j].type # "SYN"
    <3>1. PICK i \in DOMAIN sendBuf : i <= n /\ segs[j] = sendBuf[i]
      <4>1. j + m - 1 \in DOMAIN sendBuf /\ j + m - 1 <= n
        BY <1>0, <2>2
      <4>2. segs[j] = sendBuf[j + m - 1]
        BY <1>0, <2>2
      <4> QED
        BY <4>1, <4>2
    <3>2. PICK e \in Nat : e = sendBuf[i].seq + sendBuf[i].len
      BY BufferSegType
    <3>3. i <= unSent' \/ bufMutex' # "free"
      BY <1>0, <1>4, <3>1
    <3>4. Frontier(e)'
      BY <1>4, <3>2, <3>3, SentFrontier
    <3>5. /\ segs[j].type = "DATA" /\ segs[j].seq = segs[j].pos
          /\ segs[j].seq + segs[j].len = e
      BY <3>1, <3>2 DEF BufferInv
    <3> QED
      BY <3>4, <3>5 DEF ToServerSegOK, Frontier
  <2> QED
    BY <1>4, <2>2, <2>3 DEF SendToServer
<1>5. CASE SendFlush \/ HandlerFlush
  <2>1. /\ Flush /\ UNCHANGED queued
    BY <1>5 DEF SendFlush, HandlerFlush, histVars
  <2>2. FlushCount \in 0 .. Len(sendBuf) - unSent
    BY FlushCountProperties
  <2>3. /\ unSent + 1 \in 1 .. Len(sendBuf) + 1
        /\ unSent + FlushCount \in (unSent + 1) - 1 .. Len(sendBuf)
    BY <1>0, <2>2
  <2>4. CASE UNCHANGED c2s
    BY <2>4
  <2>5. CASE /\ SendToServer(SubSeq(sendBuf, unSent + 1, unSent + FlushCount))
             /\ unSent' = unSent + FlushCount
    <3>1. UNCHANGED sendBuf
      BY <2>1 DEF Flush
    <3>2. unSent' \in Int /\ unSent + FlushCount <= unSent'
      BY <2>3, <2>5
    <3>3. PICK m \in 1 .. Len(sendBuf) + 1 : m = unSent + 1
      BY <2>3
    <3>4. PICK n \in m - 1 .. Len(sendBuf) : n = unSent + FlushCount
      BY <2>3, <3>3
    <3>5. /\ SendToServer(SubSeq(sendBuf, m, n)) /\ n <= unSent'
          /\ UNCHANGED <<sendBuf, queued>> /\ unSent' \in Int
      BY <2>1, <2>5, <3>1, <3>2, <3>3, <3>4 DEF SendToServer
    <3> QED
      BY <1>4, <3>5
  <2> QED
    BY <2>1, <2>4, <2>5 DEF Flush
<1>11. CASE SendFlushCut
  <2>1. PICK c \in 1 .. FlushCount - 1 :
          SendToServer(SubSeq(sendBuf, unSent + 1, unSent + c))
    BY <1>11 DEF SendFlushCut
  <2>2. c \in 1 .. Len(sendBuf) - unSent
    BY CutProperties
  <2>3. PICK m \in 1 .. Len(sendBuf) + 1 : m = unSent + 1
    BY <1>0
  <2>4. PICK n \in m - 1 .. Len(sendBuf) : n = unSent + c
    BY <1>0, <2>2, <2>3
  <2>5. /\ UNCHANGED <<sendBuf, queued>> /\ unSent' \in Int
        /\ bufMutex' # "free"
    BY <1>0, <1>11 DEF SendFlushCut, histVars
  <2>6. SendToServer(SubSeq(sendBuf, m, n))
    BY <2>1, <2>3, <2>4 DEF SendToServer
  <2> QED
    BY <1>4, <2>5, <2>6
<1>6. CASE TimerFire
  <2>1. TimerResends \in 0 .. Len(sendBuf)
    BY TimerResendsProperties
  <2>2. CASE SendToServer(SubSeq(sendBuf, 1, TimerResends))
    <3>1. /\ UNCHANGED <<sendBuf, queued>> /\ unSent' = TimerResends
      BY <1>6 DEF TimerFire, histVars
    <3>2. 1 \in 1 .. Len(sendBuf) + 1 /\ TimerResends \in 1 - 1 .. Len(sendBuf)
      BY <1>0, <2>1
    <3>3. unSent' \in Int /\ TimerResends <= unSent'
      BY <2>1, <3>1
    <3>4. PICK m \in 1 .. Len(sendBuf) + 1 : m = 1
      BY <3>2
    <3>5. PICK n \in m - 1 .. Len(sendBuf) : n = TimerResends
      BY <3>2, <3>4
    <3>6. /\ SendToServer(SubSeq(sendBuf, m, n)) /\ n <= unSent'
          /\ UNCHANGED <<sendBuf, queued>> /\ unSent' \in Int
      BY <2>2, <3>1, <3>3, <3>4, <3>5 DEF SendToServer
    <3> QED
      BY <1>4, <3>6
  <2> QED
    BY <1>6, <2>2 DEF TimerFire
<1>7. ASSUME NEW length \in SendLens, Send(length)
      PROVE  UNCHANGED c2s
  BY <1>7 DEF Send, netVars
<1>8. CASE TimerExit \/ ConnectReturn \/ DisconnectReturn \/ Close \/ Enqueue
  BY <1>8 DEF TimerExit, ConnectReturn, DisconnectReturn, Close, Enqueue, netVars
<1>9. ASSUME NEW i \in Deliverable(s2c), HandlerReceive(i) \/ HandlerDiscard(i)
      PROVE  UNCHANGED c2s
  BY <1>9 DEF HandlerReceive, HandlerDiscard
<1>10. CASE HandlerSynack \/ HandlerFinack \/ HandlerExit \/ HandlerDataack
  BY <1>10 DEF HandlerSynack, HandlerFinack, HandlerExit, HandlerDataack, netVars
<1> QED
  BY <1>2, <1>3, <1>5, <1>6, <1>7, <1>8, <1>9, <1>10, <1>11
     DEF ClientNext, AppStep, HandlerStep, TimerStep

(* A segment that stays in the channel, and one that is added to it. *)
LEMMA ClientToServer ==
  ASSUME TypeOK, NoWrap, PhaseInv, CountersInv, BufferInv, WindowInv, AckInv,
         ToServerInv, ClientNext, UNCHANGED serverVars
  PROVE  ToServerInv'
<1>1. sBranch' = "SYN" => sSeg'.seq <= connStart'
  <2>1. sSeg.seq \in Nat /\ connStart \in Nat /\ connStart' \in Nat
    BY ConnStartStep DEF TypeOK, ClientTypeOK, ServerTypeOK, Segments
  <2> QED
    BY <2>1, ConnStartStep DEF ToServerInv, serverVars
<1>2. ASSUME NEW i \in DOMAIN c2s, NEW seg, seg = c2s[i]
      PROVE  ToServerSegOK(seg)'
  <2>1. seg \in Segments /\ ToServerSegOK(seg)
    BY <1>2 DEF TypeOK, ToServerInv
  <2> QED
    BY <2>1, SegOKStep
<1>3. ASSUME NEW i \in DOMAIN c2s', NEW seg, seg = c2s'[i]
      PROVE  ToServerSegOK(seg)'
  <2>1. CASE UNCHANGED c2s
    BY <1>2, <1>3, <2>1
  <2>2. ASSUME NEW segs \in Seq(Segments), c2s' = Transmit(c2s, segs),
               \A j \in DOMAIN segs : ToServerSegOK(segs[j])'
        PROVE  ToServerSegOK(seg)'
    <3>1. /\ i \in Nat /\ Len(c2s) \in Nat /\ i > 0
          /\ i <= Len(c2s) => seg = c2s[i]
          /\ Len(c2s) < i => i - Len(c2s) \in DOMAIN segs
                             /\ seg = segs[i - Len(c2s)]
      BY <1>3, <2>2, TransmitProperties DEF TypeOK
    <3>2. CASE i <= Len(c2s)
      <4>1. i \in DOMAIN c2s
        BY <3>1, <3>2 DEF TypeOK
      <4> QED
        BY <1>2, <3>1, <3>2, <4>1
    <3>3. CASE Len(c2s) < i
      <4>1. PICK j \in DOMAIN segs : seg = segs[j]
        BY <3>1, <3>3
      <4> QED
        BY <2>2, <4>1 DEF ToServerSegOK, Frontier
    <3> QED
      BY <3>1, <3>2, <3>3
  <2> QED
    BY <2>1, <2>2, ClientSends
<1>4. \A i \in DOMAIN c2s' : ToServerSegOK(c2s[i])'
  BY <1>3 DEF ToServerSegOK, Frontier
<1> QED
  BY <1>1, <1>4 DEF ToServerInv

(* The server puts nothing into its own channel: what is left was there. *)
LEMMA ServerToServer ==
  ASSUME TypeOK, ToServerInv, ServerNext, UNCHANGED clientVars
  PROVE  ToServerInv'
<1> USE DEF clientVars, bufVars, histVars
<1>1. ASSUME NEW i \in DOMAIN c2s', NEW seg, seg = c2s'[i]
      PROVE  ToServerSegOK(seg)
  <2>1. CASE UNCHANGED c2s
    BY <1>1, <2>1 DEF ToServerInv
  <2>2. ASSUME NEW j \in DOMAIN c2s, c2s' = RemoveAt(c2s, j)
        PROVE  ToServerSegOK(seg)
    <3>1. PICK k \in DOMAIN c2s : seg = c2s[k]
      <4>1. i \in 1 .. Len(c2s) - 1 /\ Len(c2s) \in Nat
        BY <1>1, <2>2, RemoveAtProperties DEF TypeOK
      <4>2. seg = IF i < j THEN c2s[i] ELSE c2s[i + 1]
        BY <1>1, <2>2, <4>1, RemoveAtProperties DEF TypeOK
      <4> QED
        BY <4>1, <4>2 DEF TypeOK
    <3> QED
      BY <3>1 DEF ToServerInv
  <2>3. CASE ServerAppStep
    BY <2>1, <2>3 DEF ServerAppStep, Accept, AcceptReturn, Recv, RecvReturn,
                      ServerClose, netVars
  <2>4. CASE CloseWaitStep
    BY <2>1, <2>4 DEF CloseWaitStep, CloseWaitExpire, CloseWaitWrite,
                      CloseWaitExit, netVars
  <2>5. CASE SynListening \/ FinConnected \/ ServerHandlerExit
    BY <2>1, <2>5 DEF SynListening, FinConnected, ServerHandlerExit, netVars
  <2>6. ASSUME NEW j \in Deliverable(c2s),
               \/ Switch(j) \/ SynConnected(j) \/ FinClosewait(j)
               \/ DataConnected(j) \/ ServerDiscard(j)
        PROVE  ToServerSegOK(seg)
    BY <2>2, <2>6 DEF Deliverable, Switch, SynConnected, FinClosewait,
                      DataConnected, ServerDiscard, Arrives
  <2> QED
    BY <2>3, <2>4, <2>5, <2>6 DEF ServerNext, ServerHandlerStep
<1>2. \A i \in DOMAIN c2s' : ToServerSegOK(c2s[i])'
  BY <1>1 DEF ToServerSegOK, Frontier
<1>3. sBranch' = "SYN" => sSeg'.seq <= connStart
  <2> USE DEF ToServerInv
  <2>1. CASE ServerAppStep
    BY <2>1 DEF ServerAppStep, Accept, AcceptReturn, Recv, RecvReturn,
                ServerClose, shVars
  <2>2. CASE CloseWaitStep
    BY <2>2 DEF CloseWaitStep, CloseWaitExpire, CloseWaitWrite,
                CloseWaitExit, shVars
  <2>3. CASE SynListening \/ FinConnected \/ ServerHandlerExit
    BY <2>3 DEF SynListening, FinConnected, ServerHandlerExit, Branch
  <2>4. ASSUME NEW j \in Deliverable(c2s), Switch(j)
        PROVE  sBranch' = "SYN" => sSeg'.seq <= connStart
    BY <2>4 DEF Deliverable, Switch, ToServerSegOK
  <2>5. ASSUME NEW j \in Deliverable(c2s),
               \/ SynConnected(j) \/ FinClosewait(j)
               \/ DataConnected(j) \/ ServerDiscard(j)
        PROVE  sBranch' = "SYN" => sSeg'.seq <= connStart
    BY <2>5 DEF SynConnected, FinClosewait, DataConnected, ServerDiscard,
                serverVars, shVars
  <2> QED
    BY <2>1, <2>2, <2>3, <2>4, <2>5 DEF ServerNext, ServerHandlerStep
<1> QED
  BY <1>2, <1>3 DEF ToServerInv

----------------------------------------------------------------------------
(* What the server has received. *)

(* A place up to which the server has everything stays one. *)
LEMMA ReceivedStep ==
  ASSUME TypeOK, NoWrap, PhaseInv, CountersInv, BufferInv, WindowInv, AckInv,
         Next, NEW n \in Nat, Received(n)
  PROVE  Received(n)'
<1>1. HasUpTo(n)'
  BY HasUpToStep DEF Received, Frontier
<1>2. Frontier(n)'
  <2>1. CASE ClientNext
    BY <2>1, FrontierStep DEF Received
  <2>2. CASE UNCHANGED clientVars
    BY <2>2 DEF clientVars, bufVars, histVars, Received, Frontier
  <2> QED
    BY <2>1, <2>2 DEF Next
<1> QED
  BY <1>1, <1>2 DEF Received

(* The server wants next what comes after all it has received. *)
LEMMA ServerStep ==
  ASSUME TypeOK, NoWrap, PhaseInv, CountersInv, BufferInv, WindowInv, AckInv,
         ToServerInv, ServerInv, Next
  PROVE  ServerInv'
<1>0. expect_seqNum \in Nat /\ connStart \in Nat
  BY DEF TypeOK, ClientTypeOK, ServerTypeOK
<1>1. CASE UNCHANGED expect_seqNum
  <2>1. PICK n \in Nat : n = expect_seqNum
    BY <1>0
  <2>2. Received(n)'
    BY <2>1, ReceivedStep DEF ServerInv
  <2> QED
    BY <1>1, <2>1, <2>2 DEF ServerInv, Received, Frontier, HasUpTo
<1>2. ASSUME SynListening, UNCHANGED clientVars
      PROVE  ServerInv'
  <2>1. PICK n \in Nat : n = sSeg.seq
    BY DEF TypeOK, ServerTypeOK, Segments
  <2>2. n <= connStart /\ expect_seqNum' = n
    BY <1>2, <2>1 DEF SynListening, Branch, ToServerInv
  <2>3. Frontier(n)
    BY <2>2, StartFrontier
  <2>4. Frontier(n)'
    BY <1>2, <2>3 DEF Frontier, clientVars, bufVars, histVars
  <2>5. HasUpTo(n)'
    <3>1. connStart' = connStart
      BY <1>2 DEF clientVars, histVars
    <3>2. connStart + 1 .. n = {}
      BY <1>0, <2>2
    <3> QED
      BY <3>1, <3>2 DEF HasUpTo
  <2> QED
    BY <2>2, <2>4, <2>5 DEF ServerInv, Received, Frontier, HasUpTo
<1>3. ASSUME NEW i \in Deliverable(c2s), DataConnected(i), Storable(c2s[i]),
             UNCHANGED clientVars, Next
      PROVE  ServerInv'
  <2>1. PICK seg \in Segments : seg = c2s[i] /\ ToServerSegOK(seg)
    BY DEF TypeOK, Deliverable, ToServerInv
  <2>2. /\ seg.type = "DATA" /\ seg.seq = expect_seqNum
        /\ seg.len \in Nat /\ seg.pos = expect_seqNum
    BY <1>3, <2>1 DEF DataConnected, Arrives, Storable, ToServerSegOK, Segments
  <2>3. Frontier(expect_seqNum + seg.len)
    BY <2>1, <2>2 DEF ToServerSegOK
  <2>4. expect_seqNum + seg.len < SEQ_MOD
    <3>1. expect_seqNum + seg.len <= queued
      BY <2>3 DEF Frontier
    <3>2. /\ queued \in Nat /\ left \in Nat /\ offered \in Nat
          /\ offered <= MaxBytes /\ queued + left <= offered
      BY ClientAssumption DEF TypeOK, ClientTypeOK, CountersInv
    <3> QED
      BY <1>0, <2>2, <3>1, <3>2, ConstantsAssumption, ClientAssumption DEF NoWrap
  <2>5. PICK n \in Nat : n = expect_seqNum + seg.len
    BY <1>0, <2>2
  <2>6. expect_seqNum' = n
    BY <1>3, <2>1, <2>4, <2>5 DEF DataConnected, SeqAdd
  <2>7. Frontier(n)'
    BY <1>3, <2>3, <2>5 DEF Frontier, clientVars, bufVars, histVars
  <2>8. Stored' = Stored \o Payload(seg)
    BY <1>3, <2>1, StoredData
  <2>9. HasUpTo(n)'
    <3> SUFFICES ASSUME sState' # "NULL", NEW b \in connStart + 1 .. n
                 PROVE  IsStored(b)'
      BY <1>3 DEF HasUpTo, clientVars, histVars
    <3>1. CASE b \in connStart + 1 .. expect_seqNum
      <4>1. sState # "NULL"
        BY NullStays
      <4>2. IsStored(b)
        BY <3>1, <4>1 DEF ServerInv, Received, HasUpTo
      <4> QED
        BY <2>8, <4>2, StoredAppend
    <3>2. CASE b \in seg.pos + 1 .. seg.pos + seg.len
      BY <2>8, <3>2, StoredAppend
    <3> QED
      BY <1>0, <2>2, <2>5, <3>1, <3>2
  <2> QED
    BY <2>6, <2>7, <2>9 DEF ServerInv, Received, Frontier, HasUpTo
<1>4. CASE ServerNext /\ UNCHANGED clientVars
  <2>1. CASE ServerAppStep
    BY <1>1, <2>1 DEF ServerAppStep, Accept, AcceptReturn, Recv, RecvReturn,
                      ServerClose
  <2>2. CASE CloseWaitStep
    BY <1>1, <2>2 DEF CloseWaitStep, CloseWaitExpire, CloseWaitWrite,
                      CloseWaitExit
  <2>3. CASE FinConnected \/ ServerHandlerExit
    BY <1>1, <2>3 DEF FinConnected, ServerHandlerExit
  <2>4. ASSUME NEW i \in Deliverable(c2s),
               \/ Switch(i) \/ SynConnected(i) \/ FinClosewait(i)
               \/ ServerDiscard(i)
        PROVE  ServerInv'
    BY <1>1, <2>4 DEF Switch, SynConnected, FinClosewait, ServerDiscard,
                      serverVars
  <2>5. ASSUME NEW i \in Deliverable(c2s), DataConnected(i)
        PROVE  ServerInv'
    BY <1>1, <1>3, <1>4, <2>5 DEF DataConnected
  <2> QED
    BY <1>2, <1>4, <2>1, <2>2, <2>3, <2>4, <2>5
       DEF ServerNext, ServerHandlerStep
<1>5. CASE ClientNext /\ UNCHANGED serverVars
  BY <1>1, <1>5 DEF serverVars
<1> QED
  BY <1>4, <1>5 DEF Next

----------------------------------------------------------------------------
(* Acknowledgements. *)

(* What happens to a segment on its way to the client: it stays, or the     *)
(* seghandler takes it, or the server has just put it in.                   *)
LEMMA ClientAcks ==
  ASSUME TypeOK, ClientNext, NEW i \in DOMAIN s2c'
  PROVE  \E j \in DOMAIN s2c : s2c'[i] = s2c[j]
<1> USE DEF netVars
<1>1. CASE UNCHANGED s2c
  BY <1>1
<1>2. ASSUME NEW j \in Deliverable(s2c), HandlerReceive(j) \/ HandlerDiscard(j)
      PROVE  \E k \in DOMAIN s2c : s2c'[i] = s2c[k]
  <2>1. s2c' = RemoveAt(s2c, j) /\ j \in DOMAIN s2c
    BY <1>2 DEF HandlerReceive, HandlerDiscard, Deliverable
  <2>2. i \in 1 .. Len(s2c) - 1 /\ Len(s2c) \in Nat
    BY <2>1, RemoveAtProperties DEF TypeOK
  <2>3. s2c'[i] = IF i < j THEN s2c[i] ELSE s2c[i + 1]
    BY <2>1, <2>2, RemoveAtProperties DEF TypeOK
  <2> QED
    BY <2>2, <2>3 DEF TypeOK
<1>3. ASSUME NEW length \in SendLens, Send(length)
      PROVE  UNCHANGED s2c
  BY <1>3 DEF Send
<1>4. CASE Connect \/ ConnectResend \/ ConnectReturn \/ Enqueue \/ SendFlush
  BY <1>1, <1>4 DEF Connect, ConnectResend, ConnectReturn, Enqueue, SendFlush
<1>5. CASE Disconnect \/ DisconnectResend \/ DisconnectReturn \/ Close
  BY <1>1, <1>5 DEF Disconnect, DisconnectResend, DisconnectReturn, Close
<1>6. CASE HandlerSynack \/ HandlerDataack \/ HandlerFlush \/ HandlerFinack
  BY <1>1, <1>6 DEF HandlerSynack, HandlerDataack, HandlerFlush, HandlerFinack
<1>7. CASE HandlerExit \/ TimerFire \/ TimerExit \/ SendFlushCut
  BY <1>1, <1>7 DEF HandlerExit, TimerFire, TimerExit, SendFlushCut
<1> QED
  BY <1>1, <1>2, <1>3, <1>4, <1>5, <1>6, <1>7
     DEF ClientNext, AppStep, HandlerStep, TimerStep

(* A step of the client keeps every DATAACK under way true. *)
LEMMA ClientHolds ==
  ASSUME ClientNext, hPc' = "act"
  PROVE  \/ hPc = "act" /\ hSeg' = hSeg
         \/ \E j \in DOMAIN s2c : hSeg' = s2c[j]
<1> USE DEF handVars
<1>1. ASSUME NEW j \in Deliverable(s2c), HandlerReceive(j) \/ HandlerDiscard(j)
      PROVE  \/ hPc = "act" /\ hSeg' = hSeg
             \/ \E k \in DOMAIN s2c : hSeg' = s2c[k]
  BY <1>1 DEF HandlerReceive, HandlerDiscard, Deliverable
<1>2. ASSUME NEW length \in SendLens, Send(length)
      PROVE  UNCHANGED handVars
  BY <1>2 DEF Send
<1>3. CASE Connect \/ ConnectResend \/ ConnectReturn \/ Enqueue \/ SendFlush
  BY <1>3 DEF Connect, ConnectResend, ConnectReturn, Enqueue, SendFlush
<1>4. CASE Disconnect \/ DisconnectResend \/ DisconnectReturn \/ Close
  BY <1>4 DEF Disconnect, DisconnectResend, DisconnectReturn, Close
<1>5. CASE HandlerSynack \/ HandlerDataack \/ HandlerFlush \/ HandlerFinack
  <2>1. hPc' # "act"
    BY <1>5 DEF HandlerSynack, HandlerDataack, HandlerFlush, HandlerFinack
  <2> QED
    BY <2>1
<1>6. CASE HandlerExit \/ TimerFire \/ TimerExit \/ SendFlushCut
  BY <1>6 DEF HandlerExit, TimerFire, TimerExit, SendFlushCut
<1> QED
  BY <1>1, <1>2, <1>3, <1>4, <1>5, <1>6
     DEF ClientNext, AppStep, HandlerStep, TimerStep

(* A DATAACK that the server sends is true when it is sent. *)
LEMMA ServerSends ==
  ASSUME ServerNext
  PROVE  \/ UNCHANGED s2c
         \/ \E seg \in {ControlSeg("SYNACK", 0), ControlSeg("FINACK", 0),
                        ControlSeg("DATAACK", expect_seqNum')} :
              s2c' = Transmit(s2c, <<seg>>)
<1> USE DEF netVars, SendToClient
<1>1. CASE ServerAppStep
  BY <1>1 DEF ServerAppStep, Accept, AcceptReturn, Recv, RecvReturn, ServerClose
<1>2. CASE CloseWaitStep
  BY <1>2 DEF CloseWaitStep, CloseWaitExpire, CloseWaitWrite, CloseWaitExit
<1>3. CASE SynListening \/ FinConnected \/ ServerHandlerExit
  BY <1>3 DEF SynListening, FinConnected, ServerHandlerExit
<1>4. ASSUME NEW j \in Deliverable(c2s), Switch(j) \/ ServerDiscard(j)
      PROVE  UNCHANGED s2c
  BY <1>4 DEF Switch, ServerDiscard
<1>5. ASSUME NEW j \in Deliverable(c2s), SynConnected(j) \/ FinClosewait(j)
      PROVE  \E seg \in {ControlSeg("SYNACK", 0), ControlSeg("FINACK", 0)} :
               s2c' = Transmit(s2c, <<seg>>)
  BY <1>5 DEF SynConnected, FinClosewait
<1>6. ASSUME NEW j \in Deliverable(c2s), DataConnected(j)
      PROVE  s2c' = Transmit(s2c, <<ControlSeg("DATAACK", expect_seqNum')>>)
  BY <1>6 DEF DataConnected
<1> QED
  BY <1>1, <1>2, <1>3, <1>4, <1>5, <1>6 DEF ServerNext, ServerHandlerStep

(* Every DATAACK was true when it was sent and stays true. *)
LEMMA AckStep ==
  ASSUME TypeOK, NoWrap, PhaseInv, CountersInv, BufferInv, WindowInv, AckInv,
         Next, TypeOK', ServerInv'
  PROVE  AckInv'
<1> DEFINE Was(seg) == \/ \E j \in DOMAIN s2c : seg = s2c[j]
                       \/ hPc = "act" /\ seg = hSeg
<1>0. s2c \in Seq(Segments) /\ hSeg \in Segments
  BY DEF TypeOK, ClientTypeOK
<1>1. ASSUME NEW seg, Was(seg), seg.type = "DATAACK"
      PROVE  \E n \in Nat : n = seg.seq /\ Received(n)'
  <2>1. seg \in Segments
    BY <1>0, <1>1
  <2>2. PICK n \in Nat : n = seg.seq
    BY <2>1 DEF Segments
  <2>3. Received(n)
    BY <1>1, <2>2 DEF AckInv
  <2> QED
    BY <2>2, <2>3, ReceivedStep
<1>2. ASSUME NEW i \in DOMAIN s2c', s2c'[i].type = "DATAACK"
      PROVE  \E n \in Nat : n = s2c'[i].seq /\ Received(n)'
  <2>1. CASE \E j \in DOMAIN s2c : s2c'[i] = s2c[j]
    <3>1. PICK seg : seg = s2c'[i]
      OBVIOUS
    <3>2. Was(seg) /\ seg.type = "DATAACK"
      BY <1>2, <2>1, <3>1
    <3> QED
      BY <1>1, <3>1, <3>2
  <2>2. CASE UNCHANGED s2c
    BY <2>1, <2>2
  <2>3. CASE ClientNext
    BY <2>1, <2>3, ClientAcks
  <2>4. ASSUME NEW seg \in {ControlSeg("SYNACK", 0), ControlSeg("FINACK", 0),
                            ControlSeg("DATAACK", expect_seqNum')},
               s2c' = Transmit(s2c, <<seg>>)
        PROVE  \E n \in Nat : n = s2c'[i].seq /\ Received(n)'
    <3>1. expect_seqNum' \in Nat
      BY DEF TypeOK, ServerTypeOK
    <3>2. <<seg>> \in Seq(Segments) /\ DOMAIN <<seg>> = {1} /\ <<seg>>[1] = seg
      <4>1. seg \in Segments
        BY <2>4, <3>1, ControlSegType DEF SegTypes
      <4> QED
        BY <4>1
    <3>3. /\ i \in Nat /\ Len(s2c) \in Nat /\ i > 0
          /\ i <= Len(s2c) => s2c'[i] = s2c[i]
          /\ Len(s2c) < i => s2c'[i] = seg
      <4>1. PICK segs \in Seq(Segments) : segs = <<seg>>
        BY <3>2
      <4>2. /\ s2c' \in Seq(Segments)
            /\ i <= Len(s2c) => s2c'[i] = s2c[i]
            /\ Len(s2c) < i => /\ i - Len(s2c) \in DOMAIN segs
                               /\ s2c'[i] = segs[i - Len(s2c)]
        BY <1>0, <2>4, <4>1, TransmitProperties, ZenonT(40)
      <4> QED
        BY <1>0, <3>2, <4>1, <4>2
    <3>4. CASE i <= Len(s2c)
      <4>1. i \in DOMAIN s2c
        BY <3>3, <3>4 DEF TypeOK
      <4> QED
        BY <2>1, <3>3, <3>4, <4>1
    <3>5. CASE Len(s2c) < i
      <4>1. seg = s2c'[i] /\ seg.type = "DATAACK"
        BY <1>2, <3>3, <3>5
      <4>2. seg.seq = expect_seqNum'
        BY <2>4, <4>1 DEF ControlSeg
      <4>3. PICK n \in Nat : n = expect_seqNum'
        BY <3>1
      <4>4. Received(n)'
        BY <4>3 DEF ServerInv, Received, Frontier, HasUpTo
      <4> QED
        BY <4>1, <4>2, <4>3, <4>4
    <3> QED
      BY <3>3, <3>4, <3>5
  <2> QED
    BY <2>2, <2>3, <2>4, ServerSends DEF Next
<1>3. ASSUME hPc' = "act", hSeg'.type = "DATAACK"
      PROVE  \E n \in Nat : n = hSeg'.seq /\ Received(n)'
  <2>1. PICK seg : seg = hSeg'
    OBVIOUS
  <2>2. Was(seg)
    <3>1. CASE ClientNext
      BY <1>3, <2>1, <3>1, ClientHolds
    <3>2. CASE UNCHANGED clientVars
      BY <1>3, <2>1, <3>2 DEF clientVars, handVars
    <3> QED
      BY <3>1, <3>2 DEF Next
  <2> QED
    BY <1>1, <1>3, <2>1, <2>2
<1> QED
  BY <1>2, <1>3 DEF AckInv, Received, Frontier, HasUpTo

(* The bytes of a segment that a DATAACK frees are stored. *)
LEMMA FreedIsStored ==
  ASSUME TypeOK, CountersInv, BufferInv, AckInv,
         hPc = "act", hSeg.type = "DATAACK", sState # "NULL",
         NEW k \in 0 .. Len(sendBuf), Acknowledges(k),
         NEW i \in 1 .. k, NEW b \in BytesOf(sendBuf[i])
  PROVE  IsStored(b)
<1>1. i \in DOMAIN sendBuf
  BY DEF TypeOK, ClientTypeOK
<1>2. /\ sendBuf[i].seq \in Nat /\ sendBuf[i].len \in Nat /\ hSeg.seq \in Nat
      /\ connStart \in Nat
  BY <1>1, BufferSegType DEF TypeOK, ClientTypeOK, Segments
<1>3. sendBuf[i].seq = sendBuf[i].pos /\ connStart <= sendBuf[i].seq
  BY <1>1 DEF BufferInv
<1>4. sendBuf[i].seq < hSeg.seq
  BY DEF Acknowledges
<1>5. sendBuf[i].seq + sendBuf[i].len <= hSeg.seq
  BY <1>1, <1>2, <1>4 DEF AckInv, Received, Frontier
<1>6. b \in connStart + 1 .. hSeg.seq
  BY <1>2, <1>3, <1>5 DEF BytesOf
<1> QED
  BY <1>6 DEF AckInv, Received, HasUpTo

(* Every step keeps the bytes of freed segments at the server. *)
LEMMA AckedStep ==
  ASSUME TypeOK, PhaseInv, CountersInv, BufferInv, AckInv, AckedIsStored, Next
  PROVE  AckedIsStored'
<1> SUFFICES ASSUME sState' # "NULL", NEW b \in acked'
             PROVE  IsStored(b)'
  BY DEF AckedIsStored, IsStored
<1>1. sState # "NULL"
  BY NullStays
<1>2. CASE b \in acked
  <2>1. IsStored(b)
    BY <1>1, <1>2 DEF AckedIsStored, IsStored
  <2> QED
    BY <2>1, IsStoredStep
<1>3. CASE b \notin acked
  <2>1. ClientNext /\ UNCHANGED serverVars
    BY <1>3 DEF Next, clientVars, histVars
  <2>2. HandlerDataack
    <3> USE DEF histVars
    <3>1. ASSUME NEW length \in SendLens, Send(length)
          PROVE  UNCHANGED acked
      BY <3>1 DEF Send
    <3>2. ASSUME NEW i \in Deliverable(s2c), HandlerReceive(i) \/ HandlerDiscard(i)
          PROVE  UNCHANGED acked
      BY <3>2 DEF HandlerReceive, HandlerDiscard
    <3>3. CASE Connect \/ ConnectResend \/ ConnectReturn \/ Enqueue \/ SendFlush
      BY <1>3, <3>3 DEF Connect, ConnectResend, ConnectReturn, Enqueue, SendFlush
    <3>4. CASE Disconnect \/ DisconnectResend \/ DisconnectReturn \/ Close
      BY <1>3, <3>4 DEF Disconnect, DisconnectResend, DisconnectReturn, Close
    <3>5. CASE HandlerSynack \/ HandlerFlush \/ HandlerFinack
      BY <1>3, <3>5 DEF HandlerSynack, HandlerFlush, HandlerFinack
    <3>6. CASE HandlerExit \/ TimerFire \/ TimerExit \/ SendFlushCut
      BY <1>3, <3>6 DEF HandlerExit, TimerFire, TimerExit, SendFlushCut
    <3> QED
      BY <1>3, <2>1, <3>1, <3>2, <3>3, <3>4, <3>5, <3>6
         DEF ClientNext, AppStep, HandlerStep, TimerStep
  <2>3. PICK k \in 0 .. Len(sendBuf) :
          /\ Acknowledges(k)
          /\ acked' = acked \cup UNION {BytesOf(sendBuf[i]) : i \in 1 .. k}
    BY <2>2 DEF HandlerDataack
  <2>4. PICK i \in 1 .. k : b \in BytesOf(sendBuf[i])
    BY <1>3, <2>3
  <2>5. IsStored(b)
    BY <1>1, <2>2, <2>3, <2>4, FreedIsStored DEF HandlerDataack
  <2> QED
    BY <2>1, <2>5 DEF IsStored, Stored, serverVars
<1> QED
  BY <1>2, <1>3

----------------------------------------------------------------------------
(* The retransmission timer. *)

(* Every step keeps a timer for a buffer that is not empty. *)
LEMMA TimerRunsStep ==
  ASSUME TypeOK, PhaseInv, TimerRuns, ClientNext
  PROVE  TimerRuns'
<1> USE DEF bufVars, TimerRuns
<1>1. timers \in Nat
  BY ClientAssumption DEF TypeOK, ClientTypeOK
<1>2. ASSUME NEW length \in SendLens, Send(length)
      PROVE  TimerRuns'
  BY <1>2 DEF Send
<1>3. ASSUME NEW i \in Deliverable(s2c), HandlerReceive(i) \/ HandlerDiscard(i)
      PROVE  TimerRuns'
  BY <1>3 DEF HandlerReceive, HandlerDiscard
<1>4. CASE Connect \/ ConnectResend \/ ConnectReturn
  BY <1>4 DEF Connect, ConnectResend, ConnectReturn
<1>5. CASE Enqueue
  BY <1>1, <1>5 DEF Enqueue
<1>6. CASE SendFlush \/ SendFlushCut \/ HandlerFlush
  BY <1>6 DEF SendFlush, SendFlushCut, HandlerFlush, Flush
<1>7. CASE Disconnect \/ DisconnectResend \/ DisconnectReturn \/ Close
  BY <1>7 DEF Disconnect, DisconnectResend, DisconnectReturn, Close
<1>8. CASE HandlerSynack \/ HandlerFinack \/ HandlerExit
  BY <1>8 DEF HandlerSynack, HandlerFinack, HandlerExit
<1>9. CASE HandlerDataack
  <2>1. UNCHANGED timers
    BY <1>9 DEF HandlerDataack
  <2>2. sendBuf = <<>> => sendBuf' = <<>>
    BY <1>9 DEF HandlerDataack
  <2> QED
    BY <2>1, <2>2
<1>10. CASE TimerFire \/ TimerExit
  BY <1>10 DEF TimerFire, TimerExit
<1> QED
  BY <1>2, <1>3, <1>4, <1>5, <1>6, <1>7, <1>8, <1>9, <1>10
     DEF ClientNext, AppStep, HandlerStep, TimerStep

----------------------------------------------------------------------------
(* The inductive invariant. *)

(* The invariant holds of a fresh client and server. *)
LEMMA InitSafety ==
  ASSUME Init
  PROVE  SafetyInv
<1> USE DEF Init, NetInit, ClientInit, ServerInit
<1>1. TypeOK
  <2>1. NoSeg \in Segments /\ ControlSeg("SYN", 0) \in Segments
    BY ControlSegType DEF NoSeg, SegTypes
  <2>2. ClientTypeOK
    BY <2>1, ConstantsAssumption, ClientAssumption DEF ClientTypeOK, ClientStates
  <2>3. ServerTypeOK
    <3>1. accepts \in 0 .. MaxAccepts /\ sSeg \in Segments
      BY <2>1, ServerAssumption
    <3>2. recvBuf \in Seq(Nat) /\ delivered \in Seq(Nat)
      OBVIOUS
    <3>3. synced \in BOOLEAN /\ sLink \in BOOLEAN
      BY Zenon
    <3> QED
      BY <3>1, <3>2, <3>3 DEF ServerTypeOK, ServerStates
  <2> QED
    BY <2>2, <2>3 DEF TypeOK
<1>2. PhaseInv
  BY DEF PhaseInv
<1>3. CountersInv /\ BufferInv /\ WindowInv
  BY DEF CountersInv, BufferInv, WindowInv
<1>4. ToServerInv /\ AckInv
  BY DEF ToServerInv, AckInv
<1>5. ServerInv
  BY DEF ServerInv, Received, Frontier, HasUpTo
<1>6. AckedIsStored /\ TimerRuns
  BY DEF AckedIsStored, TimerRuns
<1> QED
  BY <1>1, <1>2, <1>3, <1>4, <1>5, <1>6 DEF SafetyInv

(* A step of the server leaves alone what is said of the client only. *)
LEMMA ServerKeeps ==
  ASSUME PhaseInv, CountersInv, BufferInv, WindowInv, TimerRuns,
         ServerNext, UNCHANGED clientVars
  PROVE  PhaseInv' /\ CountersInv' /\ BufferInv' /\ WindowInv' /\ TimerRuns'
<1> USE DEF clientVars, bufVars, appVars, handVars, histVars
<1>1. CountersInv' /\ BufferInv' /\ WindowInv' /\ TimerRuns'
  BY DEF CountersInv, BufferInv, WindowInv, TimerRuns
<1>2. srvPc' = "accept" => sState' # "NULL"
  <2> USE DEF PhaseInv
  <2>1. CASE ServerAppStep
    BY <2>1 DEF ServerAppStep, Accept, AcceptReturn, Recv, RecvReturn,
                ServerClose, callVars
  <2>2. CASE CloseWaitStep
    BY <2>2 DEF CloseWaitStep, CloseWaitExpire, CloseWaitWrite, CloseWaitExit,
                callVars
  <2>3. CASE SynListening \/ FinConnected \/ ServerHandlerExit
    BY <2>3 DEF SynListening, FinConnected, ServerHandlerExit, callVars
  <2>4. ASSUME NEW j \in Deliverable(c2s),
               \/ Switch(j) \/ SynConnected(j) \/ FinClosewait(j)
               \/ DataConnected(j) \/ ServerDiscard(j)
        PROVE  UNCHANGED <<srvPc, sState>>
    BY <2>4 DEF Switch, SynConnected, FinClosewait, DataConnected,
                ServerDiscard, serverVars, callVars
  <2> QED
    BY <2>1, <2>2, <2>3, <2>4 DEF ServerNext, ServerHandlerStep
<1>3. PhaseInv'
  BY <1>2 DEF PhaseInv
<1> QED
  BY <1>1, <1>3

(* The invariant is inductive. *)
LEMMA NextSafety ==
  ASSUME SafetyInv, NoWrap, [Next]_vars
  PROVE  SafetyInv'
<1> USE DEF SafetyInv
<1>1. CASE Next
  <2>1. TypeOK'
    BY <1>1, ClientStepType, ServerStepType DEF Next
  <2>2. PhaseInv' /\ CountersInv' /\ BufferInv' /\ WindowInv' /\ TimerRuns'
    BY <1>1, PhaseStep, CountersStep, BufferStep, WindowStep, TimerRunsStep,
       ServerKeeps DEF Next
  <2>3. ToServerInv'
    BY <1>1, ClientToServer, ServerToServer DEF Next
  <2>4. ServerInv'
    BY <1>1, ServerStep
  <2>5. AckInv'
    BY <1>1, <2>1, <2>4, AckStep
  <2>6. AckedIsStored'
    BY <1>1, AckedStep
  <2> QED
    BY <2>1, <2>2, <2>3, <2>4, <2>5, <2>6
<1>2. CASE UNCHANGED vars
  <2> USE <1>2 DEF vars, netVars, clientVars, bufVars, appVars, handVars,
                   histVars, serverVars
  <2>1. TypeOK'
    BY DEF TypeOK, ClientTypeOK, ServerTypeOK
  <2>2. PhaseInv' /\ CountersInv' /\ BufferInv' /\ WindowInv' /\ TimerRuns'
    BY DEF PhaseInv, CountersInv, BufferInv, WindowInv, TimerRuns
  <2>3. ToServerInv'
    BY DEF ToServerInv, ToServerSegOK, Frontier
  <2>4. ServerInv' /\ AckInv'
    BY DEF ServerInv, AckInv, Received, Frontier, HasUpTo, IsStored, Stored
  <2>5. AckedIsStored'
    BY DEF AckedIsStored, Stored
  <2> QED
    BY <2>1, <2>2, <2>3, <2>4, <2>5
<1> QED
  BY <1>1, <1>2

(* The inductive invariant holds as long as sequence numbers do not wrap,   *)
(* in whatever order the network delivers segments.                         *)
THEOREM Safety ==
  ASSUME NoWrap
  PROVE  Spec => []SafetyInv
<1>1. Init => SafetyInv
  BY InitSafety
<1>2. SafetyInv /\ [Next]_vars => SafetyInv'
  BY NextSafety
<1> QED
  BY <1>1, <1>2, PTL DEF Spec

(* Every variable keeps a value the code can give it: no index of the send  *)
(* buffer goes astray and unAck_segNum never underflows.                    *)
THEOREM TypeCorrect ==
  ASSUME NoWrap
  PROVE  Spec => []TypeOK
<1>1. SafetyInv => TypeOK
  BY DEF SafetyInv
<1> QED
  BY <1>1, Safety, PTL

(* A byte whose segBuf the client frees is a byte the server has stored.    *)
THEOREM AckedBytesAreStored ==
  ASSUME NoWrap
  PROVE  Spec => []AckedIsStored
<1>1. SafetyInv => AckedIsStored
  BY DEF SafetyInv
<1> QED
  BY <1>1, Safety, PTL

(* sendBufunSent is NULL or points into the send buffer.                    *)
THEOREM UnsentStaysLive ==
  ASSUME NoWrap
  PROVE  Spec => []UnsentIsLive
<1>1. SafetyInv => UnsentIsLive
  BY DEF SafetyInv, WindowInv, UnsentIsLive
<1> QED
  BY <1>1, Safety, PTL

(* A send buffer that is not empty has a timer.                             *)
THEOREM TimerAlwaysRuns ==
  ASSUME NoWrap
  PROVE  Spec => []TimerRuns
<1>1. SafetyInv => TimerRuns
  BY DEF SafetyInv
<1> QED
  BY <1>1, Safety, PTL

----------------------------------------------------------------------------
(* With a fixed route (~Reroute) a connection implements the ordered        *)
(* stream, so that what srt_server_recv hands over is in order.             *)
StreamProofs == INSTANCE OrderedStreamProofs
                  WITH written <- queued, cursor <- expect_seqNum,
                       buffer <- recvBuf, read <- delivered

----------------------------------------------------------------------------
(* SYNs never overtake and are never overtaken by what was sent before.     *)

(* How far a segment reaches is a natural number. *)
LEMMA ReachType ==
  ASSUME NEW seg \in Segments
  PROVE  Reach(seg) \in Nat /\ seg.seq \in Nat
BY DEF Reach, Segments

(* Nothing under way goes beyond what the client has queued. *)
LEMMA ReachQueued ==
  ASSUME TypeOK, CountersInv, ToServerInv, NEW i \in DOMAIN c2s
  PROVE  Reach(c2s[i]) <= queued
<1>1. connStart \in Nat /\ queued \in Nat /\ connStart <= queued
  BY DEF TypeOK, ClientTypeOK, CountersInv
<1>2. c2s[i] \in Segments /\ ToServerSegOK(c2s[i])
  BY DEF TypeOK, ToServerInv
<1>3. c2s[i].seq \in Nat
  BY <1>2, ReachType
<1> QED
  BY <1>1, <1>2, <1>3 DEF Reach, ToServerSegOK, Frontier

(* The client adds segments behind those of its older connections. *)
LEMMA ClientFifo ==
  ASSUME SafetyInv, NoWrap, SynsAreLater, ClientNext, UNCHANGED serverVars, TypeOK'
  PROVE  SynsAreLater'
<1> USE DEF SafetyInv
<1>0. /\ c2s \in Seq(Segments) /\ Len(c2s) \in Nat /\ DOMAIN c2s = 1 .. Len(c2s)
      /\ expect_seqNum \in Nat /\ queued \in Nat /\ connStart \in Nat
      /\ sSeg.seq \in Nat /\ connStart <= queued
  <2>1. sSeg \in Segments /\ c2s \in Seq(Segments) /\ expect_seqNum \in Nat
    BY DEF TypeOK, ServerTypeOK
  <2>2. queued \in Nat /\ connStart \in Nat /\ connStart <= queued
    BY DEF TypeOK, ClientTypeOK, CountersInv
  <2> HIDE DEF SafetyInv
  <2> QED
    BY <2>1, <2>2 DEF Segments
<1>1. UNCHANGED <<expect_seqNum, sBranch, sSeg>>
  BY DEF serverVars
<1>2. CASE UNCHANGED c2s
  BY <1>1, <1>2 DEF SynsAreLater
<1>3. ASSUME NEW segs \in Seq(Segments), c2s' = Transmit(c2s, segs),
             \A j \in DOMAIN segs :
               segs[j].type = "SYN" => j = 1 /\ segs[j].seq = queued
      PROVE  SynsAreLater'
  <2>1. expect_seqNum <= queued
    BY DEF ServerInv, Received, Frontier
  <2>2. sBranch = "SYN" => sSeg.seq <= queued
    BY <1>0 DEF ToServerInv
  <2>3. ASSUME NEW i \in DOMAIN c2s'
        PROVE  /\ i \in Nat /\ i > 0
               /\ i <= Len(c2s) => i \in DOMAIN c2s /\ c2s'[i] = c2s[i]
               /\ Len(c2s) < i => /\ i - Len(c2s) \in DOMAIN segs
                                  /\ c2s'[i] = segs[i - Len(c2s)]
    BY <1>0, <1>3, TransmitProperties
  <2>4. ASSUME NEW i \in DOMAIN c2s', c2s'[i].type = "SYN"
        PROVE  /\ expect_seqNum <= c2s'[i].seq
               /\ sBranch = "SYN" => sSeg.seq <= c2s'[i].seq
               /\ \A j \in 1 .. i - 1 : Reach(c2s'[j]) <= c2s'[i].seq
    <3>1. \A j \in 1 .. i - 1 : j \in DOMAIN c2s'
      BY <2>3 DEF TypeOK
    <3>2. CASE i <= Len(c2s)
      <4>1. i \in DOMAIN c2s /\ c2s'[i] = c2s[i]
        BY <2>3, <3>2
      <4>2. \A j \in 1 .. i - 1 : j <= Len(c2s)
        BY <1>0, <2>3, <3>2
      <4>3. \A j \in 1 .. i - 1 : c2s'[j] = c2s[j]
        BY <2>3, <3>1, <4>2
      <4> QED
        BY <2>4, <4>1, <4>3 DEF SynsAreLater
    <3>3. CASE Len(c2s) < i
      <4>1. i - Len(c2s) = 1 /\ c2s'[i].seq = queued
        BY <1>3, <2>3, <2>4, <3>3
      <4>2. ASSUME NEW j \in 1 .. i - 1
            PROVE  Reach(c2s'[j]) <= queued
        <5>1. j \in DOMAIN c2s /\ c2s'[j] = c2s[j]
          BY <1>0, <2>3, <3>1, <4>1
        <5> QED
          BY <5>1, ReachQueued
      <4> QED
        BY <2>1, <2>2, <4>1, <4>2
    <3> QED
      BY <1>0, <2>3, <3>2, <3>3
  <2> QED
    BY <1>1, <2>4 DEF SynsAreLater
<1> QED
  BY <1>2, <1>3, ClientSends

(* The first segment of the channel has gone. *)
LEMMA HeadGone ==
  ASSUME TypeOK, ~Reroute, NEW i \in Deliverable(c2s), c2s' = RemoveAt(c2s, i)
  PROVE  /\ i = 1 /\ 1 \in DOMAIN c2s
         /\ \A k \in DOMAIN c2s' :
              /\ k \in Nat /\ k + 1 \in DOMAIN c2s /\ c2s'[k] = c2s[k + 1]
              /\ \A j \in 1 .. k - 1 : c2s'[j] = c2s[j + 1]
<1>1. i = 1 /\ 1 \in DOMAIN c2s /\ c2s \in Seq(Segments) /\ Len(c2s) \in Nat
  BY DEF Deliverable, TypeOK
<1>2. /\ DOMAIN c2s' = 1 .. Len(c2s) - 1
      /\ \A k \in 1 .. Len(c2s) - 1 : c2s'[k] = c2s[k + 1]
  <2>1. \A k \in 1 .. Len(c2s) - 1 : ~(k < i)
    BY <1>1
  <2>2. /\ RemoveAt(c2s, i) \in Seq(Segments)
        /\ Len(RemoveAt(c2s, i)) = Len(c2s) - 1
        /\ \A k \in 1 .. Len(c2s) - 1 :
             RemoveAt(c2s, i)[k] = IF k < i THEN c2s[k] ELSE c2s[k + 1]
    BY <1>1, RemoveAtProperties
  <2> QED
    BY <1>1, <2>1, <2>2
<1>3. ASSUME NEW k \in 1 .. Len(c2s) - 1
      PROVE  /\ k \in Nat /\ k + 1 \in DOMAIN c2s
             /\ \A j \in 1 .. k - 1 : j \in 1 .. Len(c2s) - 1
  BY <1>1
<1> QED
  BY <1>1, <1>2, <1>3

(* The server takes segments from the front only. *)
LEMMA ServerFifo ==
  ASSUME SafetyInv, NoWrap, ~Reroute, SynsAreLater, ServerNext,
         UNCHANGED clientVars
  PROVE  SynsAreLater'
<1> USE DEF SafetyInv, netVars
<1>0. /\ c2s \in Seq(Segments) /\ expect_seqNum \in Nat /\ sSeg.seq \in Nat
  BY DEF TypeOK, ServerTypeOK, Segments
<1>1. CASE UNCHANGED <<c2s, expect_seqNum, sBranch, sSeg>>
  BY <1>1 DEF SynsAreLater
<1>2. ASSUME UNCHANGED <<c2s, expect_seqNum>>, sBranch' = "none"
      PROVE  SynsAreLater'
  BY <1>2 DEF SynsAreLater
<1>3. CASE SynListening
  <2>1. /\ c2s' = c2s /\ sBranch = "SYN" /\ sBranch' = "none"
        /\ expect_seqNum' = sSeg.seq
    BY <1>3 DEF SynListening, Branch
  <2> QED
    BY <2>1 DEF SynsAreLater
<1>4. ASSUME NEW i \in Deliverable(c2s), c2s' = RemoveAt(c2s, i),
             UNCHANGED <<expect_seqNum, sBranch, sSeg>>
      PROVE  SynsAreLater'
  <2>1. \A k \in DOMAIN c2s' :
              /\ k \in Nat /\ k + 1 \in DOMAIN c2s /\ c2s'[k] = c2s[k + 1]
              /\ \A j \in 1 .. k - 1 : c2s'[j] = c2s[j + 1]
    BY <1>4, HeadGone
  <2>2. \A k \in Nat : \A j \in 1 .. k - 1 : j + 1 \in 1 .. (k + 1) - 1
    OBVIOUS
  <2> QED
    BY <1>4, <2>1, <2>2 DEF SynsAreLater
<1>5. ASSUME NEW i \in Deliverable(c2s), Switch(i)
      PROVE  SynsAreLater'
  <2>1. /\ c2s' = RemoveAt(c2s, i) /\ sSeg' = c2s[i] /\ sBranch' = c2s[i].type
        /\ UNCHANGED expect_seqNum
    BY <1>5 DEF Switch, Arrives
  <2>2. /\ i = 1 /\ 1 \in DOMAIN c2s
        /\ \A k \in DOMAIN c2s' :
              /\ k \in Nat /\ k > 0 /\ k + 1 \in DOMAIN c2s /\ c2s'[k] = c2s[k + 1]
              /\ \A j \in 1 .. k - 1 : c2s'[j] = c2s[j + 1]
    <3>1. \A k \in DOMAIN c2s' : k > 0
      BY <2>1, RemoveAtProperties DEF TypeOK, Deliverable
    <3> QED
      BY <2>1, <3>1, HeadGone
  <2>3. ASSUME NEW k \in DOMAIN c2s', c2s'[k].type = "SYN"
        PROVE  /\ expect_seqNum <= c2s'[k].seq
               /\ c2s[1].type = "SYN" => c2s[1].seq <= c2s'[k].seq
               /\ \A j \in 1 .. k - 1 : Reach(c2s'[j]) <= c2s'[k].seq
    <3>1. /\ k + 1 \in DOMAIN c2s /\ c2s'[k] = c2s[k + 1]
          /\ 1 \in 1 .. (k + 1) - 1
          /\ \A j \in 1 .. k - 1 : j + 1 \in 1 .. (k + 1) - 1
      BY <2>2
    <3>2. c2s[1].type = "SYN" => c2s[1].seq <= c2s'[k].seq
      BY <2>3, <3>1 DEF SynsAreLater, Reach
    <3> QED
      BY <2>2, <2>3, <3>1, <3>2 DEF SynsAreLater
  <2>4. c2s[1].type = "SYN" => expect_seqNum <= c2s[1].seq
    BY <2>2 DEF SynsAreLater
  <2> QED
    BY <2>1, <2>2, <2>3, <2>4 DEF SynsAreLater
<1>6. ASSUME NEW i \in Deliverable(c2s), DataConnected(i)
      PROVE  SynsAreLater'
  <2>1. /\ c2s' = RemoveAt(c2s, i) /\ sBranch' = "none"
        /\ c2s[i].type = "DATA"
    BY <1>6 DEF DataConnected, Arrives, shVars
  <2>2. CASE UNCHANGED expect_seqNum
    BY <1>4, <1>6, <2>1, <2>2 DEF DataConnected, shVars
  <2>3. CASE Storable(c2s[i])
    <3>1. /\ i = 1 /\ 1 \in DOMAIN c2s
          /\ \A k \in DOMAIN c2s' :
                /\ k \in Nat /\ k > 0 /\ k + 1 \in DOMAIN c2s
                /\ c2s'[k] = c2s[k + 1]
                /\ \A j \in 1 .. k - 1 : c2s'[j] = c2s[j + 1]
      <4>1. \A k \in DOMAIN c2s' : k > 0
        BY <2>1, RemoveAtProperties DEF TypeOK, Deliverable
      <4> QED
        BY <2>1, <4>1, HeadGone
    <3>2. expect_seqNum' <= Reach(c2s[1])
      <4>1. c2s[1].seq \in Nat /\ c2s[1].len \in Nat
        <5>1. c2s[1] \in Segments
          BY <1>0, <3>1
        <5> QED
          BY <5>1 DEF Segments
      <4>2. expect_seqNum' = SeqAdd(c2s[1].seq, c2s[1].len)
        BY <1>6, <2>3, <3>1 DEF DataConnected, Storable
      <4>3. Reach(c2s[1]) = c2s[1].seq + c2s[1].len
        BY <2>1, <3>1 DEF Reach
      <4> QED
        BY <4>1, <4>2, <4>3, ConstantsAssumption DEF SeqAdd
    <3>3. ASSUME NEW k \in DOMAIN c2s', c2s'[k].type = "SYN"
          PROVE  /\ expect_seqNum' <= c2s'[k].seq
                 /\ \A j \in 1 .. k - 1 : Reach(c2s'[j]) <= c2s'[k].seq
      <4>1. /\ k + 1 \in DOMAIN c2s /\ c2s'[k] = c2s[k + 1]
            /\ 1 \in 1 .. (k + 1) - 1
            /\ \A j \in 1 .. k - 1 : j + 1 \in 1 .. (k + 1) - 1
        BY <3>1
      <4>2. Reach(c2s[1]) <= c2s'[k].seq
        BY <3>3, <4>1 DEF SynsAreLater
      <4>3. /\ Reach(c2s[1]) \in Nat /\ c2s'[k].seq \in Nat
            /\ expect_seqNum' \in Nat
        <5>1. c2s[1] \in Segments /\ c2s[k + 1] \in Segments
          BY <3>1, <4>1 DEF TypeOK
        <5>2. c2s[i] = c2s[1] /\ c2s[1].len \in Nat
          BY <3>1, <5>1 DEF Segments
        <5> QED
          BY <1>0, <1>6, <2>3, <4>1, <5>1, <5>2, ReachType, SeqAddType
             DEF DataConnected
      <4> QED
        BY <3>1, <3>2, <3>3, <4>1, <4>2, <4>3 DEF SynsAreLater
    <3> QED
      BY <2>1, <3>3 DEF SynsAreLater
  <2> QED
    BY <1>6, <2>2, <2>3 DEF DataConnected
<1>7. ASSUME NEW i \in Deliverable(c2s),
             SynConnected(i) \/ FinClosewait(i) \/ ServerDiscard(i)
      PROVE  SynsAreLater'
  BY <1>4, <1>7 DEF SynConnected, FinClosewait, ServerDiscard, Arrives,
                    serverVars
<1>8. CASE ServerAppStep
  BY <1>1, <1>8 DEF ServerAppStep, Accept, AcceptReturn, Recv, RecvReturn,
                    ServerClose, shVars
<1>9. CASE CloseWaitStep
  BY <1>1, <1>9 DEF CloseWaitStep, CloseWaitExpire, CloseWaitWrite,
                    CloseWaitExit, shVars
<1>10. CASE FinConnected \/ ServerHandlerExit
  BY <1>1, <1>2, <1>10 DEF FinConnected, ServerHandlerExit, Branch
<1> QED
  BY <1>3, <1>5, <1>6, <1>7, <1>8, <1>9, <1>10
     DEF ServerNext, ServerHandlerStep

(* With a fixed route the inductive invariant includes SynsAreLater.        *)
THEOREM Fifo ==
  ASSUME NoWrap, ~Reroute
  PROVE  Spec => []FifoInv
<1>1. Init => FifoInv
  <2>1. Init => SynsAreLater
    BY DEF SynsAreLater, Init, NetInit, ServerInit
  <2> QED
    BY <2>1, InitSafety DEF FifoInv
<1>2. FifoInv /\ [Next]_vars => FifoInv'
  <2> SUFFICES ASSUME FifoInv, [Next]_vars
               PROVE  FifoInv'
    OBVIOUS
  <2>1. SafetyInv'
    BY NextSafety DEF FifoInv
  <2>2. CASE Next
    BY <2>1, <2>2, ClientFifo, ServerFifo DEF FifoInv, SafetyInv, Next
  <2>3. CASE UNCHANGED vars
    BY <2>1, <2>3 DEF FifoInv, SynsAreLater, vars, netVars, serverVars
  <2> QED
    BY <2>2, <2>3
<1> QED
  BY <1>1, <1>2, PTL DEF Spec

----------------------------------------------------------------------------
(* The refinement of the ordered stream. *)

(* Fresh TCBs are the empty stream. *)
LEMMA InitStream ==
  Init => Stream!StreamInit
BY DEF Init, ClientInit, ServerInit, Stream!StreamInit

(* A step of the client writes to the stream or leaves it alone. *)
LEMMA ClientStream ==
  ASSUME FifoInv, TypeOK', ClientNext, UNCHANGED serverVars
  PROVE  [Stream!StreamNext]_Stream!streamVars
<1>1. UNCHANGED <<expect_seqNum, recvBuf, delivered>>
  BY DEF serverVars
<1>2. queued \in Nat /\ queued' \in Nat
  BY DEF FifoInv, SafetyInv, TypeOK, ClientTypeOK
<1>3. queued' >= queued
  <2>1. CASE UNCHANGED queued
    BY <1>2, <2>1
  <2>2. CASE Enqueue
    <3>1. LengthOfNext \in Nat
      <4>1. left \in Nat
        BY DEF FifoInv, SafetyInv, TypeOK, ClientTypeOK
      <4> QED
        BY <4>1, ConstantsAssumption DEF LengthOfNext
    <3>2. queued' = queued + LengthOfNext
      BY <2>2 DEF Enqueue
    <3> QED
      BY <1>2, <3>1, <3>2
  <2>3. CASE Connect \/ Disconnect \/ HandlerDataack
    BY <2>1, <2>3 DEF Connect, Disconnect, HandlerDataack, histVars
  <2>4. CASE SendFlush \/ HandlerFlush \/ TimerFire
    BY <2>1, <2>4 DEF SendFlush, HandlerFlush, TimerFire, histVars
  <2> QED
    BY <2>1, <2>2, <2>3, <2>4, BufferSteps
<1>4. Stream!Write
  BY <1>1, <1>2, <1>3 DEF Stream!Write
<1> QED
  BY <1>4 DEF Stream!StreamNext

(* A step of the server is a step of the reader's side. *)
LEMMA ServerStream ==
  ASSUME NoWrap, FifoInv, ServerNext, UNCHANGED clientVars
  PROVE  [Stream!StreamNext]_Stream!streamVars
<1> USE DEF FifoInv, SafetyInv
<1>0. /\ UNCHANGED queued /\ queued \in Nat /\ expect_seqNum \in Nat
      /\ recvBuf \in Seq(Nat) /\ recvLen \in Nat
  BY DEF clientVars, histVars, TypeOK, ClientTypeOK, ServerTypeOK
<1>1. CASE UNCHANGED <<expect_seqNum, recvBuf, delivered>>
  BY <1>0, <1>1 DEF Stream!streamVars
<1>2. CASE RecvReturn
  <2>1. recvLen \in 0 .. Len(recvBuf)
    BY <1>0, <1>2 DEF RecvReturn
  <2>2. Stream!Read(recvLen)
    BY <1>0, <1>2 DEF RecvReturn, Stream!Read
  <2> QED
    BY <2>1, <2>2 DEF Stream!StreamNext
<1>3. CASE ServerClose
  <2>1. Stream!Discard
    BY <1>0, <1>3 DEF ServerClose, Stream!Discard
  <2> QED
    BY <2>1 DEF Stream!StreamNext
<1>4. CASE SynListening
  <2>1. /\ sBranch = "SYN" /\ expect_seqNum' = sSeg.seq
        /\ UNCHANGED <<recvBuf, delivered>>
    BY <1>4 DEF SynListening, Branch
  <2>2. sSeg.seq \in expect_seqNum .. queued
    <3>1. expect_seqNum <= sSeg.seq /\ sSeg.seq <= connStart
      BY <2>1 DEF SynsAreLater, ToServerInv
    <3>2. /\ connStart <= queued /\ connStart \in Nat /\ sSeg \in Segments
      BY DEF CountersInv, TypeOK, ClientTypeOK, ServerTypeOK
    <3>3. sSeg.seq \in Nat
      BY <3>2 DEF Segments
    <3> QED
      BY <1>0, <3>1, <3>2, <3>3
  <2>3. Stream!Resume
    BY <1>0, <2>1, <2>2 DEF Stream!Resume
  <2> QED
    BY <2>3 DEF Stream!StreamNext
<1>5. ASSUME NEW i \in Deliverable(c2s), DataConnected(i), Storable(c2s[i])
      PROVE  Stream!StreamNext
  <2>1. PICK seg \in Segments : seg = c2s[i] /\ ToServerSegOK(seg)
    BY DEF TypeOK, Deliverable, ToServerInv
  <2>2. /\ seg.type = "DATA" /\ seg.seq = expect_seqNum
        /\ seg.len \in Nat /\ seg.pos = expect_seqNum
    BY <1>5, <2>1 DEF DataConnected, Arrives, Storable, ToServerSegOK, Segments
  <2>3. expect_seqNum + seg.len <= queued
    BY <2>1, <2>2 DEF ToServerSegOK, Frontier
  <2>4. expect_seqNum + seg.len < SEQ_MOD
    <3>1. /\ left \in Nat /\ offered \in Nat
          /\ offered <= MaxBytes /\ queued + left <= offered
      BY ClientAssumption DEF TypeOK, ClientTypeOK, CountersInv
    <3> QED
      BY <1>0, <2>2, <2>3, <3>1, ConstantsAssumption, ClientAssumption
         DEF NoWrap
  <2>5. seg.len \in 0 .. queued - expect_seqNum
    BY <1>0, <2>2, <2>3
  <2>6. /\ expect_seqNum' = expect_seqNum + seg.len
        /\ recvBuf' = recvBuf \o [k \in 1 .. seg.len |-> expect_seqNum + k]
        /\ UNCHANGED delivered
    BY <1>5, <2>1, <2>2, <2>4 DEF DataConnected, SeqAdd, Payload
  <2>7. Stream!Take(seg.len)
    BY <1>0, <2>6 DEF Stream!Take
  <2> QED
    BY <2>5, <2>7 DEF Stream!StreamNext
<1>6. ASSUME NEW i \in Deliverable(c2s), DataConnected(i), ~Storable(c2s[i])
      PROVE  UNCHANGED <<expect_seqNum, recvBuf, delivered>>
  BY <1>6 DEF DataConnected
<1>7. CASE Accept \/ AcceptReturn
  BY <1>1, <1>7 DEF Accept, AcceptReturn
<1>8. ASSUME NEW length \in RecvLens, Recv(length)
      PROVE  UNCHANGED <<expect_seqNum, recvBuf, delivered>>
  BY <1>8 DEF Recv
<1>9. CASE CloseWaitStep
  BY <1>1, <1>9 DEF CloseWaitStep, CloseWaitExpire, CloseWaitWrite,
                    CloseWaitExit
<1>10. CASE FinConnected \/ ServerHandlerExit
  BY <1>1, <1>10 DEF FinConnected, ServerHandlerExit
<1>11. ASSUME NEW i \in Deliverable(c2s),
              Switch(i) \/ SynConnected(i) \/ FinClosewait(i) \/ ServerDiscard(i)
       PROVE  UNCHANGED <<expect_seqNum, recvBuf, delivered>>
  BY <1>11 DEF Switch, SynConnected, FinClosewait, ServerDiscard, serverVars
<1> QED
  BY <1>1, <1>2, <1>3, <1>4, <1>5, <1>6, <1>7, <1>8, <1>9, <1>10, <1>11
     DEF ServerNext, ServerAppStep, ServerHandlerStep

(* A connection of SRT implements the ordered stream: with a fixed route    *)
(* the server takes bytes in the order of sending, and a new connection     *)
(* starts behind all that it has.                                           *)
THEOREM Refinement ==
  ASSUME NoWrap, ~Reroute
  PROVE  Spec => ImplementsStream
<1>1. Init => Stream!StreamInit
  BY InitStream
<1>2. FifoInv /\ FifoInv' /\ [Next]_vars => [Stream!StreamNext]_Stream!streamVars
  <2> SUFFICES ASSUME FifoInv, FifoInv', [Next]_vars
               PROVE  [Stream!StreamNext]_Stream!streamVars
    OBVIOUS
  <2>1. CASE ClientNext /\ UNCHANGED serverVars
    BY <2>1, ClientStream DEF FifoInv, SafetyInv
  <2>2. CASE ServerNext /\ UNCHANGED clientVars
    BY <2>2, ServerStream
  <2>3. CASE UNCHANGED vars
    BY <2>3 DEF vars, clientVars, histVars, serverVars, Stream!streamVars
  <2> QED
    BY <2>1, <2>2, <2>3 DEF Next
<1> QED
  BY <1>1, <1>2, Fifo, PTL DEF Spec, ImplementsStream, Stream!StreamSpec

(* What srt_server_recv hands over is in the order of sending, each byte at *)
(* most once.                                                               *)
THEOREM DeliveryInOrder ==
  ASSUME NoWrap, ~Reroute
  PROVE  Spec => []InOrder
<1>1. Stream!StreamSpec => []Stream!StreamInOrder
  <2>1. Stream!StreamInit => StreamProofs!StreamInit
    BY DEF Stream!StreamInit, StreamProofs!StreamInit
  <2>2. [Stream!StreamNext]_Stream!streamVars
          => [StreamProofs!StreamNext]_StreamProofs!streamVars
    BY DEF Stream!StreamNext, StreamProofs!StreamNext,
           Stream!Write, StreamProofs!Write, Stream!Take, StreamProofs!Take,
           Stream!Resume, StreamProofs!Resume, Stream!Read, StreamProofs!Read,
           Stream!Discard, StreamProofs!Discard,
           Stream!streamVars, StreamProofs!streamVars
  <2>3. StreamProofs!StreamInOrder => Stream!StreamInOrder
    BY DEF Stream!StreamInOrder, StreamProofs!StreamInOrder
  <2> QED
    BY <2>1, <2>2, <2>3, StreamProofs!StreamDelivers, PTL
       DEF Stream!StreamSpec, StreamProofs!StreamSpec
<1>2. Stream!StreamInOrder => InOrder
  BY DEF Stream!StreamInOrder, InOrder, Stored
<1> QED
  BY <1>1, <1>2, Refinement, PTL DEF ImplementsStream
=============================================================================
