-------------------------------- MODULE Srt --------------------------------
(***************************************************************************)
(* The SRT transport: the client of srt_client.c and the server of         *)
(* srt_server.c joined by a network that loses, corrupts (the checksum     *)
(* turns that into a loss) and, when routes change, reorders segments.     *)
(***************************************************************************)
EXTENDS SrtClient, SrtServer

vars == <<netVars, clientVars, serverVars>>

Init == NetInit /\ ClientInit /\ ServerInit

Next ==
  \/ ClientNext /\ UNCHANGED serverVars
  \/ ServerNext /\ UNCHANGED clientVars

Spec == Init /\ [][Next]_vars

----------------------------------------------------------------------------
(* Every variable has a value the code can give it. *)
TypeOK ==
  /\ c2s \in Seq(Segments) /\ s2c \in Seq(Segments)
  /\ ClientTypeOK
  /\ ServerTypeOK

(* The bytes the server has stored, in the order in which it stored them. *)
Stored == delivered \o recvBuf

(* What srt_server_recv hands over is in the order in which the client put  *)
(* it into segments, without a byte twice: whatever is lost, retransmitted, *)
(* dropped for want of buffer space or left over from an earlier connection.*)
InOrder ==
  \A i, j \in DOMAIN Stored : i < j => Stored[i] < Stored[j]

(* A byte whose segBuf the client frees because of a DATAACK is a byte the  *)
(* server has stored (srt_server_close discards what was not read): no      *)
(* DATAACK, however old, acknowledges what was lost.                        *)
AckedIsStored ==
  sState # "NULL" => \A b \in acked : \E i \in DOMAIN Stored : Stored[i] = b

(* The send buffer never frees the segBuf that sendBufunSent points to: a   *)
(* DATAACK covers sent segments only, although unAck_segNum drifts from     *)
(* their number and the timer moves sendBufunSent by it.                    *)
UnsentIsLive == unSent \in 0 .. Len(sendBuf)

(* While the send buffer holds a segment some sendBuf_timer is alive to     *)
(* retransmit it, although each one ends by its own look at the buffer      *)
(* (srt_client.c:715: "It should always be running when the send buffer is  *)
(* not empty").                                                             *)
TimerRuns == sendBuf # <<>> => timers > 0

(* The transport implements the ordered stream; every write of the abstract *)
(* stream is a segment put into the send buffer, and the reader resumes at  *)
(* the sequence number of an accepted SYN.                                  *)
Stream == INSTANCE OrderedStream
            WITH written <- queued, cursor <- expect_seqNum,
                 buffer <- recvBuf, read <- delivered

ImplementsStream == Stream!StreamSpec
=============================================================================
