------------------------------ MODULE SrtBase ------------------------------
(***************************************************************************)
(* What the two ends of an SRT connection share: the protocol constants of *)
(* common/constants.h, the segments of common/seg.h and the two directions *)
(* of the network between the client's and the server's seghandler.        *)
(*                                                                         *)
(* A payload is abstracted to where its bytes stand in the stream of bytes *)
(* the client has put into segments: "pos" is the number of bytes queued   *)
(* before the segment, never reduced modulo anything, so a segment carries *)
(* the bytes pos+1 .. pos+len.  The header field "seq" is the counter of   *)
(* the code and wraps at SEQ_MOD (2^32 there).                              *)
(***************************************************************************)
EXTENDS Naturals, SequencesExt

CONSTANTS
  MAX_SEG_LEN,        \* bytes in a full segment
  GBN_WINDOW,         \* Go-Back-N window, in segments
  RECEIVE_BUF_SIZE,   \* bytes in the server's receive buffer
  SYN_MAX_RETRY,      \* SYN retransmissions in srt_client_connect
  FIN_MAX_RETRY,      \* FIN retransmissions in srt_client_disconnect
  SEQ_MOD,             \* sequence numbers are unsigned int: 0 .. SEQ_MOD-1
  UINT_MOD,            \* unAck_segNum is an unsigned int: 0 .. UINT_MOD-1
  NetCap,             \* bound: segments in flight in each direction
  Reroute             \* TRUE: a route change lets a segment overtake others

VARIABLES
  c2s,                \* segments on their way to the server
  s2c                 \* segments on their way to the client

netVars == <<c2s, s2c>>

SegTypes == {"SYN", "SYNACK", "FIN", "FINACK", "DATA", "DATAACK"}

Segments == [type : SegTypes, seq : Nat, pos : Nat, len : Nat]

ControlSeg(type, seq) == [type |-> type, seq |-> seq, pos |-> 0, len |-> 0]

DataSeg(seq, pos, len) ==
  [type |-> "DATA", seq |-> seq, pos |-> pos, len |-> len]

(* The bytes of a DATA segment, in order. *)
Payload(seg) == [i \in 1 .. seg.len |-> seg.pos + i]

(* Advancing a sequence number: unsigned addition. *)
SeqAdd(seq, len) ==
  IF seq + len < SEQ_MOD THEN seq + len ELSE seq + len - SEQ_MOD

(* mutant of Transmit: the newest segments come out first *)
TransmitLast(ch, segs) ==
  LET all == segs \o ch
  IN  IF Len(all) <= NetCap THEN all ELSE SubSeq(all, 1, NetCap)

(* snp_sendseg of the segments segs, one after the other.  A segment that   *)
(* finds NetCap others in flight is lost, as seglost may lose any.          *)
Transmit(ch, segs) ==
  LET all == ch \o segs
  IN  IF Len(all) <= NetCap THEN all ELSE SubSeq(all, 1, NetCap)

(* The segments the receiver may get next.  Every hop is a TCP connection   *)
(* and every process forwards with one thread, so a fixed route keeps the   *)
(* order; when the routing table changes a later segment may overtake.      *)
Deliverable(ch) == IF Reroute THEN DOMAIN ch ELSE DOMAIN ch \cap {1}

NetInit == c2s = <<>> /\ s2c = <<>>

ASSUME ConstantsAssumption ==
  /\ MAX_SEG_LEN \in Nat \ {0}
  /\ GBN_WINDOW \in Nat
  /\ RECEIVE_BUF_SIZE \in Nat
  /\ SYN_MAX_RETRY \in Nat
  /\ FIN_MAX_RETRY \in Nat
  /\ SEQ_MOD \in Nat /\ MAX_SEG_LEN < SEQ_MOD
  /\ UINT_MOD \in Nat /\ GBN_WINDOW + 1 < UINT_MOD
  /\ NetCap \in Nat
  /\ Reroute \in BOOLEAN
=============================================================================
