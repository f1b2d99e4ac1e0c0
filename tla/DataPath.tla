------------------------------ MODULE DataPath ------------------------------
(***************************************************************************)
(* The way of a segment from the SRT process of one node to that of its    *)
(* neighbour, byte by byte (common/seg.c, common/pkt.c; waitTransport and  *)
(* pkthandler of network/network.c; waitNetwork and listen_to_neighbor of  *)
(* overlay/overlay.c): five TCP connections, on each of which a structure  *)
(* is sent between the delimiters !& and !# by three calls of send and     *)
(* read by a state machine that takes one byte at a time.                  *)
(*                                                                         *)
(* Several threads write to the same connection, and no lock is held over  *)
(* the three calls, nor by one call while it waits for room.               *)
(***************************************************************************)
EXTENDS Naturals, FiniteSets, SequencesExt

CONSTANTS
  Segments, Updates,  \* what is sent: segments, and packets of other threads
  Senders,            \* Senders[x]: the threads that may send x of themselves
  Bytes,              \* Bytes[x]: the bytes of x
  SegSize,            \* sizeof(seg_t), here the size of a packet's data too
  Stale,              \* values the uninitialised part of a buffer may have
  StreamCap,          \* bytes the buffers of a TCP connection have room for
  MaxFrames,          \* bound: frames that enter, repeated ones included
  MaxCloses,          \* bound: how often that process goes
  None

Items == Segments \cup Updates

Node == "."           \* a node ID, or a packet header: nothing to confuse
Char == {"!", "&", "#", Node} \cup UNION {Range(Bytes[x]) : x \in Items}

(* A byte that occurs in x only stands for the checksum: x can be taken for *)
(* received only if it was sent.                                            *)
ASSUME DataPathAssumption ==
  /\ \A x \in Items : Bytes[x] \in Seq(STRING) /\ Len(Bytes[x]) = SegSize
  /\ \A x \in Items : \E v \in Range(Bytes[x]) :
       /\ v \notin {"!", "&", "#", Node} \cup Stale
       /\ \A y \in Items \ {x} : v \notin Range(Bytes[y])
  /\ \A x \in Segments : Senders[x] \subseteq {"app", "timer"}
  /\ \A x \in Updates :
       Senders[x] \subseteq {"routeupdate_daemon", "otherListener"}
  /\ SegSize \in Nat /\ StreamCap \in Nat \ {0}
  /\ MaxFrames \in Nat /\ MaxCloses \in Nat
  /\ Stale \subseteq Char /\ Stale # {} /\ None \notin Items

Has(s, a, b) == \E i \in 1 .. Len(s) - 1 : s[i] = a /\ s[i + 1] = b

(* Nothing in x looks like a delimiter. *)
Clean(x) == ~Has(Bytes[x], "!", "#") /\ ~Has(Bytes[x], "!", "&")

VARIABLES
  fresh,      \* what has not been sent yet
  work,       \* work[t]: what the thread is sending
  stream,     \* stream[c]: bytes on connection c
  reader,     \* reader[c]: the state machine and its buffer
  last,       \* segment of waitTransport
  open,       \* an SRT process is connected to the first SNP process
  closes,     \* how often one has gone
  sent,       \* history: the segments in the order they enter
  got,        \* history: what snp_recvseg has returned
  excused,    \* history: what may be missing
  overlapped  \* history: connections on which two frames have overlapped

vars == <<fresh, work, stream, reader, last, open, closes, sent, got, excused,
          overlapped>>

(* The connections on the way, and who writes to them. *)
Out ==
  [app           |-> "srt_snp", timer              |-> "srt_snp",
   waitTransport |-> "snp_on",  routeupdate_daemon |-> "snp_on",
   waitNetwork   |-> "on_on",
   listener      |-> "on_snp",  otherListener      |-> "on_snp",
   pkthandler    |-> "snp_srt"]

Threads == DOMAIN Out
Conns == Range(Out)

(* sizeof(sendseg_arg_t), sizeof(sendpkt_arg_t), sizeof(snp_pkt_t) *)
Size == [srt_snp |-> SegSize + 1, snp_on |-> SegSize + 2,
         on_on |-> SegSize + 1, on_snp |-> SegSize + 1,
         snp_srt |-> SegSize + 1]

Idle == [left |-> <<>>, begun |-> FALSE, what |-> None]
Ready == [state |-> "PKTSTART1", buf |-> <<>>]

Init ==
  /\ fresh = Items
  /\ work = [t \in Threads |-> Idle]
  /\ stream = [c \in Conns |-> <<>>]
  /\ reader = [c \in Conns |-> Ready]
  /\ last = <<>>
  /\ open = TRUE /\ closes = 0
  /\ sent = <<>> /\ got = <<>>
  /\ excused = {x \in Items : ~Clean(x)} \cup {None}
  /\ overlapped = {}

----------------------------------------------------------------------------
(* Sending *)

(* Whose bytes these are, if they are anybody's. *)
ItemOf(bytes) ==
  IF \E x \in Items : Bytes[x] = bytes
    THEN CHOOSE x \in Items : Bytes[x] = bytes ELSE None

(* The three calls of send that a thread has to make for a structure. *)
Calls(body, data) ==
  [left |-> << <<"!", "&">>, body, <<"!", "#">> >>, begun |-> FALSE,
   what |-> ItemOf(data)]

(* mutant of Put: a send that was short is not continued *)
PutOnce(t) ==
  LET c == Out[t]
      room == StreamCap - Len(stream[c])
      call == Head(work[t].left)
      more == Tail(work[t].left)
  IN  /\ work[t].left # <<>> /\ room > 0
      /\ stream' = [stream EXCEPT ![c] =
           @ \o IF Len(call) <= room THEN call ELSE SubSeq(call, 1, room)]
      /\ work' = [work EXCEPT ![t] =
           IF more = <<>> THEN Idle
           ELSE [@ EXCEPT !.begun = TRUE, !.left = more]]

(* One call after the other, as much as there is room for. *)
Put(t) ==
  LET c == Out[t]
      room == StreamCap - Len(stream[c])
      call == Head(work[t].left)
      more == Tail(work[t].left)
      all == Len(call) <= room
  IN  /\ work[t].left # <<>> /\ room > 0
      /\ stream' = [stream EXCEPT ![c] =
           @ \o IF all THEN call ELSE SubSeq(call, 1, room)]
      /\ work' = [work EXCEPT ![t] =
           IF all /\ more = <<>> THEN Idle
           ELSE [@ EXCEPT
             !.begun = TRUE,
             !.left = IF all THEN more
                      ELSE <<SubSeq(call, room + 1, Len(call))>> \o more]]

(* Frames of two threads that overlap are excused. *)
Others(t) == {o \in Threads \ {t} : Out[o] = Out[t] /\ work[o].begun}

Send(t) ==
  /\ Put(t)
  /\ sent' = IF t \in {"app", "timer"} /\ ~work[t].begun
               THEN Append(sent, work[t].what) ELSE sent
  /\ IF Others(t) = {} THEN UNCHANGED <<excused, overlapped>>
     ELSE /\ excused' = excused \cup {work[o].what : o \in {t} \cup Others(t)}
          /\ overlapped' = overlapped \cup {Out[t]}
  /\ UNCHANGED <<fresh, reader, last, open, closes, got>>

(* What a thread is given to send. *)
snp_sendseg(seg) == Calls(<<Node>> \o seg, seg)
overlay_sendpkt(data) == Calls(<<Node, Node>> \o data, data)
sendpkt(data) == Calls(<<Node>> \o data, data)
forwardpktToSNP(data) == Calls(<<Node>> \o data, data)
forwardsegToSRT(seg) == Calls(<<Node>> \o seg, seg)

Give(t, calls) ==
  /\ work[t] = Idle
  /\ work' = [work EXCEPT ![t] = calls]

Entered == Cardinality(Items \ fresh) + closes

(* Threads that send of themselves: those of the SRT process;               *)
(* routeupdate_daemon, or pkthandler of the same process; and a thread that *)
(* listens to another neighbour.                                            *)
Enter(t, x) ==
  /\ x \in fresh /\ t \in Senders[x]
  /\ Entered < MaxFrames
  /\ \/ t \in {"app", "timer"} /\ open /\ Give(t, snp_sendseg(Bytes[x]))
     \/ t = "routeupdate_daemon" /\ Give(t, overlay_sendpkt(Bytes[x]))
     \/ t = "otherListener" /\ Give(t, forwardpktToSNP(Bytes[x]))
  /\ fresh' = fresh \ {x}
  /\ UNCHANGED <<stream, reader, last, open, closes, sent, got, excused,
                 overlapped>>

----------------------------------------------------------------------------
(* Receiving *)

(* mutant of Store: nothing stops idx *)
StoreUnbounded(r, b, next, c) == [state |-> next, buf |-> Append(r.buf, b)]

(* A byte is stored in a buffer of size + 2. *)
Store(r, b, next, c) ==
  IF Len(r.buf) < Size[c] + 2
    THEN [state |-> next, buf |-> Append(r.buf, b)]
    ELSE [r EXCEPT !.state = "overrun"]

(* mutant of InPktrecv: a ! is not stored before the next byte is known     *)
InPktrecvLate(r, b, c) ==
  IF b = "!" THEN [r EXCEPT !.state = "PKTSTOP1"]
  ELSE Store(r, b, "PKTRECV", c)

InPktrecv(r, b, c) == Store(r, b, IF b = "!" THEN "PKTSTOP1" ELSE "PKTRECV", c)

(* mutant of InPktstop1: a second ! cannot be the first of the delimiter    *)
InPktstop1Restart(r, b, c) ==
  Store(r, b, IF b = "#" THEN "complete" ELSE "PKTRECV", c)

InPktstop1(r, b, c) ==
  Store(r, b, CASE b = "#" -> "complete"
                [] b = "!" -> "PKTSTOP1"
                [] OTHER -> "PKTRECV", c)

(* The state machine of all five functions. *)
PutByte(r, b, c) ==
  CASE r.state = "PKTSTART1" ->
         IF b = "!" THEN [r EXCEPT !.state = "PKTSTART2"] ELSE r
    [] r.state = "PKTSTART2" ->
         [r EXCEPT !.state = IF b = "&" THEN "PKTRECV" ELSE "PKTSTART1"]
    [] r.state = "PKTRECV" -> InPktrecv(r, b, c)
    [] r.state = "PKTSTOP1" -> InPktstop1(r, b, c)

(* recv of one byte.  After an overrun nothing more is known. *)
Running(c) == reader[c].state # "overrun"

TakeByte(c) ==
  /\ Running(c) /\ stream[c] # <<>>
  /\ stream' = [stream EXCEPT ![c] = Tail(@)]

After(c) == PutByte(reader[c], Head(stream[c]), c)

(* What is copied out of the buffer; where nothing was stored it is stale.  *)
Contents(c, buf) ==
  {[i \in 1 .. Size[c] |-> IF i <= Len(buf) THEN buf[i] ELSE stale[i]] :
     stale \in [Len(buf) + 1 .. Size[c] -> Stale]}

Middle(c) ==
  /\ TakeByte(c) /\ After(c).state # "complete"
  /\ reader' = [reader EXCEPT ![c] = After(c)]

Returns(c) ==
  /\ TakeByte(c) /\ After(c).state = "complete"
  /\ reader' = [reader EXCEPT ![c] = Ready]

(* The data in what was read: the last SegSize bytes. *)
Data(s) == SubSeq(s, Len(s) - SegSize + 1, Len(s))

(* The thread that reads a connection, and is sending nothing meanwhile. *)
ReadBy == [srt_snp |-> "waitTransport", snp_on |-> "waitNetwork",
           on_on |-> "listener", on_snp |-> "pkthandler"]

Receive(c) ==
  /\ c \in DOMAIN ReadBy => work[ReadBy[c]] = Idle
  /\ Middle(c)
  /\ UNCHANGED <<fresh, work, last, open, closes, sent, got, excused,
                 overlapped>>

(* waitTransport: the segment goes into a packet to the next hop. *)
getsegToSend ==
  /\ Returns("srt_snp")
  /\ \E s \in Contents("srt_snp", After("srt_snp").buf) :
       /\ Give("waitTransport", overlay_sendpkt(Data(s)))
       /\ last' = Data(s)
  /\ UNCHANGED <<fresh, open, closes, sent, got, excused, overlapped>>

(* waitNetwork: the packet goes to the neighbour. *)
getpktToSend ==
  /\ Returns("snp_on")
  /\ \E s \in Contents("snp_on", After("snp_on").buf) :
       Give("waitNetwork", sendpkt(Data(s)))
  /\ UNCHANGED <<fresh, last, open, closes, sent, got, excused,
                 overlapped>>

(* listen_to_neighbor: to the SNP process. *)
recvpkt ==
  /\ Returns("on_on")
  /\ \E s \in Contents("on_on", After("on_on").buf) :
       Give("listener", forwardpktToSNP(Data(s)))
  /\ UNCHANGED <<fresh, last, open, closes, sent, got, excused,
                 overlapped>>

(* pkthandler: a segment for this node goes to the SRT process, a route     *)
(* update is handled here.  (Data that is no more what was sent is, if the  *)
(* header is intact, a segment's.)                                          *)
overlay_recvpkt ==
  /\ Returns("on_snp")
  /\ \E s \in Contents("on_snp", After("on_snp").buf) :
       IF ItemOf(Data(s)) \in Updates
         THEN work["pkthandler"] = Idle /\ UNCHANGED work
         ELSE Give("pkthandler", forwardsegToSRT(Data(s)))
  /\ UNCHANGED <<fresh, last, open, closes, sent, got, excused,
                 overlapped>>

(* mutant of snp_recvseg: the checksum is not looked at *)
RecvsegUnchecked ==
  /\ Returns("snp_srt")
  /\ \E s \in Contents("snp_srt", After("snp_srt").buf) :
       got' = Append(got, ItemOf(Data(s)))
  /\ UNCHANGED <<fresh, work, last, open, closes, sent, excused, overlapped>>

(* seghandler: what seglost drops or spoils, or the checksum shows to be no *)
(* segment, is left out.                                                    *)
snp_recvseg ==
  /\ Returns("snp_srt")
  /\ \E s \in Contents("snp_srt", After("snp_srt").buf) :
       LET x == ItemOf(Data(s))
       IN  \/ /\ x \in Segments
              /\ got' = Append(got, x) /\ UNCHANGED excused
           \/ /\ UNCHANGED got
              /\ excused' = excused \cup {x}
  /\ UNCHANGED <<fresh, work, last, open, closes, sent, overlapped>>

----------------------------------------------------------------------------
(* The SRT process is gone, in the middle of a frame perhaps.  What it has  *)
(* sent can still be read.                                                  *)
SrtCloses ==
  /\ open /\ closes < MaxCloses /\ Entered < MaxFrames
  /\ open' = FALSE /\ closes' = closes + 1
  /\ work' = [work EXCEPT !["app"] = Idle, !["timer"] = Idle]
  /\ excused' = excused \cup {work["app"].what, work["timer"].what}
  /\ UNCHANGED <<fresh, stream, reader, last, sent, got, overlapped>>

(* getsegToSend fails, waitTransport accepts the next SRT process and sends *)
(* what segment holds: the previous one, or nothing that was ever written.  *)
waitTransport ==
  /\ ~open /\ Running("srt_snp") /\ stream["srt_snp"] = <<>>
  /\ open' = TRUE
  /\ reader' = [reader EXCEPT !["srt_snp"] = Ready]
  /\ \E data \in IF last = <<>> THEN [1 .. SegSize -> Stale] ELSE {last} :
       /\ Give("waitTransport", overlay_sendpkt(data))
       /\ sent' = Append(sent, ItemOf(data))
       /\ last' = data
  /\ UNCHANGED <<fresh, stream, closes, got, excused, overlapped>>

(* What the threads do once they have something to send or to read. *)
Relay ==
  \/ \E t \in Threads : Send(t)
  \/ \E c \in Conns : Receive(c)
  \/ getsegToSend \/ getpktToSend \/ recvpkt \/ overlay_recvpkt \/ snp_recvseg

Next ==
  \/ Relay
  \/ \E t \in Threads, x \in Items : Enter(t, x)
  \/ SrtCloses \/ waitTransport

Spec == Init /\ [][Next]_vars

(* Some thread that can run does; nothing makes anybody enter a segment,    *)
(* stop, or connect.                                                        *)
FairSpec == Spec /\ WF_vars(Relay)

----------------------------------------------------------------------------
Jobs == [left : Seq(Seq(Char) \ {<<>>}), begun : BOOLEAN,
         what : Items \cup {None}]

Readers == [state : {"PKTSTART1", "PKTSTART2", "PKTRECV", "PKTSTOP1",
                     "overrun"},
            buf : Seq(Char)]

(* Every variable has a value the code can give it: three calls of send at  *)
(* most are left, no buffer of a connection or of a reader is overfull.     *)
TypeOK ==
  /\ fresh \subseteq Items
  /\ work \in [Threads -> Jobs]
  /\ \A t \in Threads : Len(work[t].left) <= 3
  /\ stream \in [Conns -> Seq(Char)]
  /\ \A c \in Conns : Len(stream[c]) <= StreamCap
  /\ reader \in [Conns -> Readers]
  /\ \A c \in Conns : Len(reader[c].buf) <= Size[c] + 2
  /\ last = <<>> \/ last \in [1 .. SegSize -> Char]
  /\ open \in BOOLEAN /\ closes \in 0 .. MaxCloses
  /\ sent \in Seq(Segments \cup {None}) /\ got \in Seq(Segments)
  /\ excused \subseteq Items \cup {None} /\ overlapped \subseteq Conns

(* buf[sizeof + 2] is enough: no reader writes beyond it unless the frames  *)
(* of two threads have overlapped on its connection.                        *)
BufferSuffices == \A c \in Conns : Running(c) \/ c \in overlapped

(* What a thread passes on is what another was asked to send, unless frames *)
(* have overlapped, a delimiter was among the data, or waitTransport has    *)
(* sent a segment it never had.                                             *)
NothingBogus ==
  \A t \in Threads :
    work[t] # Idle /\ work[t].what = None =>
      \/ overlapped # {} \/ None \in Range(sent)
      \/ \E x \in Items \ fresh : ~Clean(x)

(* No frames have overlapped; and if waitTransport has sent a segment it    *)
(* never had, there was no delimiter in any other.                          *)
Unmixed ==
  /\ overlapped = {}
  /\ None \in Range(sent) => \A x \in Range(sent) : x = None \/ Clean(x)

(* Until frames are mixed, segments reach the other SRT process in the      *)
(* order in which they were sent, none of them more often than it was sent  *)
(* or repeated by waitTransport; and none is missing before one that has    *)
(* arrived, but those that were cut when the SRT process closed, hold a     *)
(* delimiter, or were dropped by seglost.                                   *)
Intact ==
  Unmixed =>
    \E kept \in [DOMAIN got -> DOMAIN sent] :
      /\ \A i, j \in DOMAIN got : i < j => kept[i] < kept[j]
      /\ \A i \in DOMAIN got : got[i] = sent[kept[i]]
      /\ \A i \in DOMAIN got, k \in DOMAIN sent :
           k < kept[i] /\ sent[k] \notin excused =>
             \E j \in DOMAIN got : kept[j] = k

Due(s) == SelectSeq(s, LAMBDA x : x \notin excused)

(* Those that are not excused arrive, whatever frames were cut or spoiled   *)
(* before them, unless a buffer has been overrun.                           *)
Arrives == <>[](Due(got) = Due(sent) \/ \E c \in Conns : ~Running(c))
=============================================================================
