--------------------------- MODULE DataPathProofs ---------------------------
(***************************************************************************)
(* The framing of a structure between !& and !#, proved for every size,    *)
(* every data, every capacity of a connection and any number of frames;    *)
(* in what order segments arrive, and which can be missing;                *)
(* and what the checksum of a segment finds, proved for every segment and  *)
(* every size of a word.                                                   *)
(***************************************************************************)
EXTENDS DataPath, Checksum, TLAPS, SequenceTheorems, WellFoundedInduction

LEMMA Names ==
  /\ Threads = {"app", "timer", "waitTransport", "routeupdate_daemon",
                "waitNetwork", "listener", "otherListener", "pkthandler"}
  /\ Conns = {"srt_snp", "snp_on", "on_on", "on_snp", "snp_srt"}
  /\ \A t \in Threads : Out[t] \in Conns
BY DEF Threads, Conns, Out, Range

LEMMA Sizes ==
  /\ SegSize \in Nat /\ StreamCap \in Nat \ {0}
  /\ \A c \in Conns : Size[c] = SegSize + (IF c = "snp_on" THEN 2 ELSE 1)
BY DataPathAssumption, Names DEF Size

----------------------------------------------------------------------------
(* Frames *)

(* Byte k of the frame in which data is sent on connection c. *)
Datas == [1 .. SegSize -> Char]
LengthOf(c) == Size[c] + 4
Header(c) == Size[c] - SegSize

FrameByte(c, data, k) ==
  IF k = 1 \/ k = Size[c] + 3 THEN "!"
  ELSE IF k = 2 THEN "&"
  ELSE IF k = Size[c] + 4 THEN "#"
  ELSE IF k <= Header(c) + 2 THEN Node
  ELSE data[k - Header(c) - 2]

Part(c, data, i, j) ==
  [m \in 1 .. j - i + 1 |-> FrameByte(c, data, i + m - 1)]

(* Where the call of send that sends byte k ends; and what calls are left,  *)
(* or parts of them, from byte k on.                                        *)
CallEnd(c, k) ==
  IF k <= 2 THEN 2 ELSE IF k <= Size[c] + 2 THEN Size[c] + 2 ELSE LengthOf(c)

LeftOf(c, data, k) ==
  LET first  == Part(c, data, k, 2)
      second == Part(c, data, IF k > 2 THEN k ELSE 3, Size[c] + 2)
      third  == Part(c, data, IF k > Size[c] + 2 THEN k ELSE Size[c] + 3,
                     LengthOf(c))
  IN  IF k <= 2 THEN << first, second, third >>
      ELSE IF k <= Size[c] + 2 THEN << second, third >>
      ELSE << third >>

LEMMA Lengths ==
  ASSUME NEW c \in Conns
  PROVE  /\ Size[c] \in Nat /\ Size[c] >= 1 /\ LengthOf(c) = Size[c] + 4
         /\ LengthOf(c) \in Nat /\ Header(c) \in {1, 2}
         /\ SegSize = Size[c] - Header(c)
BY Sizes DEF LengthOf, Header

(* A function on 1 .. n is a sequence. *)
LEMMA FunctionIsSeq ==
  ASSUME NEW S, NEW n \in Nat, NEW f \in [1 .. n -> S]
  PROVE  f \in Seq(S) /\ Len(f) = n /\ DOMAIN f = 1 .. n
OBVIOUS

LEMMA FrameBytes ==
  ASSUME NEW S, {"!", "&", "#", Node} \subseteq S, NEW c \in Conns,
         NEW data \in [1 .. SegSize -> S], NEW k \in 1 .. LengthOf(c)
  PROVE  FrameByte(c, data, k) \in S
BY Lengths DEF FrameByte

LEMMA Parts ==
  ASSUME NEW S, {"!", "&", "#", Node} \subseteq S, NEW c \in Conns,
         NEW data \in [1 .. SegSize -> S],
         NEW i \in 1 .. LengthOf(c) + 1, NEW j \in i - 1 .. LengthOf(c)
  PROVE  /\ Part(c, data, i, j) \in Seq(S)
         /\ Part(c, data, i, j) \in [1 .. j - i + 1 -> S]
         /\ Len(Part(c, data, i, j)) = j - i + 1
<1>1. j - i + 1 \in Nat
  BY Lengths
<1>2. \A m \in 1 .. j - i + 1 : FrameByte(c, data, i + m - 1) \in S
  BY FrameBytes, Lengths
<1>3. Part(c, data, i, j) \in [1 .. j - i + 1 -> S]
  BY <1>2 DEF Part
<1> QED
  BY <1>1, <1>3, FunctionIsSeq

(* What send leaves of a call. *)
LEMMA PartOfPart ==
  ASSUME NEW c \in Conns, NEW data \in Datas,
         NEW i \in 1 .. LengthOf(c), NEW j \in i .. LengthOf(c),
         NEW n \in 1 .. j - i
  PROVE  LET call == Part(c, data, i, j)
         IN  /\ SubSeq(call, 1, n) = Part(c, data, i, i + n - 1)
             /\ SubSeq(call, n + 1, Len(call)) = Part(c, data, i + n, j)
<1> DEFINE call == Part(c, data, i, j)
<1>0. {"!", "&", "#", Node} \subseteq Char
  BY DEF Char
<1>1. /\ call \in Seq(Char) /\ Len(call) = j - i + 1
      /\ \A m \in 1 .. j - i + 1 : call[m] = FrameByte(c, data, i + m - 1)
  <2>1. data \in [1 .. SegSize -> Char] /\ i \in 1 .. LengthOf(c) + 1
        /\ j \in i - 1 .. LengthOf(c)
    BY Lengths DEF Datas
  <2>2. call \in Seq(Char) /\ Len(call) = j - i + 1
    BY <1>0, <2>1, Parts
  <2> QED
    BY <2>2 DEF Part
<1>2. SubSeq(call, 1, n) = [m \in 1 .. n |-> call[m]]
  BY <1>1, Lengths
<1>3. SubSeq(call, n + 1, Len(call)) = [m \in 1 .. j - i + 1 - n |-> call[n + m]]
  BY <1>1, Lengths
<1>4. /\ \A m \in 1 .. n : call[m] = FrameByte(c, data, i + m - 1)
      /\ \A m \in 1 .. j - i + 1 - n :
           call[n + m] = FrameByte(c, data, i + n + m - 1)
  <2>1. \A m \in 1 .. n : m \in 1 .. j - i + 1
    BY Lengths
  <2>2. \A m \in 1 .. j - i + 1 - n :
          n + m \in 1 .. j - i + 1 /\ i + (n + m) - 1 = i + n + m - 1
    BY Lengths
  <2> QED
    BY <1>1, <2>1, <2>2
<1>5. (i + n - 1) - i + 1 = n /\ j - (i + n) + 1 = j - i + 1 - n
  BY Lengths
<1> QED
  BY <1>2, <1>3, <1>4, <1>5 DEF Part

(* What is left begins with a part, and goes on after it. *)
LEMMA Lefts ==
  ASSUME NEW c \in Conns, NEW data \in Datas, NEW k \in 1 .. LengthOf(c)
  PROVE  LET left == LeftOf(c, data, k)
             e == CallEnd(c, k)
         IN  /\ e \in k .. LengthOf(c)
             /\ left # <<>> /\ left # Idle.left
             /\ Head(left) = Part(c, data, k, e)
             /\ e = LengthOf(c) <=> Tail(left) = <<>>
             /\ e # LengthOf(c) => Tail(left) = LeftOf(c, data, e + 1)
             /\ \A n \in k + 1 .. e :
                  LeftOf(c, data, n) = << Part(c, data, n, e) >> \o Tail(left)
<1> DEFINE left == LeftOf(c, data, k)
           e == CallEnd(c, k)
           second == Part(c, data, 3, Size[c] + 2)
           third == Part(c, data, Size[c] + 3, LengthOf(c))
<1>0. /\ Size[c] \in Nat /\ Size[c] >= 1 /\ LengthOf(c) = Size[c] + 4
  BY Lengths
<1>1. CASE k <= 2
  <2>1. left = << Part(c, data, k, 2), second, third >> /\ e = 2
    BY <1>0, <1>1 DEF LeftOf, CallEnd
  <2>2. Tail(left) = << second, third >>
    BY <2>1
  <2>3. LeftOf(c, data, 3) = << second, third >>
    BY <1>0 DEF LeftOf
  <2>4. \A n \in k + 1 .. e :
          LeftOf(c, data, n) = << Part(c, data, n, 2), second, third >>
    BY <1>0, <1>1, <2>1 DEF LeftOf
  <2>5. e \in k .. LengthOf(c) /\ e # LengthOf(c) /\ Tail(left) # <<>>
    BY <1>0, <1>1, <2>1, <2>2
  <2>6. \A x : << x, second, third >> = << x >> \o << second, third >>
    OBVIOUS
  <2> HIDE DEF second, third
  <2> QED
    BY <2>1, <2>2, <2>3, <2>4, <2>5, <2>6 DEF Idle
<1>2. CASE k > 2 /\ k <= Size[c] + 2
  <2>1. left = << Part(c, data, k, Size[c] + 2), third >> /\ e = Size[c] + 2
    BY <1>0, <1>2 DEF LeftOf, CallEnd
  <2>2. Tail(left) = << third >>
    BY <2>1
  <2>3. LeftOf(c, data, Size[c] + 3) = << third >>
    BY <1>0 DEF LeftOf
  <2>4. \A n \in k + 1 .. e :
          LeftOf(c, data, n) = << Part(c, data, n, Size[c] + 2), third >>
    BY <1>0, <1>2, <2>1 DEF LeftOf
  <2>5. e \in k .. LengthOf(c) /\ e # LengthOf(c) /\ Tail(left) # <<>>
        /\ e + 1 = Size[c] + 3
    BY <1>0, <1>2, <2>1, <2>2
  <2>6. \A x : << x, third >> = << x >> \o << third >>
    OBVIOUS
  <2> HIDE DEF third
  <2> QED
    BY <2>1, <2>2, <2>3, <2>4, <2>5, <2>6 DEF Idle
<1>3. CASE k > Size[c] + 2
  <2>1. left = << Part(c, data, k, LengthOf(c)) >> /\ e = LengthOf(c)
    BY <1>0, <1>3 DEF LeftOf, CallEnd
  <2>2. Tail(left) = <<>>
    BY <2>1
  <2>4. \A n \in k + 1 .. e :
          LeftOf(c, data, n) = << Part(c, data, n, LengthOf(c)) >>
    BY <1>0, <1>3, <2>1 DEF LeftOf
  <2>5. e \in k .. LengthOf(c) /\ left # <<>>
    BY <1>0, <1>3, <2>1
  <2>6. \A x : << x >> = << x >> \o << >>
    OBVIOUS
  <2> QED
    BY <2>1, <2>2, <2>4, <2>5, <2>6 DEF Idle
<1> QED
  BY <1>0, <1>1, <1>2, <1>3

(* Bytes k to j of a frame are sent, and those after them are left. *)
SendsPart(t, data, k, j) ==
  /\ j - k + 1 <= StreamCap - Len(stream[Out[t]])
  /\ stream' = [stream EXCEPT ![Out[t]] = @ \o Part(Out[t], data, k, j)]
  /\ work' = [work EXCEPT ![t] =
       IF j = LengthOf(Out[t]) THEN Idle
       ELSE [@ EXCEPT !.begun = TRUE, !.left = LeftOf(Out[t], data, j + 1)]]

(* A thread that has begun to send a frame goes on with it: some more of    *)
(* its bytes, and what is left is what comes after them.                    *)
LEMMA PutExtends ==
  ASSUME NEW t \in Threads, NEW data \in Datas, NEW k \in 1 .. LengthOf(Out[t]),
         work[t].left = LeftOf(Out[t], data, k), Put(t), TypeOK
  PROVE  \E j \in k .. LengthOf(Out[t]) : SendsPart(t, data, k, j)
<1> DEFINE c == Out[t]
           room == StreamCap - Len(stream[c])
           call == Head(work[t].left)
           more == Tail(work[t].left)
           e == CallEnd(c, k)
<1>0. c \in Conns
  BY Names
<1>1. /\ e \in k .. LengthOf(c) /\ call = Part(c, data, k, e)
      /\ e = LengthOf(c) <=> more = <<>>
      /\ e # LengthOf(c) => more = LeftOf(c, data, e + 1)
      /\ \A n \in k + 1 .. e :
           LeftOf(c, data, n) = << Part(c, data, n, e) >> \o more
  BY <1>0, Lefts
<1>2. room \in Nat /\ room > 0
  BY <1>0, Sizes DEF TypeOK, Put
<1>3. LengthOf(c) \in Nat /\ k \in Nat /\ e \in Nat /\ k <= e
      /\ e <= LengthOf(c)
  BY <1>0, <1>1, Lengths
<1>3a. Len(call) = e - k + 1
  BY <1>1, <1>3, FunctionIsSeq DEF Part
<1>4. CASE Len(call) <= room
  <2>1. stream' = [stream EXCEPT ![c] = @ \o Part(c, data, k, e)]
    BY <1>1, <1>4 DEF Put
  <2>2. work' = [work EXCEPT ![t] =
          IF more = <<>> THEN Idle ELSE [@ EXCEPT !.begun = TRUE, !.left = more]]
    BY <1>4 DEF Put
  <2> HIDE DEF c, more, e
  <2>3. work' = [work EXCEPT ![t] =
          IF e = LengthOf(c) THEN Idle
          ELSE [@ EXCEPT !.begun = TRUE, !.left = LeftOf(c, data, e + 1)]]
    BY <1>1, <2>2
  <2> QED
    BY <1>1, <1>3a, <1>4, <2>1, <2>3 DEF c, SendsPart
<1>5. CASE ~(Len(call) <= room)
  <2> DEFINE j == k + room - 1
  <2>1. j \in k .. e - 1 /\ j \in k .. LengthOf(c) /\ j # LengthOf(c)
        /\ room \in 1 .. e - k /\ k + room = j + 1 /\ j + 1 \in k + 1 .. e
    <3> HIDE DEF c, e, room, call
    <3> QED
      BY <1>1, <1>2, <1>3, <1>3a, <1>5
  <2>1a. j - k + 1 <= room
    BY <1>2, <1>3
  <2>2. /\ SubSeq(call, 1, room) = Part(c, data, k, j)
        /\ SubSeq(call, room + 1, Len(call)) = Part(c, data, j + 1, e)
    <3>1. k \in 1 .. LengthOf(c) /\ e \in k .. LengthOf(c) /\ room \in 1 .. e - k
          /\ k + room - 1 = j
      BY <1>1, <2>1
    <3>2. call = Part(c, data, k, e) /\ c \in Conns
      BY <1>0, <1>1
    <3> HIDE DEF c, e, room, call, j
    <3>3. /\ SubSeq(Part(c, data, k, e), 1, room) = Part(c, data, k, k + room - 1)
          /\ SubSeq(Part(c, data, k, e), room + 1, Len(Part(c, data, k, e)))
               = Part(c, data, k + room, e)
      BY <3>1, <3>2, PartOfPart
    <3> QED
      BY <2>1, <3>1, <3>2, <3>3
  <2>3. stream' = [stream EXCEPT ![c] = @ \o Part(c, data, k, j)]
    BY <1>5, <2>2 DEF Put
  <2>4. work' = [work EXCEPT ![t] =
          [@ EXCEPT !.begun = TRUE,
                    !.left = << SubSeq(call, room + 1, Len(call)) >> \o more]]
    BY <1>5 DEF Put
  <2>5. << SubSeq(call, room + 1, Len(call)) >> \o more = LeftOf(c, data, j + 1)
    BY <1>1, <2>1, <2>2
  <2> HIDE DEF c, more, e, call, room, j
  <2>6. work' = [work EXCEPT ![t] =
          IF j = LengthOf(c) THEN Idle
          ELSE [@ EXCEPT !.begun = TRUE, !.left = LeftOf(c, data, j + 1)]]
    BY <2>1, <2>4, <2>5
  <2> QED
    BY <2>1, <2>1a, <2>3, <2>6 DEF c, room, SendsPart
<1> QED
  BY <1>4, <1>5

(* What a thread is given to send is a frame of which no byte is sent. *)
LEMMA CallsAreFrames ==
  ASSUME NEW c \in Conns, NEW data \in Datas
  PROVE  << << "!", "&" >>,
            (IF c = "snp_on" THEN << Node, Node >> ELSE << Node >>) \o data,
            << "!", "#" >> >> = LeftOf(c, data, 1)
<1> DEFINE n == Size[c]  h == Header(c)
           head == IF c = "snp_on" THEN << Node, Node >> ELSE << Node >>
<1>0. n \in Nat /\ n >= 1 /\ LengthOf(c) = n + 4 /\ h \in {1, 2}
      /\ SegSize = n - h /\ SegSize \in Nat
  BY Lengths, Sizes
<1>1. LeftOf(c, data, 1) = << Part(c, data, 1, 2), Part(c, data, 3, n + 2),
                              Part(c, data, n + 3, n + 4) >>
  BY <1>0 DEF LeftOf
<1>2. Part(c, data, 1, 2) = << "!", "&" >>
  <2>1. Part(c, data, 1, 2) = [m \in 1 .. 2 |-> FrameByte(c, data, m)]
    BY DEF Part
  <2>2. FrameByte(c, data, 1) = "!" /\ FrameByte(c, data, 2) = "&"
    BY <1>0 DEF FrameByte
  <2> QED
    BY <2>1, <2>2
<1>3. Part(c, data, n + 3, n + 4) = << "!", "#" >>
  <2>1. Part(c, data, n + 3, n + 4)
          = [m \in 1 .. 2 |-> FrameByte(c, data, n + 2 + m)]
    <3>1. (n + 4) - (n + 3) + 1 = 2
          /\ \A m \in 1 .. 2 : n + 3 + m - 1 = n + 2 + m
      BY <1>0
    <3> QED
      BY <3>1 DEF Part
  <2>2. FrameByte(c, data, n + 2 + 1) = "!" /\ FrameByte(c, data, n + 2 + 2) = "#"
    BY <1>0 DEF FrameByte
  <2> QED
    BY <2>1, <2>2
<1>4. Part(c, data, 3, n + 2) = head \o data
  <2>0. h = IF c = "snp_on" THEN 2 ELSE 1
    BY Sizes DEF Header
  <2>1. head \in Seq(Char) /\ Len(head) = h /\ \A i \in 1 .. h : head[i] = Node
    <3>1. Node \in Char
      BY DEF Char
    <3>2. CASE c = "snp_on"
      BY <2>0, <3>1, <3>2
    <3>3. CASE c # "snp_on"
      BY <2>0, <3>1, <3>3
    <3> QED
      BY <3>2, <3>3
  <2>2. data \in Seq(Char) /\ Len(data) = SegSize
    BY <1>0, FunctionIsSeq DEF Datas
  <2>3. /\ head \o data \in Seq(Char) /\ Len(head \o data) = n
        /\ \A i \in 1 .. n :
             (head \o data)[i] = IF i <= h THEN Node ELSE data[i - h]
    BY <1>0, <2>1, <2>2
  <2>4. \A i \in 1 .. n :
          FrameByte(c, data, 3 + i - 1) = IF i <= h THEN Node ELSE data[i - h]
    <3> SUFFICES ASSUME NEW i \in 1 .. n
                 PROVE  FrameByte(c, data, 3 + i - 1)
                          = IF i <= h THEN Node ELSE data[i - h]
      OBVIOUS
    <3>1. 3 + i - 1 = i + 2 /\ (i + 2) - h - 2 = i - h
          /\ (i + 2 <= h + 2 <=> i <= h)
      BY <1>0
    <3> QED
      BY <1>0, <3>1 DEF FrameByte
  <2>5. Part(c, data, 3, n + 2)
          = [i \in 1 .. n |-> IF i <= h THEN Node ELSE data[i - h]]
    <3>1. (n + 2) - 3 + 1 = n
      BY <1>0
    <3> QED
      BY <3>1, <2>4 DEF Part
  <2>6. head \o data = [i \in 1 .. n |-> IF i <= h THEN Node ELSE data[i - h]]
    BY <1>0, <2>3
  <2> QED
    BY <2>5, <2>6
<1> QED
  BY <1>1, <1>2, <1>3, <1>4

----------------------------------------------------------------------------
(* Readers *)

(* A delimiter in data, as Clean says it of an item. *)
Plain(data) == ~Has(data, "!", "#")

(* What a reader on connection c holds after byte k of the frame of data,   *)
(* if it was ready for its first byte.                                      *)
Reads(c, r, k, data) ==
  /\ r.state \in {"PKTSTART1", "PKTSTART2", "PKTRECV", "PKTSTOP1"}
  /\ r.buf \in Seq(Char)
  /\ k = LengthOf(c) => r = Ready
  /\ r.state \in {"PKTSTART1", "PKTSTART2"} => r.buf = <<>>
  /\ Len(r.buf) <= (IF k <= 2 THEN 0 ELSE k - 2)
  /\ k = 1 => r.state = "PKTSTART2"
  /\ k = LengthOf(c) - 1 =>
       r.state \in {"PKTSTART1", "PKTSTART2", "PKTSTOP1"}
  /\ Plain(data) /\ k \in 2 .. LengthOf(c) - 1 =>
       /\ r.buf = Part(c, data, 3, k)
       /\ r.state = IF k > 2 /\ FrameByte(c, data, k) = "!"
                      THEN "PKTSTOP1" ELSE "PKTRECV"

LEMMA PartAppends ==
  ASSUME NEW c \in Conns, NEW data \in Datas, NEW k \in 2 .. LengthOf(c) - 1
  PROVE  Append(Part(c, data, 3, k), FrameByte(c, data, k + 1))
           = Part(c, data, 3, k + 1)
<1>0. {"!", "&", "#", Node} \subseteq Char
  BY DEF Char
<1> DEFINE s == Part(c, data, 3, k)
<1>1. k \in Nat /\ k - 2 \in Nat
  BY Lengths
<1>2. s = [m \in 1 .. k - 2 |-> FrameByte(c, data, m + 2)]
  <2>1. k - 3 + 1 = k - 2 /\ \A m \in 1 .. k - 2 : 3 + m - 1 = m + 2
    BY <1>1
  <2> QED
    BY <2>1 DEF Part
<1>3. Part(c, data, 3, k + 1) = [m \in 1 .. k - 1 |-> FrameByte(c, data, m + 2)]
  <2>1. (k + 1) - 3 + 1 = k - 1 /\ \A m \in 1 .. k - 1 : 3 + m - 1 = m + 2
    BY <1>1
  <2> QED
    BY <2>1 DEF Part
<1>4. s \in Seq(Char) /\ Len(s) = k - 2
  <2>1. 3 \in 1 .. LengthOf(c) + 1 /\ k \in 3 - 1 .. LengthOf(c)
        /\ k - 3 + 1 = k - 2
    BY <1>1, Lengths
  <2> QED
    BY <1>0, <2>1, Parts DEF Datas
<1> DEFINE b == FrameByte(c, data, k + 1)
<1>5. b \in Char
  BY <1>0, FrameBytes, Lengths DEF Datas
<1> HIDE DEF s, b
<1>6. Append(s, b) = [m \in 1 .. k - 1 |-> IF m = k - 1 THEN b ELSE s[m]]
  <2>1. /\ Append(s, b) \in Seq(Char) /\ Len(Append(s, b)) = k - 1
        /\ \A i \in 1 .. k - 2 : Append(s, b)[i] = s[i]
        /\ Append(s, b)[k - 1] = b
    <3>1. /\ Append(s, b) \in Seq(Char) /\ Len(Append(s, b)) = Len(s) + 1
          /\ \A i \in 1 .. Len(s) : Append(s, b)[i] = s[i]
          /\ Append(s, b)[Len(s) + 1] = b
      BY <1>4, <1>5, AppendProperties
    <3>2. k - 2 + 1 = k - 1
      BY <1>1
    <3> QED
      BY <1>4, <3>1, <3>2
  <2>2. Append(s, b) = [m \in 1 .. k - 1 |-> Append(s, b)[m]]
    <3>1. Append(s, b) \in [1 .. k - 1 -> Char]
      BY <2>1, LenProperties
    <3> QED
      BY <3>1
  <2>3. \A m \in 1 .. k - 1 : Append(s, b)[m] = IF m = k - 1 THEN b ELSE s[m]
    BY <1>1, <2>1
  <2> QED
    BY <2>2, <2>3
<1>7. \A m \in 1 .. k - 1 :
        (IF m = k - 1 THEN b ELSE s[m]) = FrameByte(c, data, m + 2)
  BY <1>1, <1>2 DEF b
<1> QED
  BY <1>3, <1>6, <1>7 DEF s, b

LEMMA FirstByte ==
  ASSUME NEW c \in Conns, NEW data \in Datas
  PROVE  LET q == PutByte(Ready, FrameByte(c, data, 1), c)
         IN  q.state = "PKTSTART2" /\ q \in Readers /\ Reads(c, q, 1, data)
<1>1. FrameByte(c, data, 1) = "!"
  BY DEF FrameByte
<1>2. PutByte(Ready, "!", c) = [state |-> "PKTSTART2", buf |-> <<>>]
  BY DEF PutByte, Ready
<1>3. 1 # LengthOf(c) /\ 1 # LengthOf(c) - 1 /\ 1 \notin 2 .. LengthOf(c) - 1
  BY Lengths
<1> DEFINE q == [state |-> "PKTSTART2", buf |-> <<>>]
<1>4. q \in Readers /\ q.state = "PKTSTART2" /\ q.buf = <<>>
      /\ Len(q.buf) = 0 /\ q.buf \in Seq(Char)
  BY DEF Readers
<1> HIDE DEF q
<1>5. Reads(c, q, 1, data)
  BY <1>3, <1>4 DEF Reads
<1> QED
  BY <1>1, <1>2, <1>4, <1>5 DEF q

LEMMA NextByte ==
  ASSUME NEW c \in Conns, NEW data \in Datas, NEW k \in 1 .. LengthOf(c) - 1,
         NEW r \in Readers, Reads(c, r, k, data)
  PROVE  LET q == PutByte(r, FrameByte(c, data, k + 1), c)
         IN  /\ q.state # "overrun" /\ q.buf \in Seq(Char)
             /\ q.state # "complete" =>
                  q \in Readers /\ Reads(c, q, k + 1, data)
             /\ q.state = "complete" =>
                  /\ Reads(c, Ready, k + 1, data)
                  /\ Len(q.buf) <= Size[c] + 2
                  /\ Plain(data) => q.buf = Part(c, data, 3, LengthOf(c))
<1> DEFINE b == FrameByte(c, data, k + 1)
           q == PutByte(r, b, c)
           n == Size[c]
<1>0. /\ n \in Nat /\ n >= 1 /\ LengthOf(c) = n + 4 /\ k \in Nat
      /\ k >= 1 /\ k < n + 4 /\ r \in Readers
  BY Lengths
<1>1. b \in Char
  <2>1. {"!", "&", "#", Node} \subseteq Char /\ k + 1 \in 1 .. LengthOf(c)
    BY <1>0 DEF Char
  <2> QED
    BY <2>1, FrameBytes DEF Datas
<1>2. /\ k = 1 => b = "&"
      /\ k = n + 2 => b = "!"
      /\ k = n + 3 => b = "#"
  BY <1>0, Lengths DEF FrameByte
<1> HIDE DEF b
<1>3. CASE r.state \in {"PKTSTART1", "PKTSTART2"}
  <2> DEFINE next == IF r.state = "PKTSTART1"
                       THEN IF b = "!" THEN "PKTSTART2" ELSE "PKTSTART1"
                       ELSE IF b = "&" THEN "PKTRECV" ELSE "PKTSTART1"
  <2>1. r.buf = <<>>
    BY <1>3 DEF Reads
  <2>2. q = [state |-> next, buf |-> <<>>]
    <3>1. r = [state |-> r.state, buf |-> <<>>]
      BY <2>1 DEF Readers
    <3>2. CASE r.state = "PKTSTART1"
      BY <3>1, <3>2 DEF PutByte
    <3>3. CASE r.state = "PKTSTART2"
      BY <3>1, <3>3 DEF PutByte
    <3> QED
      BY <1>3, <3>2, <3>3
  <2>3. q \in Readers /\ q.state = next /\ q.buf = <<>>
        /\ next \in {"PKTSTART1", "PKTSTART2", "PKTRECV"}
        /\ q.buf \in Seq(Char) /\ Len(q.buf) = 0
    BY <2>2 DEF Readers
  <2>4. k + 1 = LengthOf(c) => q = Ready
    BY <1>0, <1>2, <2>2 DEF Ready
  <2>5. k + 1 = LengthOf(c) - 1 => next \in {"PKTSTART1", "PKTSTART2"}
    BY <1>0, <1>2
  <2>6. Plain(data) => k = 1 /\ next = "PKTRECV"
    <3> SUFFICES ASSUME Plain(data)
                 PROVE  k = 1 /\ next = "PKTRECV"
      OBVIOUS
    <3>1. k = 1
      BY <1>0, <1>3 DEF Reads
    <3>2. r.state = "PKTSTART2" /\ b = "&"
      BY <1>2, <3>1 DEF Reads
    <3> QED
      BY <3>1, <3>2
  <2>7. Part(c, data, 3, 2) = <<>>
    BY DEF Part
  <2> HIDE DEF q, next
  <2>8. Reads(c, q, k + 1, data)
    BY <1>0, <2>3, <2>4, <2>5, <2>6, <2>7 DEF Reads
  <2> QED
    BY <2>3, <2>8 DEF q, b
<1>4. CASE r.state \in {"PKTRECV", "PKTSTOP1"}
  <2> DEFINE next == IF r.state = "PKTSTOP1" /\ b = "#" THEN "complete"
                     ELSE IF b = "!" THEN "PKTSTOP1" ELSE "PKTRECV"
             buf == Append(r.buf, b)
  <2>1. /\ r.buf \in Seq(Char) /\ k >= 2 /\ Len(r.buf) <= k - 2
        /\ Len(r.buf) < n + 2 /\ Len(r.buf) \in Nat
    BY <1>0, <1>4, LenProperties DEF Reads
  <2>2. q = [state |-> next, buf |-> buf]
    <3>1. CASE r.state = "PKTRECV"
      BY <2>1, <3>1 DEF PutByte, InPktrecv, Store
    <3>2. CASE r.state = "PKTSTOP1"
      BY <2>1, <3>2 DEF PutByte, InPktstop1, Store
    <3> QED
      BY <1>4, <3>1, <3>2
  <2>3. buf \in Seq(Char) /\ Len(buf) = Len(r.buf) + 1
    BY <1>1, <2>1, AppendProperties
  <2>4. q.state = next /\ q.buf = buf
        /\ next \in {"PKTRECV", "PKTSTOP1", "complete"}
    BY <2>2
  <2>5. Len(buf) <= (k + 1) - 2 /\ Len(buf) <= n + 2
    BY <1>0, <2>1, <2>3
  <2>6. k + 1 = LengthOf(c) => next = "complete"
    BY <1>0, <1>2, <1>4 DEF Reads
  <2>7. k + 1 = LengthOf(c) - 1 => next = "PKTSTOP1"
    BY <1>0, <1>2, <1>4
  <2>8. ASSUME Plain(data)
        PROVE  /\ buf = Part(c, data, 3, k + 1)
               /\ next = "complete" => k + 1 = LengthOf(c)
               /\ next # "complete" =>
                    next = IF b = "!" THEN "PKTSTOP1" ELSE "PKTRECV"
    <3>1. /\ r.buf = Part(c, data, 3, k)
          /\ r.state = IF k > 2 /\ FrameByte(c, data, k) = "!"
                         THEN "PKTSTOP1" ELSE "PKTRECV"
      BY <1>0, <2>1, <2>8 DEF Reads
    <3>2. buf = Part(c, data, 3, k + 1)
      <4>1. k \in 2 .. LengthOf(c) - 1
        BY <1>0, <2>1
      <4> QED
        BY <3>1, <4>1, PartAppends DEF b
    <3> SUFFICES ASSUME r.state = "PKTSTOP1", b = "#", k + 1 # LengthOf(c)
                 PROVE  FALSE
      BY <3>2
    <3>4. FrameByte(c, data, k) = "!" /\ k > 2
      BY <3>1
    <3> DEFINE h == Header(c)
    <3>5. h \in {1, 2} /\ SegSize = n - h
      BY Lengths
    <3>6. k < n + 2
      BY <1>0, <1>2
    <3>7. k > h + 2 /\ data[k - h - 2] = "!"
      <4>1. k # 1 /\ k # n + 3 /\ k # 2 /\ k # n + 4
        BY <1>0, <3>4, <3>6
      <4>2. FrameByte(c, data, k) = IF k <= h + 2 THEN Node ELSE data[k - h - 2]
        BY <4>1 DEF FrameByte
      <4>3. Node # "!"
        BY DEF Node
      <4>4. ~(k <= h + 2)
        BY <3>4, <4>2, <4>3
      <4> QED
        BY <1>0, <3>4, <3>5, <4>2, <4>4
    <3>8. data[k + 1 - h - 2] = "#"
      <4>1. k + 1 # 1 /\ k + 1 # n + 3 /\ k + 1 # 2 /\ k + 1 # n + 4
            /\ ~(k + 1 <= h + 2)
        BY <1>0, <3>4, <3>5, <3>6, <3>7
      <4>2. b = IF k + 1 <= h + 2 THEN Node ELSE data[k + 1 - h - 2]
        BY <1>0, <3>5, <4>1 DEF FrameByte, b
      <4> QED
        BY <4>1, <4>2
    <3> DEFINE i == k - h - 2
    <3>9. i \in 1 .. SegSize - 1 /\ i + 1 = k + 1 - h - 2
      BY <1>0, <3>5, <3>6, <3>7
    <3>10. Len(data) = SegSize
      BY Sizes, FunctionIsSeq DEF Datas
    <3> QED
      BY <2>8, <3>7, <3>8, <3>9, <3>10 DEF Plain, Has
  <2> HIDE DEF q, next, buf
  <2>9. CASE next = "complete"
    <3>1. Plain(data) => k + 1 = LengthOf(c)
      BY <2>8, <2>9
    <3>2. k + 1 # 1 /\ Ready.buf = <<>> /\ Ready.state = "PKTSTART1"
          /\ Len(<<>>) = 0 /\ <<>> \in Seq(Char)
      BY <1>0 DEF Ready
    <3>3. k + 1 > 2 /\ k + 1 \in Nat
      BY <1>0, <2>1
    <3>4. Reads(c, Ready, k + 1, data)
      BY <1>0, <3>1, <3>2, <3>3 DEF Reads
    <3> QED
      BY <2>3, <2>4, <2>5, <2>8, <2>9, <3>1, <3>4 DEF q, b
  <2>10. CASE next # "complete"
    <3>1. q \in Readers
      BY <2>2, <2>3, <2>4, <2>10 DEF Readers
    <3>2. Reads(c, q, k + 1, data)
      <4>1. k + 1 # 1 /\ k + 1 > 2 /\ k + 1 # LengthOf(c)
        BY <1>0, <2>1, <2>6, <2>10
      <4>2. next \in {"PKTRECV", "PKTSTOP1"}
        BY <2>4, <2>10
      <4> QED
        BY <2>3, <2>4, <2>5, <2>7, <2>8, <2>10, <4>1, <4>2 DEF Reads, b
    <3> QED
      BY <2>3, <2>4, <2>10, <3>1, <3>2 DEF q, b
  <2> QED
    BY <2>9, <2>10
<1> QED
  BY <1>3, <1>4 DEF Reads

(* What is copied out of a buffer. *)
LEMMA WhatIsRead ==
  ASSUME NEW S, Stale \subseteq S, NEW c \in Conns, NEW buf \in Seq(S),
         NEW s \in Contents(c, buf)
  PROVE  Data(s) \in [1 .. SegSize -> S]
<1> DEFINE n == Size[c]
<1>0. n \in Nat /\ SegSize \in Nat /\ SegSize <= n
  BY Lengths, Sizes
<1>1. PICK stale \in [Len(buf) + 1 .. n -> Stale] :
        s = [i \in 1 .. n |-> IF i <= Len(buf) THEN buf[i] ELSE stale[i]]
  BY DEF Contents
<1>2. Len(buf) \in Nat /\ \A i \in 1 .. Len(buf) : buf[i] \in S
  BY LenProperties, ElementOfSeq
<1>3. s \in [1 .. n -> S]
  <2>1. \A i \in 1 .. n :
          (IF i <= Len(buf) THEN buf[i] ELSE stale[i]) \in S
    BY <1>0, <1>2
  <2> QED
    BY <1>1, <2>1
<1>4. s \in Seq(S) /\ Len(s) = n
  BY <1>0, <1>3, FunctionIsSeq
<1> DEFINE m == n - SegSize + 1
<1>5. Data(s) = SubSeq(s, m, n) /\ m \in Int /\ n - m + 1 = SegSize
      /\ m \in 1 .. n + 1
  BY <1>0, <1>4 DEF Data
<1>6. \A i \in m .. n : s[i] \in S
  BY <1>0, <1>3, <1>5
<1>7. SubSeq(s, m, n) \in Seq(S)
      /\ Len(SubSeq(s, m, n)) = IF m <= n THEN n - m + 1 ELSE 0
  BY <1>0, <1>5, <1>6, SubSeqProperties
<1>8. Len(SubSeq(s, m, n)) = SegSize
  BY <1>0, <1>5, <1>7
<1> QED
  BY <1>5, <1>7, <1>8, LenProperties

LEMMA WhatWasSentIsRead ==
  ASSUME NEW c \in Conns, NEW data \in Datas,
         NEW s \in Contents(c, Part(c, data, 3, LengthOf(c)))
  PROVE  Data(s) = data
<1> DEFINE n == Size[c]  h == Header(c)  buf == Part(c, data, 3, LengthOf(c))
<1>0. n \in Nat /\ SegSize \in Nat /\ h \in {1, 2} /\ SegSize = n - h
      /\ LengthOf(c) = n + 4
  BY Lengths, Sizes
<1>1. buf \in Seq(Char) /\ Len(buf) = n + 2
      /\ \A i \in 1 .. n + 2 : buf[i] = FrameByte(c, data, i + 2)
  <2>1. {"!", "&", "#", Node} \subseteq Char /\ data \in [1 .. SegSize -> Char]
        /\ 3 \in 1 .. LengthOf(c) + 1 /\ LengthOf(c) \in 3 - 1 .. LengthOf(c)
    BY <1>0 DEF Char, Datas
  <2>2. buf \in Seq(Char) /\ Len(buf) = LengthOf(c) - 3 + 1
    BY <2>1, Parts
  <2>3. LengthOf(c) - 3 + 1 = n + 2 /\ \A i \in 1 .. n + 2 : 3 + i - 1 = i + 2
    BY <1>0
  <2> QED
    BY <2>2, <2>3 DEF Part
<1> HIDE DEF buf
<1>2. PICK stale \in [Len(buf) + 1 .. n -> Stale] :
        s = [i \in 1 .. n |-> IF i <= Len(buf) THEN buf[i] ELSE stale[i]]
  BY DEF Contents, buf
<1>3. /\ s \in [1 .. n -> Char]
      /\ \A i \in 1 .. n : s[i] = FrameByte(c, data, i + 2) /\ s[i] \in Char
  <2>1. \A i \in 1 .. n : i \in 1 .. n + 2 /\ i <= Len(buf)
    BY <1>0, <1>1
  <2>2. \A i \in 1 .. n : buf[i] \in Char
    BY <1>1, <2>1, ElementOfSeq
  <2> QED
    BY <1>1, <1>2, <2>1, <2>2
<1>4. s \in Seq(Char) /\ Len(s) = n
  BY <1>0, <1>3, FunctionIsSeq
<1>5. Data(s) = SubSeq(s, h + 1, n)
  <2>1. n - SegSize + 1 = h + 1
    BY <1>0
  <2> QED
    BY <1>4, <2>1 DEF Data
<1>6. /\ SubSeq(s, h + 1, n) \in Seq(Char)
      /\ Len(SubSeq(s, h + 1, n)) = SegSize
      /\ \A i \in 1 .. SegSize : SubSeq(s, h + 1, n)[i] = s[h + i]
  <2>1. \A i \in h + 1 .. n : s[i] \in Char
    BY <1>0, <1>3
  <2>2. h + 1 \in Int /\ n \in Int /\ n - (h + 1) + 1 = SegSize
        /\ (h + 1 <= n <=> SegSize # 0) /\ \A i \in 1 .. SegSize : h + 1 + i - 1 = h + i
    BY <1>0
  <2>3. /\ SubSeq(s, h + 1, n) \in Seq(Char)
        /\ Len(SubSeq(s, h + 1, n)) = IF h + 1 <= n THEN n - (h + 1) + 1 ELSE 0
        /\ \A i \in 1 .. n - (h + 1) + 1 : SubSeq(s, h + 1, n)[i] = s[h + 1 + i - 1]
    BY <2>1, <2>2, SubSeqProperties
  <2> QED
    BY <1>0, <2>2, <2>3
<1>7. \A i \in 1 .. SegSize : s[h + i] = data[i]
  <2> SUFFICES ASSUME NEW i \in 1 .. SegSize
               PROVE  s[h + i] = data[i]
    OBVIOUS
  <2>1. h + i \in 1 .. n /\ (h + i + 2) - h - 2 = i
        /\ h + i + 2 # 1 /\ h + i + 2 # 2 /\ h + i + 2 # n + 3
        /\ h + i + 2 # n + 4 /\ ~(h + i + 2 <= h + 2)
    <3>1. i \in Nat /\ i >= 1 /\ i <= n - h /\ h \in Nat /\ h >= 1
      BY <1>0
    <3> HIDE DEF n, h
    <3> QED
      BY <1>0, <3>1
  <2>2. FrameByte(c, data, h + i + 2) = data[(h + i + 2) - h - 2]
    BY <1>0, <2>1 DEF FrameByte
  <2> QED
    BY <1>3, <2>1, <2>2
<1>8. Data(s) \in [1 .. SegSize -> Char] /\ \A i \in 1 .. SegSize : Data(s)[i] = data[i]
  BY <1>5, <1>6, <1>7, LenProperties
<1> DEFINE d == Data(s)
<1>9. d = [i \in 1 .. SegSize |-> d[i]] /\ data = [i \in 1 .. SegSize |-> data[i]]
  BY <1>8 DEF Datas
<1> HIDE DEF d
<1> QED
  BY <1>8, <1>9 DEF d

----------------------------------------------------------------------------
(* The inductive invariant *)

(* Nothing has happened that may spoil data, and what data then is. *)
NothingSpoilt ==
  /\ overlapped = {} /\ None \notin Range(sent)
  /\ \A x \in Items \ fresh : Clean(x)

Given == {Bytes[x] : x \in Items \ fresh}

(* Only bytes of segments come from the SRT process. *)
SourceChar ==
  {"!", "&", "#", Node} \cup Stale \cup UNION {Range(Bytes[x]) : x \in Segments}

SourceInv ==
  /\ stream["srt_snp"] \in Seq(SourceChar)
  /\ reader["srt_snp"].buf \in Seq(SourceChar)
  /\ last = <<>> \/ last \in [1 .. SegSize -> SourceChar]
  /\ ~open => work["app"] = Idle /\ work["timer"] = Idle

LastInv == NothingSpoilt => last = <<>> \/ last \in Given

(* A thread is sending a frame, of which bytes from k on are left. *)
Sends(t, data, k) ==
  /\ work[t].left = LeftOf(Out[t], data, k)
  /\ work[t].begun <=> k > 1
  /\ work[t].what = ItemOf(data)
  /\ Out[t] = "srt_snp" =>
       data \in [1 .. SegSize -> SourceChar] /\ work[t].what \in Segments
  /\ NothingSpoilt => data \in Given

Job(t) ==
  work[t] = Idle \/ \E data \in Datas, k \in 1 .. LengthOf(Out[t]) : Sends(t, data, k)

JobInv == \A t \in Threads : Job(t)

(* What is on a connection: byte i is byte pos[i] of the frame of dat[i],   *)
(* and byte 0 is the last that the reader has taken.                        *)
Framed(c, pos, dat) ==
  \A i \in 1 .. Len(stream[c]) :
    /\ stream[c][i] = FrameByte(c, dat[i], pos[i])
    /\ IF pos[i - 1] = LengthOf(c) THEN pos[i] = 1
       ELSE pos[i] = pos[i - 1] + 1 /\ dat[i] = dat[i - 1]

(* Whoever has begun a frame, and it is one thread, goes on after the last  *)
(* byte; a new frame begins if nobody has.                                  *)
Writes(c, k, data) ==
  \A t \in Threads :
    Out[t] = c =>
      IF work[t].begun
        THEN /\ k # LengthOf(c) /\ work[t].left = LeftOf(c, data, k + 1)
             /\ \A o \in Threads \ {t} : Out[o] = c => ~work[o].begun
        ELSE k = LengthOf(c) \/ \E o \in Threads : Out[o] = c /\ work[o].begun

FrameState(c, pos, dat) ==
  /\ Framed(c, pos, dat)
  /\ Reads(c, reader[c], pos[0], dat[0])
  /\ c # "srt_snp" \/ open => Writes(c, pos[Len(stream[c])], dat[Len(stream[c])])
  /\ NothingSpoilt =>
       \A i \in 0 .. Len(stream[c]) : pos[i] # LengthOf(c) => dat[i] \in Given

FrameOK(c) ==
  \/ c \in overlapped
  \/ \E pos \in [0 .. Len(stream[c]) -> 1 .. LengthOf(c)],
        dat \in [0 .. Len(stream[c]) -> Datas] : FrameState(c, pos, dat)

FrameInv == \A c \in Conns : FrameOK(c)

DataPathInv == TypeOK /\ SourceInv /\ LastInv /\ JobInv /\ FrameInv

LEMMA Chars ==
  /\ {"!", "&", "#", Node} \subseteq SourceChar /\ SourceChar \subseteq Char
  /\ Stale \subseteq SourceChar /\ Stale \subseteq Char /\ Char # {}
  /\ {"!", "&", "#", Node} \subseteq Char
BY DataPathAssumption DEF Char, SourceChar, Items

(* The bytes of an item are data, and tell which item it is. *)
LEMMA BytesAreData ==
  /\ \A x \in Items : Bytes[x] \in Datas
  /\ \A x \in Segments : Bytes[x] \in [1 .. SegSize -> SourceChar]
<1>1. \A x \in Items : Bytes[x] \in [1 .. SegSize -> Range(Bytes[x])]
  <2> SUFFICES ASSUME NEW x \in Items
               PROVE  Bytes[x] \in [1 .. SegSize -> Range(Bytes[x])]
    OBVIOUS
  <2>1. Bytes[x] \in Seq(STRING) /\ Len(Bytes[x]) = SegSize
    BY DataPathAssumption
  <2>2. DOMAIN Bytes[x] = 1 .. SegSize /\ Bytes[x] \in [1 .. SegSize -> STRING]
    BY <2>1, LenProperties
  <2> QED
    BY <2>2 DEF Range
<1>2. \A x \in Items : Range(Bytes[x]) \subseteq Char
  BY DEF Char
<1>3. \A x \in Segments : Range(Bytes[x]) \subseteq SourceChar /\ x \in Items
  BY DEF SourceChar, Items
<1>4. \A x \in Items : Bytes[x] \in [1 .. SegSize -> Char]
  BY <1>1, <1>2
<1>5. \A x \in Segments : Bytes[x] \in [1 .. SegSize -> SourceChar]
  BY <1>1, <1>3
<1> QED
  BY <1>4, <1>5 DEF Datas

LEMMA ItemOfBytes ==
  /\ \A data : ItemOf(data) \in Items \cup {None}
  /\ \A x \in Items : ItemOf(Bytes[x]) = x
  /\ None \notin Items
<1>1. \A data : ItemOf(data) \in Items \cup {None}
  BY DEF ItemOf
<1>2. ASSUME NEW x \in Items
      PROVE  ItemOf(Bytes[x]) = x
  <2>1. \A y \in Items : Bytes[y] = Bytes[x] => y = x
    BY DataPathAssumption
  <2> QED
    BY <2>1 DEF ItemOf
<1> QED
  BY <1>1, <1>2, DataPathAssumption

(* Data from the SRT process is no update: it has not that update's byte. *)
LEMMA SourceIsNoUpdate ==
  ASSUME NEW data \in [1 .. SegSize -> SourceChar]
  PROVE  ItemOf(data) \in Segments \cup {None}
<1> SUFFICES ASSUME NEW x \in Items, Bytes[x] = data, x \notin Segments
             PROVE  FALSE
  BY DEF ItemOf
<1>1. PICK v \in Range(Bytes[x]) :
        /\ v \notin {"!", "&", "#", Node} \cup Stale
        /\ \A y \in Items \ {x} : v \notin Range(Bytes[y])
  BY DataPathAssumption
<1>2. v \in SourceChar
  BY DEF Range
<1> QED
  BY <1>1, <1>2 DEF SourceChar, Items

LEMMA InitInv == Init => DataPathInv
<1> SUFFICES ASSUME Init
             PROVE  DataPathInv
  OBVIOUS
<1>1. Idle \in Jobs /\ Len(Idle.left) = 0
  BY DEF Idle, Jobs
<1>2. Ready \in Readers /\ Len(Ready.buf) = 0
  BY DEF Ready, Readers
<1>3. TypeOK
  <2>1. \A c \in Conns : Size[c] \in Nat
    BY Lengths
  <2>2. MaxCloses \in Nat /\ StreamCap \in Nat
    BY DataPathAssumption
  <2> QED
    BY <1>1, <1>2, <2>1, <2>2 DEF Init, TypeOK
<1>4. SourceInv
  <2>1. "srt_snp" \in Conns
    BY Names
  <2>2. /\ stream["srt_snp"] = <<>> /\ reader["srt_snp"].buf = <<>>
        /\ last = <<>> /\ open
    BY <2>1 DEF Init, Ready
  <2>3. <<>> \in Seq(SourceChar)
    BY EmptySeq
  <2> QED
    BY <2>2, <2>3 DEF SourceInv
<1>5. LastInv /\ JobInv
  BY DEF Init, LastInv, JobInv, Job
<1>6. ASSUME NEW c \in Conns
      PROVE  \E pos \in [0 .. Len(stream[c]) -> 1 .. LengthOf(c)],
                dat \in [0 .. Len(stream[c]) -> Datas] : FrameState(c, pos, dat)
  <2>1. stream[c] = <<>> /\ Len(stream[c]) = 0 /\ reader[c] = Ready
    BY <1>6 DEF Init
  <2>2. PICK v : v \in Char
    BY Chars
  <2> DEFINE pos == [i \in 0 .. 0 |-> LengthOf(c)]
             dat == [i \in 0 .. 0 |-> [k \in 1 .. SegSize |-> v]]
  <2>3. /\ pos \in [0 .. Len(stream[c]) -> 1 .. LengthOf(c)]
        /\ dat \in [0 .. Len(stream[c]) -> Datas] /\ pos[0] = LengthOf(c)
        /\ \A i \in 0 .. 0 : pos[i] = LengthOf(c)
    BY <2>1, <2>2, Lengths DEF Datas
  <2> HIDE DEF pos, dat
  <2>4. Framed(c, pos, dat)
    BY <2>1 DEF Framed
  <2>5. Reads(c, reader[c], pos[0], dat[0])
    <3>1. LengthOf(c) # 1 /\ LengthOf(c) # LengthOf(c) - 1
          /\ LengthOf(c) \notin 2 .. LengthOf(c) - 1 /\ ~(LengthOf(c) <= 2)
          /\ LengthOf(c) - 2 >= 0
      BY Lengths
    <3>2. Ready.state = "PKTSTART1" /\ Ready.buf = <<>> /\ Len(<<>>) = 0
          /\ <<>> \in Seq(Char)
      BY DEF Ready
    <3> QED
      BY <2>1, <2>3, <3>1, <3>2 DEF Reads
  <2>6. \A t \in Threads : ~work[t].begun
    BY DEF Init, Idle
  <2>7. Writes(c, pos[0], dat[0])
    BY <2>3, <2>6 DEF Writes
  <2> QED
    BY <2>1, <2>3, <2>4, <2>5, <2>7 DEF FrameState
<1> QED
  BY <1>3, <1>4, <1>5, <1>6 DEF FrameInv, FrameOK, DataPathInv

----------------------------------------------------------------------------
(* Steps *)

(* What was spoilt stays so, and what was given to send was given. *)
LEMMA Monotone ==
  ASSUME TypeOK, [Next]_vars
  PROVE  /\ overlapped \subseteq overlapped' /\ fresh' \subseteq fresh
         /\ NothingSpoilt' => NothingSpoilt
         /\ Given \subseteq Given'
<1>1. overlapped \subseteq overlapped' /\ fresh' \subseteq fresh
      /\ (sent' = sent \/ \E x : sent' = Append(sent, x))
  BY DEF Next, Relay, vars, Send, Receive, Middle, getsegToSend, Returns,
     getpktToSend, recvpkt, overlay_recvpkt, snp_recvseg, Enter, SrtCloses,
     waitTransport
<1>2. Range(sent) \subseteq Range(sent')
  <2>1. sent \in Seq(Segments \cup {None})
    BY DEF TypeOK
  <2>2. ASSUME NEW x, sent' = Append(sent, x)
        PROVE  Range(sent) \subseteq Range(sent')
    <3>1. sent \in Seq(Segments \cup {None, x}) /\ x \in Segments \cup {None, x}
      BY <2>1, SeqMonotonic
    <3>2. /\ DOMAIN sent = 1 .. Len(sent) /\ Len(sent) \in Nat
          /\ DOMAIN sent' = 1 .. Len(sent) + 1
          /\ \A i \in 1 .. Len(sent) : sent'[i] = sent[i]
      BY <3>1, <2>2, AppendProperties, LenProperties
    <3> QED
      BY <3>2 DEF Range
  <2> QED
    BY <1>1, <2>2
<1> QED
  BY <1>1, <1>2 DEF NothingSpoilt, Given

(* A frame to be sent is one of three calls at most, none of them empty. *)
LEMMA LeftTypes ==
  ASSUME NEW c \in Conns, NEW data \in Datas, NEW k \in 1 .. LengthOf(c)
  PROVE  /\ LeftOf(c, data, k) \in Seq(Seq(Char) \ {<<>>})
         /\ Len(LeftOf(c, data, k)) <= 3
<1> DEFINE n == Size[c]
           C == Seq(Char) \ {<<>>}
<1>0. n \in Nat /\ n >= 1 /\ LengthOf(c) = n + 4
  BY Lengths
<1>1. ASSUME NEW i \in 1 .. LengthOf(c), NEW j \in i .. LengthOf(c)
      PROVE  Part(c, data, i, j) \in C
  <2>1. i \in 1 .. LengthOf(c) + 1 /\ j \in i - 1 .. LengthOf(c)
        /\ j - i + 1 # 0
    BY <1>0
  <2>2. /\ Part(c, data, i, j) \in Seq(Char)
        /\ Len(Part(c, data, i, j)) = j - i + 1
    BY <2>1, Chars, Parts DEF Datas
  <2> QED
    BY <2>1, <2>2, EmptySeq
<1>2. CASE k <= 2
  <2>1. /\ Part(c, data, k, 2) \in C /\ Part(c, data, 3, n + 2) \in C
        /\ Part(c, data, n + 3, LengthOf(c)) \in C
    <3>1. /\ 2 \in k .. LengthOf(c) /\ 3 \in 1 .. LengthOf(c)
          /\ n + 2 \in 3 .. LengthOf(c) /\ n + 3 \in 1 .. LengthOf(c)
          /\ LengthOf(c) \in n + 3 .. LengthOf(c)
      BY <1>0, <1>2
    <3> QED
      BY <1>1, <3>1
  <2>2. LeftOf(c, data, k) = << Part(c, data, k, 2), Part(c, data, 3, n + 2),
                                Part(c, data, n + 3, LengthOf(c)) >>
    BY <1>0, <1>2 DEF LeftOf
  <2> HIDE DEF C
  <2> QED
    BY <2>1, <2>2 DEF C
<1>3. CASE k > 2 /\ k <= n + 2
  <2>1. /\ Part(c, data, k, n + 2) \in C
        /\ Part(c, data, n + 3, LengthOf(c)) \in C
    <3>1. /\ n + 2 \in k .. LengthOf(c) /\ n + 3 \in 1 .. LengthOf(c)
          /\ LengthOf(c) \in n + 3 .. LengthOf(c)
      BY <1>0, <1>3
    <3> QED
      BY <1>1, <3>1
  <2>2. LeftOf(c, data, k) = << Part(c, data, k, n + 2),
                                Part(c, data, n + 3, LengthOf(c)) >>
    BY <1>0, <1>3 DEF LeftOf
  <2> QED
    BY <2>1, <2>2
<1>4. CASE k > n + 2
  <2>1. Part(c, data, k, LengthOf(c)) \in C
    BY <1>0, <1>1, <1>4
  <2>2. LeftOf(c, data, k) = << Part(c, data, k, LengthOf(c)) >>
    BY <1>0, <1>4 DEF LeftOf
  <2> QED
    BY <2>1, <2>2
<1> QED
  BY <1>0, <1>2, <1>3, <1>4

LEMMA JobKept ==
  ASSUME TypeOK, [Next]_vars, JobInv, NEW t \in Threads,
         work'[t] = work[t] \/ work'[t] = Idle
  PROVE  Job(t)'
<1>1. (NothingSpoilt' => NothingSpoilt) /\ Given \subseteq Given'
  BY Monotone
<1>2. CASE work'[t] = Idle
  BY <1>2 DEF Job
<1>3. CASE work'[t] = work[t] /\ work[t] # Idle
  <2>1. PICK data \in Datas, k \in 1 .. LengthOf(Out[t]) : Sends(t, data, k)
    BY <1>3 DEF JobInv, Job
  <2>2. Sends(t, data, k)'
    BY <1>1, <1>3, <2>1 DEF Sends
  <2> QED
    BY <2>2 DEF Job
<1> QED
  BY <1>2, <1>3

(* What a thread has been given. *)
LEMMA JobGiven ==
  ASSUME TypeOK, [Next]_vars, NEW t \in Threads, NEW data \in Datas,
         work'[t] = [left |-> LeftOf(Out[t], data, 1), begun |-> FALSE,
                     what |-> ItemOf(data)],
         Out[t] = "srt_snp" =>
           data \in [1 .. SegSize -> SourceChar] /\ ItemOf(data) \in Segments,
         NothingSpoilt' => data \in Given'
  PROVE  Job(t)' /\ work'[t] \in Jobs /\ Len(work'[t].left) <= 3
<1>1. Out[t] \in Conns
  BY Names
<1>2. 1 \in 1 .. LengthOf(Out[t])
  BY <1>1, Lengths
<1>3. /\ LeftOf(Out[t], data, 1) \in Seq(Seq(Char) \ {<<>>})
      /\ Len(LeftOf(Out[t], data, 1)) <= 3
  BY <1>1, <1>2, LeftTypes
<1>4. Sends(t, data, 1)'
  BY DEF Sends
<1>5. ItemOf(data) \in Items \cup {None}
  BY ItemOfBytes
<1> QED
  BY <1>2, <1>3, <1>4, <1>5 DEF Job, Jobs

LEMMA SendIs ==
  ASSUME TypeOK, JobInv, NEW t \in Threads, Put(t)
  PROVE  \E data \in Datas, k \in 1 .. LengthOf(Out[t]) :
           \E j \in k .. LengthOf(Out[t]) :
             Sends(t, data, k) /\ SendsPart(t, data, k, j)
<1>1. work[t] # Idle
  BY DEF Put, Idle
<1>2. PICK data \in Datas, k \in 1 .. LengthOf(Out[t]) : Sends(t, data, k)
  BY <1>1 DEF JobInv, Job
<1>3. work[t].left = LeftOf(Out[t], data, k)
  BY <1>2 DEF Sends
<1> QED
  BY <1>2, <1>3, PutExtends

LEMMA SendTypes ==
  ASSUME TypeOK, SourceInv, JobInv, NEW t \in Threads, Send(t)
  PROVE  TypeOK' /\ SourceInv' /\ JobInv'
<1> DEFINE c == Out[t]
<1>0. c \in Conns /\ [Next]_vars
  BY Names DEF Next, Relay
<1>1. PICK data \in Datas, k \in 1 .. LengthOf(c) :
        \E j \in k .. LengthOf(c) : Sends(t, data, k) /\ SendsPart(t, data, k, j)
  BY SendIs DEF Send
<1>1a. PICK j \in k .. LengthOf(c) : Sends(t, data, k) /\ SendsPart(t, data, k, j)
  BY <1>1
<1>2. /\ Sends(t, data, k)
      /\ j - k + 1 <= StreamCap - Len(stream[c])
      /\ stream' = [stream EXCEPT ![c] = @ \o Part(c, data, k, j)]
      /\ work' = [work EXCEPT ![t] =
           IF j = LengthOf(c) THEN Idle
           ELSE [@ EXCEPT !.begun = TRUE, !.left = LeftOf(c, data, j + 1)]]
  BY <1>1a DEF SendsPart
<1> DEFINE bytes == Part(c, data, k, j)
<1>3. /\ bytes \in Seq(Char) /\ Len(bytes) = j - k + 1
      /\ c = "srt_snp" => bytes \in Seq(SourceChar)
  <2>1. k \in 1 .. LengthOf(c) + 1 /\ j \in k - 1 .. LengthOf(c)
    BY <1>0, Lengths
  <2>2. bytes \in Seq(Char) /\ Len(bytes) = j - k + 1
    BY <1>0, <2>1, Chars, Parts DEF Datas
  <2>3. c = "srt_snp" => bytes \in Seq(SourceChar)
    BY <1>0, <1>2, <2>1, Chars, Parts DEF Sends
  <2> QED
    BY <2>2, <2>3
<1> HIDE DEF bytes
<1>4. /\ stream'[c] = stream[c] \o bytes
      /\ \A d \in Conns \ {c} : stream'[d] = stream[d]
  BY <1>0, <1>2 DEF TypeOK, bytes
<1>5. stream' \in [Conns -> Seq(Char)] /\ \A d \in Conns : Len(stream'[d]) <= StreamCap
  <2>1. stream[c] \in Seq(Char) /\ Len(stream[c]) \in Nat
    BY <1>0, LenProperties DEF TypeOK
  <2>2. stream[c] \o bytes \in Seq(Char)
        /\ Len(stream[c] \o bytes) = Len(stream[c]) + Len(bytes)
    BY <1>3, <2>1, ConcatProperties
  <2>3. Len(stream'[c]) <= StreamCap
    <3>1. j \in Nat /\ k \in Nat /\ StreamCap \in Nat
      BY <1>0, Sizes, Lengths
    <3>2. Len(stream'[c]) = Len(stream[c]) + (j - k + 1)
      BY <1>3, <1>4, <2>2
    <3> QED
      <4>1. j - k + 1 <= StreamCap - Len(stream[c])
        BY <1>2
      <4>2. \A m, n \in Nat : j - k + 1 <= StreamCap - n /\ m = n + (j - k + 1)
                                => m <= StreamCap
        BY <3>1
      <4>3. Len(stream'[c]) \in Nat
        BY <1>4, <2>2, LenProperties
      <4> QED
        BY <2>1, <3>2, <4>1, <4>2, <4>3
  <2> QED
    BY <1>0, <1>2, <1>4, <2>2, <2>3 DEF TypeOK
<1>6. Job(t)' /\ work'[t] \in Jobs /\ Len(work'[t].left) <= 3
  <2>1. CASE j = LengthOf(c)
    <3>1. work'[t] = Idle
      BY <1>2, <2>1 DEF TypeOK
    <3> QED
      BY <3>1 DEF Job, Idle, Jobs
  <2>2. CASE j # LengthOf(c)
    <3>1. work'[t] = [work[t] EXCEPT !.begun = TRUE,
                                     !.left = LeftOf(c, data, j + 1)]
      BY <1>2, <2>2 DEF TypeOK
    <3>2. j + 1 \in 1 .. LengthOf(c) /\ j + 1 > 1
      BY <1>0, <2>2, Lengths
    <3>3. /\ LeftOf(c, data, j + 1) \in Seq(Seq(Char) \ {<<>>})
          /\ Len(LeftOf(c, data, j + 1)) <= 3
      BY <1>0, <3>2, LeftTypes
    <3>4. work[t] \in Jobs
      BY DEF TypeOK
    <3>5. /\ work'[t].left = LeftOf(c, data, j + 1) /\ work'[t].begun = TRUE
          /\ work'[t].what = work[t].what /\ work'[t] \in Jobs
      BY <3>1, <3>3, <3>4 DEF Jobs
    <3>6. Sends(t, data, j + 1)'
      BY <1>0, <1>2, <3>2, <3>5, Monotone DEF Sends
    <3> QED
      BY <3>2, <3>3, <3>5, <3>6 DEF Job
  <2> QED
    BY <2>1, <2>2
<1>7. \A o \in Threads \ {t} : work'[o] = work[o]
  BY <1>2 DEF TypeOK
<1>8. JobInv'
  BY <1>0, <1>6, <1>7, JobKept DEF JobInv
<1>9. work' \in [Threads -> Jobs] /\ \A o \in Threads : Len(work'[o].left) <= 3
  BY <1>2, <1>6, <1>7 DEF TypeOK
<1>10. sent' \in Seq(Segments \cup {None})
  <2>1. t \in {"app", "timer"} => work[t].what \in Segments
    BY <1>2 DEF Sends, Out
  <2> QED
    BY <2>1, AppendProperties DEF Send, TypeOK
<1>11. excused' \subseteq Items \cup {None} /\ overlapped' \subseteq Conns
  <2>1. \A o \in Threads : work[o].what \in Items \cup {None}
    BY DEF TypeOK, Jobs
  <2> QED
    BY <1>0, <2>1 DEF Send, TypeOK, Others
<1>12. TypeOK'
  BY <1>5, <1>9, <1>10, <1>11 DEF TypeOK, Send
<1>13. SourceInv'
  <2>1. stream'["srt_snp"] \in Seq(SourceChar)
    <3>1. CASE c = "srt_snp"
      <4>1. stream[c] \o bytes \in Seq(SourceChar)
        BY <1>3, <3>1, ConcatProperties DEF SourceInv
      <4> QED
        BY <1>4, <3>1, <4>1
    <3>2. CASE c # "srt_snp"
      BY <1>4, <3>2, Names DEF SourceInv
    <3> QED
      BY <3>1, <3>2
  <2>2. ~open => t \notin {"app", "timer"}
    BY DEF SourceInv, Send, Put, Idle
  <2>3. {"app", "timer"} \subseteq Threads
    BY Names
  <2> QED
    BY <1>7, <2>1, <2>2, <2>3 DEF SourceInv, Send
<1> QED
  BY <1>8, <1>12, <1>13

(* The buffer of a reader is not overfull, whatever it reads. *)
LEMMA ByteStored ==
  ASSUME NEW S, S \subseteq Char, NEW c \in Conns, NEW r \in Readers,
         r.state # "overrun", r.buf \in Seq(S), Len(r.buf) <= Size[c] + 2,
         NEW b \in S
  PROVE  LET q == PutByte(r, b, c)
         IN  /\ q.buf \in Seq(S) /\ Len(q.buf) <= Size[c] + 2
             /\ q.state # "complete" => q \in Readers
<1> DEFINE q == PutByte(r, b, c)
<1>0. Size[c] \in Nat /\ Len(r.buf) \in Nat /\ r.buf \in Seq(Char)
  BY Lengths, LenProperties, SeqMonotonic
<1>1. CASE q.buf = r.buf /\ q \in Readers
  BY <1>1
<1>2. ASSUME Len(r.buf) < Size[c] + 2, q.buf = Append(r.buf, b),
             q.state # "complete" => q.state \in {"PKTRECV", "PKTSTOP1"},
             q = [state |-> q.state, buf |-> q.buf]
      PROVE  /\ q.buf \in Seq(S) /\ Len(q.buf) <= Size[c] + 2
             /\ q.state # "complete" => q \in Readers
  <2>1. Append(r.buf, b) \in Seq(S) /\ Len(Append(r.buf, b)) = Len(r.buf) + 1
    BY AppendProperties
  <2>2. Append(r.buf, b) \in Seq(Char)
    BY <2>1, SeqMonotonic
  <2>3. q.buf \in Seq(S) /\ q.buf \in Seq(Char) /\ Len(q.buf) <= Size[c] + 2
    BY <1>0, <1>2, <2>1, <2>2
  <2> HIDE DEF q
  <2>4. ASSUME q.state # "complete"
        PROVE  [state |-> q.state, buf |-> q.buf] \in Readers
    BY <1>2, <2>3, <2>4 DEF Readers
  <2> QED
    BY <1>2, <2>3, <2>4
<1>3. CASE r.state \in {"PKTSTART1", "PKTSTART2"}
  BY <1>1, <1>3 DEF PutByte, Readers
<1>4. CASE r.state \in {"PKTRECV", "PKTSTOP1"} /\ ~(Len(r.buf) < Size[c] + 2)
  <2>1. q = [r EXCEPT !.state = "overrun"]
    <3>1. CASE r.state = "PKTRECV"
      BY <1>4, <3>1 DEF PutByte, InPktrecv, Store
    <3>2. CASE r.state = "PKTSTOP1"
      BY <1>4, <3>2 DEF PutByte, InPktstop1, Store
    <3> QED
      BY <1>4, <3>1, <3>2
  <2>2. q.buf = r.buf /\ q \in Readers
    BY <2>1 DEF Readers
  <2> QED
    BY <1>1, <2>2
<1>5. CASE r.state \in {"PKTRECV", "PKTSTOP1"} /\ Len(r.buf) < Size[c] + 2
  <2>1. \E next \in {"PKTRECV", "PKTSTOP1", "complete"} :
          q = [state |-> next, buf |-> Append(r.buf, b)]
    <3>1. CASE r.state = "PKTRECV"
      BY <1>5, <3>1 DEF PutByte, InPktrecv, Store
    <3>2. CASE r.state = "PKTSTOP1"
      BY <1>5, <3>2 DEF PutByte, InPktstop1, Store
    <3> QED
      BY <1>5, <3>1, <3>2
  <2> QED
    BY <1>2, <1>5, <2>1
<1> QED
  BY <1>3, <1>4, <1>5 DEF Readers

LEMMA TakeTypes ==
  ASSUME TypeOK, SourceInv, NEW c \in Conns, TakeByte(c)
  PROVE  /\ stream' \in [Conns -> Seq(Char)]
         /\ \A d \in Conns : Len(stream'[d]) <= StreamCap
         /\ stream'["srt_snp"] \in Seq(SourceChar)
         /\ After(c).state # "complete" => After(c) \in Readers
         /\ After(c).buf \in Seq(Char) /\ Len(After(c).buf) <= Size[c] + 2
         /\ c = "srt_snp" => After(c).buf \in Seq(SourceChar)
         /\ Head(stream[c]) \in Char
<1>1. /\ stream[c] \in Seq(Char) /\ stream[c] # <<>>
      /\ stream' = [stream EXCEPT ![c] = Tail(stream[c])]
      /\ reader[c] \in Readers /\ reader[c].state # "overrun"
      /\ reader[c].buf \in Seq(Char) /\ Len(reader[c].buf) <= Size[c] + 2
  BY DEF TakeByte, TypeOK, Running, Readers
<1>2. Head(stream[c]) \in Char /\ Tail(stream[c]) \in Seq(Char)
      /\ Len(Tail(stream[c])) = Len(stream[c]) - 1
  BY <1>1, HeadTailProperties
<1>3. Len(Tail(stream[c])) <= StreamCap
  <2>1. Len(stream[c]) \in Nat /\ StreamCap \in Nat /\ Len(stream[c]) <= StreamCap
    BY <1>1, Sizes, LenProperties DEF TypeOK
  <2> QED
    BY <1>2, <2>1
<1>4. /\ After(c).buf \in Seq(Char) /\ Len(After(c).buf) <= Size[c] + 2
      /\ After(c).state # "complete" => After(c) \in Readers
  BY <1>1, <1>2, ByteStored DEF After
<1>5. c = "srt_snp" => /\ Tail(stream[c]) \in Seq(SourceChar)
                       /\ After(c).buf \in Seq(SourceChar)
  <2> SUFFICES ASSUME c = "srt_snp"
               PROVE  /\ Tail(stream[c]) \in Seq(SourceChar)
                      /\ After(c).buf \in Seq(SourceChar)
    OBVIOUS
  <2>1. stream[c] \in Seq(SourceChar) /\ reader[c].buf \in Seq(SourceChar)
    BY DEF SourceInv
  <2>2. Head(stream[c]) \in SourceChar /\ Tail(stream[c]) \in Seq(SourceChar)
    BY <1>1, <2>1, HeadTailProperties
  <2>3. PutByte(reader[c], Head(stream[c]), c).buf \in Seq(SourceChar)
    BY <1>1, <2>1, <2>2, Chars, ByteStored
  <2> QED
    BY <2>2, <2>3 DEF After
<1>6. stream'["srt_snp"] \in Seq(SourceChar)
  <2>1. CASE c = "srt_snp"
    BY <1>1, <1>5, <2>1 DEF TypeOK
  <2>2. CASE c # "srt_snp"
    BY <1>1, <2>2, Names DEF TypeOK, SourceInv
  <2> QED
    BY <2>1, <2>2
<1>7. stream' \in [Conns -> Seq(Char)] /\ \A d \in Conns : Len(stream'[d]) <= StreamCap
  BY <1>1, <1>2, <1>3 DEF TypeOK
<1> QED
  BY <1>2, <1>4, <1>5, <1>6, <1>7

(* The frames on a connection of which the reader takes a byte. *)
Moved(c, pos, dat, pos2, dat2) ==
  \A i \in 0 .. Len(stream'[c]) : pos2[i] = pos[i + 1] /\ dat2[i] = dat[i + 1]

LEMMA FrameTake ==
  ASSUME TypeOK, [Next]_vars, NEW c \in Conns, TakeByte(c),
         NEW pos \in [0 .. Len(stream[c]) -> 1 .. LengthOf(c)],
         NEW dat \in [0 .. Len(stream[c]) -> Datas], FrameState(c, pos, dat),
         reader'[c] = IF After(c).state = "complete" THEN Ready ELSE After(c),
         \A t \in Threads : Out[t] = c => work'[t].begun = work[t].begun
                                          /\ (work[t].begun => work'[t] = work[t]),
         open' = open
  PROVE  /\ After(c).state # "overrun"
         /\ \E pos2 \in [0 .. Len(stream'[c]) -> 1 .. LengthOf(c)],
               dat2 \in [0 .. Len(stream'[c]) -> Datas] :
              /\ FrameState(c, pos2, dat2)'
              /\ Moved(c, pos, dat, pos2, dat2)
         /\ NothingSpoilt /\ After(c).state = "complete" =>
              \A s \in Contents(c, After(c).buf) : Data(s) \in Given
<1>0. PICK n : n = Len(stream[c])
  OBVIOUS
<1>1. /\ stream[c] \in Seq(Char) /\ stream[c] # <<>> /\ n \in Nat /\ n > 0
      /\ stream'[c] = Tail(stream[c]) /\ reader[c] \in Readers
  BY <1>0, LenProperties, EmptySeq DEF TakeByte, TypeOK
<1>2. /\ Len(stream'[c]) = n - 1 /\ n - 1 \in Nat
      /\ \A i \in 1 .. n - 1 : stream'[c][i] = stream[c][i + 1]
      /\ Head(stream[c]) = stream[c][1]
  BY <1>0, <1>1, HeadTailProperties
<1>3. PICK pos2 \in [0 .. n - 1 -> 1 .. LengthOf(c)],
           dat2 \in [0 .. n - 1 -> Datas] :
        \A i \in 0 .. n - 1 : pos2[i] = pos[i + 1] /\ dat2[i] = dat[i + 1]
  <2> DEFINE p == [i \in 0 .. n - 1 |-> pos[i + 1]]
             d == [i \in 0 .. n - 1 |-> dat[i + 1]]
  <2>1. \A i \in 0 .. n - 1 : i + 1 \in 0 .. Len(stream[c])
    BY <1>0, <1>1
  <2>2. p \in [0 .. n - 1 -> 1 .. LengthOf(c)] /\ d \in [0 .. n - 1 -> Datas]
    BY <2>1
  <2> QED
    BY <2>2
<1>4. Framed(c, pos2, dat2)'
  <2> SUFFICES ASSUME NEW i \in 1 .. Len(stream'[c])
               PROVE  /\ stream'[c][i] = FrameByte(c, dat2[i], pos2[i])
                      /\ IF pos2[i - 1] = LengthOf(c) THEN pos2[i] = 1
                         ELSE pos2[i] = pos2[i - 1] + 1 /\ dat2[i] = dat2[i - 1]
    BY DEF Framed
  <2>1. /\ i \in 1 .. n - 1 /\ i + 1 \in 1 .. n /\ i \in 0 .. n - 1
        /\ i - 1 \in 0 .. n - 1 /\ (i - 1) + 1 = i /\ (i + 1) - 1 = i
    BY <1>1, <1>2
  <2>2. /\ stream[c][i + 1] = FrameByte(c, dat[i + 1], pos[i + 1])
        /\ IF pos[i] = LengthOf(c) THEN pos[i + 1] = 1
           ELSE pos[i + 1] = pos[i] + 1 /\ dat[i + 1] = dat[i]
    BY <1>0, <2>1 DEF FrameState, Framed
  <2> QED
    BY <1>2, <1>3, <2>1, <2>2
<1>5. /\ stream[c][1] = FrameByte(c, dat[1], pos[1])
      /\ IF pos[0] = LengthOf(c) THEN pos[1] = 1
         ELSE pos[1] = pos[0] + 1 /\ dat[1] = dat[0]
      /\ pos2[0] = pos[1] /\ dat2[0] = dat[1] /\ dat[1] \in Datas /\ dat[0] \in Datas
      /\ pos[0] \in 1 .. LengthOf(c) /\ Reads(c, reader[c], pos[0], dat[0])
  <2>1. 1 \in 1 .. n /\ 0 \in 0 .. n - 1 /\ 1 \in 0 .. n /\ 0 \in 0 .. n
        /\ 0 + 1 = 1 /\ 1 - 1 = 0
    BY <1>1
  <2>2. /\ stream[c][1] = FrameByte(c, dat[1], pos[1])
        /\ IF pos[1 - 1] = LengthOf(c) THEN pos[1] = 1
           ELSE pos[1] = pos[1 - 1] + 1 /\ dat[1] = dat[1 - 1]
    BY <1>0, <2>1 DEF FrameState, Framed
  <2> QED
    BY <1>3, <2>1, <2>2 DEF FrameState
<1>6. After(c) = PutByte(reader[c], FrameByte(c, dat[1], pos[1]), c)
  BY <1>2, <1>5 DEF After
<1>7. /\ After(c).state # "overrun"
      /\ Reads(c, reader'[c], pos[1], dat[1])
      /\ Plain(dat[1]) /\ After(c).state = "complete" =>
           After(c).buf = Part(c, dat[1], 3, LengthOf(c)) /\ pos[0] # LengthOf(c)
  <2>1. CASE pos[0] = LengthOf(c)
    <3>1. reader[c] = Ready /\ pos[1] = 1
      BY <1>5, <2>1 DEF Reads
    <3> QED
      BY <1>5, <1>6, <3>1, FirstByte
  <2>2. CASE pos[0] # LengthOf(c)
    <3>1. pos[0] \in 1 .. LengthOf(c) - 1 /\ pos[1] = pos[0] + 1 /\ dat[1] = dat[0]
      BY <1>5, <2>2, Lengths
    <3> QED
      BY <1>1, <1>5, <1>6, <2>2, <3>1, NextByte
  <2> QED
    BY <2>1, <2>2
<1>8. Writes(c, pos[n], dat[n]) => Writes(c, pos2[n - 1], dat2[n - 1])'
  <2>1. pos2[n - 1] = pos[n] /\ dat2[n - 1] = dat[n]
    BY <1>1, <1>3
  <2>2. \A t \in Threads : Out[t] = c => (work'[t].begun <=> work[t].begun)
                                         /\ (work[t].begun => work'[t] = work[t])
    OBVIOUS
  <2> QED
    BY <2>1, <2>2 DEF Writes
<1>9. NothingSpoilt' =>
        \A i \in 0 .. n - 1 : pos2[i] # LengthOf(c) => dat2[i] \in Given'
  <2> SUFFICES ASSUME NothingSpoilt', NEW i \in 0 .. n - 1, pos2[i] # LengthOf(c)
               PROVE  dat2[i] \in Given'
    OBVIOUS
  <2>1. i + 1 \in 0 .. n
    BY <1>1
  <2>2. NothingSpoilt /\ Given \subseteq Given'
    BY Monotone
  <2> QED
    BY <1>0, <1>3, <2>1, <2>2 DEF FrameState
<1>10. FrameState(c, pos2, dat2)'
  <2>1. c # "srt_snp" \/ open' => Writes(c, pos2[n - 1], dat2[n - 1])'
    BY <1>0, <1>2, <1>8 DEF FrameState
  <2>2. Reads(c, reader'[c], pos2[0], dat2[0])
    BY <1>5, <1>7
  <2> QED
    BY <1>2, <1>4, <1>9, <2>1, <2>2 DEF FrameState
<1>11. ASSUME NothingSpoilt, After(c).state = "complete",
              NEW s \in Contents(c, After(c).buf)
       PROVE  Data(s) \in Given
  <2>1. CASE pos[0] = LengthOf(c)
    <3>1. reader[c] = Ready /\ pos[1] = 1
      BY <1>5, <2>1 DEF Reads
    <3>2. After(c).state = "PKTSTART2"
      BY <1>5, <1>6, <3>1, FirstByte
    <3> QED
      BY <1>11, <3>2
  <2>2. CASE pos[0] # LengthOf(c)
    <3>1. dat[0] \in Given /\ dat[1] = dat[0]
      BY <1>0, <1>1, <1>5, <1>11, <2>2 DEF FrameState
    <3>2. Plain(dat[1])
      BY <1>11, <3>1 DEF Given, NothingSpoilt, Clean, Plain
    <3>3. After(c).buf = Part(c, dat[1], 3, LengthOf(c))
      BY <1>7, <1>11, <3>2
    <3> QED
      BY <1>5, <1>11, <3>1, <3>3, WhatWasSentIsRead
  <2> QED
    BY <2>1, <2>2
<1>12. Moved(c, pos, dat, pos2, dat2)
  BY <1>2, <1>3 DEF Moved
<1> QED
  BY <1>2, <1>7, <1>10, <1>11, <1>12

(* The frames on a connection on which nothing happens. *)
LEMMA FrameKept ==
  ASSUME TypeOK, [Next]_vars, NEW c \in Conns,
         NEW pos \in [0 .. Len(stream[c]) -> 1 .. LengthOf(c)],
         NEW dat \in [0 .. Len(stream[c]) -> Datas], FrameState(c, pos, dat),
         stream'[c] = stream[c], reader'[c] = reader[c],
         c # "srt_snp" \/ open' =>
           /\ c # "srt_snp" \/ open
           /\ \A t \in Threads : Out[t] = c =>
                work'[t].begun = work[t].begun
                /\ (work[t].begun => work'[t] = work[t])
  PROVE  FrameState(c, pos, dat)'
<1>0. PICK n : n = Len(stream[c])
  OBVIOUS
<1>1. Framed(c, pos, dat)'
  BY DEF FrameState, Framed
<1>2. Reads(c, reader'[c], pos[0], dat[0])
  BY DEF FrameState
<1>3. c # "srt_snp" \/ open' => Writes(c, pos[n], dat[n])'
  <2> SUFFICES ASSUME c # "srt_snp" \/ open'
               PROVE  Writes(c, pos[n], dat[n])'
    OBVIOUS
  <2>1. \A t \in Threads : Out[t] = c => (work'[t].begun <=> work[t].begun)
                                         /\ (work[t].begun => work'[t] = work[t])
    OBVIOUS
  <2>2. Writes(c, pos[n], dat[n])
    BY <1>0 DEF FrameState
  <2> QED
    BY <2>1, <2>2 DEF Writes
<1>4. NothingSpoilt' =>
        \A i \in 0 .. n : pos[i] # LengthOf(c) => dat[i] \in Given'
  BY <1>0, Monotone DEF FrameState
<1> QED
  BY <1>0, <1>1, <1>2, <1>3, <1>4 DEF FrameState

(* The frames on a connection to which a thread sends, none other having    *)
(* begun a frame that is not complete.                                      *)
Longer(t, pos, dat, pos2, dat2) ==
  LET c == Out[t]
      n == Len(stream[c])
  IN  /\ Len(stream'[c]) > n
      /\ \A i \in 0 .. n : pos2[i] = pos[i] /\ dat2[i] = dat[i]
      /\ \A i \in n + 1 .. Len(stream'[c]) :
           /\ dat2[i] = dat2[n + 1] /\ pos2[i] = pos2[n + 1] + (i - n - 1)
      /\ IF work[t].begun
           THEN pos[n] # LengthOf(c) /\ pos2[n + 1] = pos[n] + 1 /\ dat2[n + 1] = dat[n]
           ELSE pos[n] = LengthOf(c) /\ pos2[n + 1] = 1
                /\ work[t].left = LeftOf(c, dat2[n + 1], 1)
      /\ work'[t] # Idle => work'[t].begun /\ work'[t].what = work[t].what
      /\ work'[t] = Idle <=> pos2[Len(stream'[c])] = LengthOf(c)

LEMMA FrameSend ==
  ASSUME TypeOK, SourceInv, JobInv, NEW t \in Threads, Send(t), Others(t) = {},
         NEW pos \in [0 .. Len(stream[Out[t]]) -> 1 .. LengthOf(Out[t])],
         NEW dat \in [0 .. Len(stream[Out[t]]) -> Datas],
         FrameState(Out[t], pos, dat)
  PROVE  \E pos2 \in [0 .. Len(stream'[Out[t]]) -> 1 .. LengthOf(Out[t])],
            dat2 \in [0 .. Len(stream'[Out[t]]) -> Datas] :
           FrameState(Out[t], pos2, dat2)' /\ Longer(t, pos, dat, pos2, dat2)
<1> DEFINE c == Out[t]
           L == LengthOf(c)
<1>0. c \in Conns /\ [Next]_vars /\ L \in Nat /\ L >= 5
  <2>1. c \in Conns
    BY Names
  <2> QED
    BY <2>1, Lengths DEF Next, Relay
<1>1. PICK n : n = Len(stream[c])
  OBVIOUS
<1>2. /\ stream[c] \in Seq(Char) /\ n \in Nat
      /\ pos \in [0 .. n -> 1 .. L] /\ dat \in [0 .. n -> Datas]
      /\ pos[n] \in 1 .. L /\ dat[n] \in Datas
  BY <1>0, <1>1, LenProperties DEF TypeOK
<1>3. Writes(c, pos[n], dat[n])
  <2>1. work[t] # Idle
    BY DEF Send, Put, Idle
  <2>2. c = "srt_snp" => open
    BY <2>1, Names DEF SourceInv, Out
  <2> QED
    BY <1>1, <2>2 DEF FrameState
<1>4. \E data \in Datas, k \in 1 .. L :
        /\ work[t].left = LeftOf(c, data, k)
        /\ work[t].begun <=> pos[n] # L
        /\ IF pos[n] = L THEN k = 1 ELSE k = pos[n] + 1 /\ data = dat[n]
        /\ NothingSpoilt => data \in Given
  <2>1. CASE work[t].begun
    <3>1. pos[n] # L /\ work[t].left = LeftOf(c, dat[n], pos[n] + 1)
      BY <1>3, <2>1 DEF Writes
    <3>2. pos[n] + 1 \in 1 .. L
      BY <1>0, <1>2, <3>1
    <3>3. NothingSpoilt => dat[n] \in Given
      BY <1>1, <1>2, <3>1 DEF FrameState
    <3> QED
      BY <1>2, <2>1, <3>1, <3>2, <3>3
  <2>2. CASE ~work[t].begun
    <3>1. \A o \in Threads : Out[o] = c => ~work[o].begun
      BY <2>2 DEF Others
    <3>2. pos[n] = L
      BY <1>3, <2>2, <3>1 DEF Writes
    <3>3. PICK data \in Datas, k \in 1 .. L : Sends(t, data, k)
      BY SendIs DEF Send
    <3>4. k = 1
      BY <1>0, <2>2, <3>3 DEF Sends
    <3> QED
      BY <2>2, <3>2, <3>3, <3>4 DEF Sends
  <2> QED
    BY <2>1, <2>2
<1>5. PICK data \in Datas, k \in 1 .. L :
        /\ work[t].left = LeftOf(c, data, k)
        /\ work[t].begun <=> pos[n] # L
        /\ IF pos[n] = L THEN k = 1 ELSE k = pos[n] + 1 /\ data = dat[n]
        /\ NothingSpoilt => data \in Given
  BY <1>4
<1>6. PICK j \in k .. L : SendsPart(t, data, k, j)
  BY <1>5, PutExtends DEF Send
<1>7. /\ stream' = [stream EXCEPT ![c] = @ \o Part(c, data, k, j)]
      /\ work' = [work EXCEPT ![t] =
           IF j = L THEN Idle
           ELSE [@ EXCEPT !.begun = TRUE, !.left = LeftOf(c, data, j + 1)]]
  BY <1>6 DEF SendsPart
<1>8. PICK m \in Nat : m = j - k + 1 /\ m > 0
  BY <1>0
<1>8a. k \in Nat /\ j \in Nat /\ k >= 1 /\ j <= L /\ n \in Nat /\ m \in Nat
       /\ L \in Nat /\ m = j - k + 1 /\ m > 0
  BY <1>0, <1>2, <1>8
<1>9. /\ Part(c, data, k, j) \in Seq(Char) /\ Len(Part(c, data, k, j)) = m
      /\ \A i \in 1 .. m : Part(c, data, k, j)[i] = FrameByte(c, data, k + i - 1)
  <2>1. k \in 1 .. L + 1 /\ j \in k - 1 .. L
    BY <1>0
  <2>2. Part(c, data, k, j) \in Seq(Char) /\ Len(Part(c, data, k, j)) = j - k + 1
    BY <1>0, <2>1, Chars, Parts DEF Datas
  <2> QED
    BY <1>8, <2>2 DEF Part
<1>10. /\ Len(stream'[c]) = n + m
       /\ \A i \in 1 .. n : stream'[c][i] = stream[c][i]
       /\ \A i \in n + 1 .. n + m :
            stream'[c][i] = FrameByte(c, data, k + (i - n) - 1)
  <2>1. stream'[c] = stream[c] \o Part(c, data, k, j)
    BY <1>0, <1>7 DEF TypeOK
  <2> DEFINE p == Part(c, data, k, j)
  <2> HIDE DEF p
  <2>2. /\ Len(stream[c] \o p) = Len(stream[c]) + Len(p)
        /\ \A i \in 1 .. Len(stream[c]) + Len(p) :
             (stream[c] \o p)[i] = IF i <= Len(stream[c]) THEN stream[c][i]
                                   ELSE p[i - Len(stream[c])]
    BY <1>2, <1>9, ConcatProperties DEF p
  <2>3. \A i \in n + 1 .. n + m : i \in 1 .. n + m /\ ~(i <= n) /\ i - n \in 1 .. m
    BY <1>2
  <2>4. \A i \in 1 .. n : i \in 1 .. n + m /\ i <= n
    BY <1>2
  <2> QED
    BY <1>1, <1>9, <2>1, <2>2, <2>3, <2>4 DEF p
<1>11. PICK pos2 \in [0 .. n + m -> 1 .. L], dat2 \in [0 .. n + m -> Datas] :
         \A i \in 0 .. n + m :
           IF i <= n THEN pos2[i] = pos[i] /\ dat2[i] = dat[i]
           ELSE pos2[i] = k + (i - n) - 1 /\ dat2[i] = data
  <2> DEFINE p == [i \in 0 .. n + m |-> IF i <= n THEN pos[i] ELSE k + (i - n) - 1]
             d == [i \in 0 .. n + m |-> IF i <= n THEN dat[i] ELSE data]
  <2>1. \A i \in 0 .. n + m :
          IF i <= n THEN i \in 0 .. n ELSE k + (i - n) - 1 \in 1 .. L
    BY <1>0, <1>2, <1>8
  <2>2. p \in [0 .. n + m -> 1 .. L]
    BY <1>2, <2>1
  <2>3. d \in [0 .. n + m -> Datas]
    BY <1>2, <2>1
  <2> QED
    BY <2>2, <2>3
<1>12. Framed(c, pos2, dat2)'
  <2> SUFFICES ASSUME NEW i \in 1 .. n + m
               PROVE  /\ stream'[c][i] = FrameByte(c, dat2[i], pos2[i])
                      /\ IF pos2[i - 1] = L THEN pos2[i] = 1
                         ELSE pos2[i] = pos2[i - 1] + 1 /\ dat2[i] = dat2[i - 1]
    BY <1>10 DEF Framed
  <2>1. CASE i <= n
    <3>1. i \in 1 .. n /\ i - 1 \in 0 .. n + m /\ i - 1 <= n /\ i \in 0 .. n + m
      BY <1>2, <2>1
    <3>2. /\ stream[c][i] = FrameByte(c, dat[i], pos[i])
          /\ IF pos[i - 1] = L THEN pos[i] = 1
             ELSE pos[i] = pos[i - 1] + 1 /\ dat[i] = dat[i - 1]
      BY <1>1, <3>1 DEF FrameState, Framed
    <3> QED
      BY <1>10, <1>11, <2>1, <3>1, <3>2
  <2>2. CASE i = n + 1
    <3>1. i \in n + 1 .. n + m /\ i - n = 1 /\ i - 1 = n /\ ~(i <= n)
          /\ i \in 0 .. n + m /\ n \in 0 .. n + m /\ n <= n /\ k + 1 - 1 = k
      BY <1>2, <1>8, <2>2
    <3>2. stream'[c][i] = FrameByte(c, data, k) /\ pos2[i] = k /\ dat2[i] = data
      BY <1>10, <1>11, <3>1
    <3>3. pos2[i - 1] = pos[n] /\ dat2[i - 1] = dat[n]
      BY <1>11, <3>1
    <3> QED
      BY <1>5, <3>2, <3>3
  <2>3. CASE i > n + 1
    <3>1. i \in n + 1 .. n + m /\ ~(i <= n) /\ ~(i - 1 <= n)
          /\ i \in 0 .. n + m /\ i - 1 \in 0 .. n + m
      BY <1>2, <1>8, <2>3
    <3>2. /\ stream'[c][i] = FrameByte(c, data, k + (i - n) - 1)
          /\ pos2[i] = k + (i - n) - 1 /\ dat2[i] = data
          /\ pos2[i - 1] = k + ((i - 1) - n) - 1 /\ dat2[i - 1] = data
      BY <1>10, <1>11, <3>1
    <3>3. pos2[i] = pos2[i - 1] + 1 /\ pos2[i - 1] # L
      <4>1. i \in Nat /\ i > n + 1 /\ i <= n + m
        BY <1>8a, <2>3, <3>1
      <4>2. k + (i - n) - 1 = (k + ((i - 1) - n) - 1) + 1
            /\ k + ((i - 1) - n) - 1 < L
        <5> HIDE DEF L
        <5> QED
          BY <1>8a, <4>1
      <4>3. k + ((i - 1) - n) - 1 # L
        <5> HIDE DEF L
        <5> QED
          BY <1>8a, <4>1, <4>2
      <4> QED
        BY <3>2, <4>2, <4>3
    <3> QED
      BY <3>2, <3>3
  <2> QED
    BY <1>2, <2>1, <2>2, <2>3
<1>13. pos2[0] = pos[0] /\ dat2[0] = dat[0] /\ pos2[n + m] = j /\ dat2[n + m] = data
  <2>1. 0 \in 0 .. n + m /\ 0 <= n /\ n + m \in 0 .. n + m /\ ~(n + m <= n)
        /\ k + ((n + m) - n) - 1 = j
    <3> HIDE DEF L
    <3> QED
      BY <1>8a
  <2>2. /\ pos2[0] = pos[0] /\ dat2[0] = dat[0]
        /\ pos2[n + m] = k + ((n + m) - n) - 1 /\ dat2[n + m] = data
    BY <1>11, <2>1
  <2> QED
    BY <2>1, <2>2
<1>14. Writes(c, j, data)'
  <2>1. \A o \in Threads \ {t} : Out[o] = c => ~work[o].begun /\ work'[o] = work[o]
    BY <1>7 DEF Others, TypeOK
  <2>2. CASE j = L
    <3>1. work'[t] = Idle
      BY <1>7, <2>2 DEF TypeOK
    <3> QED
      BY <2>1, <2>2, <3>1 DEF Writes, Idle
  <2>3. CASE j # L
    <3>1. work'[t] = [work[t] EXCEPT !.begun = TRUE, !.left = LeftOf(c, data, j + 1)]
      BY <1>7, <2>3 DEF TypeOK
    <3>2. work'[t].begun /\ work'[t].left = LeftOf(c, data, j + 1)
      BY <3>1 DEF TypeOK, Jobs
    <3> QED
      BY <2>1, <2>3, <3>2 DEF Writes
  <2> QED
    BY <2>2, <2>3
<1>15. NothingSpoilt' =>
         \A i \in 0 .. n + m : pos2[i] # L => dat2[i] \in Given'
  <2>1. NothingSpoilt' => NothingSpoilt /\ Given \subseteq Given'
    BY <1>0, Monotone
  <2>2. \A i \in 0 .. n + m : i <= n => i \in 0 .. n
    BY <1>2
  <2>3. NothingSpoilt => \A i \in 0 .. n : pos[i] # L => dat[i] \in Given
    BY <1>1 DEF FrameState
  <2> QED
    BY <1>5, <1>11, <2>1, <2>2, <2>3
<1>16. FrameState(c, pos2, dat2)'
  <2>1. reader' = reader
    BY DEF Send
  <2>2. Reads(c, reader'[c], pos2[0], dat2[0])
    BY <1>13, <2>1 DEF FrameState
  <2>3. c # "srt_snp" \/ open' => Writes(c, pos2[n + m], dat2[n + m])'
    BY <1>13, <1>14
  <2> QED
    BY <1>10, <1>12, <1>15, <2>2, <2>3 DEF FrameState
<1>17. Longer(t, pos, dat, pos2, dat2)
  <2>1. /\ n + 1 \in 0 .. n + m /\ ~(n + 1 <= n) /\ k + ((n + 1) - n) - 1 = k
        /\ \A i \in 0 .. n : i \in 0 .. n + m /\ i <= n
        /\ \A i \in n + 1 .. n + m :
             i \in 0 .. n + m /\ ~(i <= n) /\ k + (i - n) - 1 = k + (i - n - 1)
    <3> HIDE DEF L
    <3> QED
      BY <1>8a
  <2>2. pos2[n + 1] = k /\ dat2[n + 1] = data
    BY <1>11, <2>1
  <2>3. \A i \in 0 .. n : pos2[i] = pos[i] /\ dat2[i] = dat[i]
    BY <1>11, <2>1
  <2>4. \A i \in n + 1 .. n + m : dat2[i] = data /\ pos2[i] = k + (i - n - 1)
    BY <1>11, <2>1
  <2>5. work'[t] = IF j = L THEN Idle
                   ELSE [work[t] EXCEPT !.begun = TRUE, !.left = LeftOf(c, data, j + 1)]
    BY <1>7 DEF TypeOK
  <2>6. work'[t] # Idle => work'[t].begun /\ work'[t].what = work[t].what
    BY <2>5 DEF TypeOK, Jobs
  <2>7. work'[t] = Idle <=> j = L
    <3>1. j # L => work'[t].begun
      BY <2>5 DEF TypeOK, Jobs
    <3>2. j = L => work'[t] = Idle
      BY <2>5
    <3>3. Idle.begun = FALSE
      BY DEF Idle
    <3> HIDE DEF L
    <3> QED
      BY <3>1, <3>2, <3>3
  <2>8. Len(stream'[c]) = n + m /\ n + m > n
    BY <1>8a, <1>10
  <2> QED
    BY <1>1, <1>5, <1>13, <2>2, <2>3, <2>4, <2>6, <2>7, <2>8 DEF Longer
<1> QED
  BY <1>10, <1>16, <1>17

LEMMA SendStep ==
  ASSUME DataPathInv, NEW t \in Threads, Send(t)
  PROVE  DataPathInv'
<1>0. Out[t] \in Conns /\ [Next]_vars /\ TypeOK /\ SourceInv /\ JobInv /\ FrameInv
  BY Names DEF Next, Relay, DataPathInv
<1>1. TypeOK' /\ SourceInv' /\ JobInv'
  BY <1>0, SendTypes
<1>2. LastInv'
  BY <1>0, Monotone DEF LastInv, DataPathInv, Send
<1>3. /\ \A c \in Conns \ {Out[t]} : stream'[c] = stream[c]
      /\ \A o \in Threads \ {t} : work'[o] = work[o]
  BY <1>0 DEF Send, Put, TypeOK
<1>4. ASSUME NEW c \in Conns
      PROVE  FrameOK(c)'
  <2>1. CASE c \in overlapped
    BY <1>0, <2>1, Monotone DEF FrameOK
  <2>2. CASE c \notin overlapped /\ c # Out[t]
    <3>1. PICK pos \in [0 .. Len(stream[c]) -> 1 .. LengthOf(c)],
               dat \in [0 .. Len(stream[c]) -> Datas] : FrameState(c, pos, dat)
      BY <1>0, <2>2 DEF FrameInv, FrameOK
    <3>2. /\ stream'[c] = stream[c] /\ reader'[c] = reader[c] /\ open' = open
          /\ \A o \in Threads : Out[o] = c => work'[o] = work[o]
      BY <1>3, <2>2 DEF Send
    <3>3. FrameState(c, pos, dat)'
      BY <1>0, <3>1, <3>2, FrameKept
    <3> QED
      BY <3>2, <3>3 DEF FrameOK
  <2>3. CASE c = Out[t] /\ Others(t) # {}
    BY <2>3 DEF FrameOK, Send
  <2>4. CASE c \notin overlapped /\ c = Out[t] /\ Others(t) = {}
    <3>1. PICK pos \in [0 .. Len(stream[c]) -> 1 .. LengthOf(c)],
               dat \in [0 .. Len(stream[c]) -> Datas] : FrameState(c, pos, dat)
      BY <1>0, <2>4 DEF FrameInv, FrameOK
    <3>2. \E pos2 \in [0 .. Len(stream'[c]) -> 1 .. LengthOf(c)],
             dat2 \in [0 .. Len(stream'[c]) -> Datas] : FrameState(c, pos2, dat2)'
      BY <1>0, <2>4, <3>1, FrameSend
    <3> QED
      BY <3>2 DEF FrameOK
  <2> QED
    BY <2>1, <2>2, <2>3, <2>4
<1> QED
  BY <1>1, <1>2, <1>4 DEF FrameInv, DataPathInv

(* No frame is begun or goes on, but a thread may be given one. *)
StartsOnly ==
  \A t \in Threads :
    work'[t] = work[t] \/ (work[t] = Idle /\ work'[t].begun = FALSE)

LEMMA StartedOnly ==
  ASSUME StartsOnly, NEW t \in Threads
  PROVE  work'[t].begun = work[t].begun /\ (work[t].begun => work'[t] = work[t])
<1>1. CASE work'[t] = work[t]
  BY <1>1
<1>2. CASE work[t] = Idle /\ work'[t].begun = FALSE
  <2>1. work[t].begun = FALSE
    BY <1>2 DEF Idle
  <2> QED
    BY <1>2, <2>1
<1> QED
  BY <1>1, <1>2 DEF StartsOnly

LEMMA FramesKept ==
  ASSUME DataPathInv, [Next]_vars, StartsOnly, NEW c \in Conns,
         stream'[c] = stream[c], reader'[c] = reader[c], open' = open
  PROVE  FrameOK(c)'
<1>0. TypeOK /\ FrameInv
  BY DEF DataPathInv
<1>1. CASE c \in overlapped
  BY <1>0, <1>1, Monotone DEF FrameOK
<1>2. CASE c \notin overlapped
  <2>1. PICK pos \in [0 .. Len(stream[c]) -> 1 .. LengthOf(c)],
             dat \in [0 .. Len(stream[c]) -> Datas] : FrameState(c, pos, dat)
    BY <1>0, <1>2 DEF FrameInv, FrameOK
  <2>2. FrameState(c, pos, dat)'
    BY <1>0, <2>1, StartedOnly, FrameKept
  <2> QED
    BY <2>2 DEF FrameOK
<1> QED
  BY <1>1, <1>2

(* A reader takes a byte: what then holds whatever is done with the data. *)
LEMMA ReaderStep ==
  ASSUME DataPathInv, [Next]_vars, NEW c \in Conns, Middle(c) \/ Returns(c),
         StartsOnly, open' = open
  PROVE  /\ FrameInv'
         /\ stream' \in [Conns -> Seq(Char)]
         /\ \A d \in Conns : Len(stream'[d]) <= StreamCap
         /\ reader' \in [Conns -> Readers]
         /\ \A d \in Conns : Len(reader'[d].buf) <= Size[d] + 2
         /\ stream'["srt_snp"] \in Seq(SourceChar)
         /\ reader'["srt_snp"].buf \in Seq(SourceChar)
         /\ Returns(c) => \A s \in Contents(c, After(c).buf) :
              /\ Data(s) \in Datas
              /\ c = "srt_snp" => Data(s) \in [1 .. SegSize -> SourceChar]
              /\ NothingSpoilt' => Data(s) \in Given'
<1>0. TypeOK /\ SourceInv /\ FrameInv /\ TakeByte(c)
  BY DEF DataPathInv, Middle, Returns
<1>1. /\ stream' \in [Conns -> Seq(Char)]
      /\ \A d \in Conns : Len(stream'[d]) <= StreamCap
      /\ stream'["srt_snp"] \in Seq(SourceChar)
      /\ After(c).state # "complete" => After(c) \in Readers
      /\ After(c).buf \in Seq(Char) /\ Len(After(c).buf) <= Size[c] + 2
      /\ c = "srt_snp" => After(c).buf \in Seq(SourceChar)
  BY <1>0, TakeTypes
<1>2. reader' = [reader EXCEPT ![c] =
        IF After(c).state = "complete" THEN Ready ELSE After(c)]
  BY DEF Middle, Returns
<1>3. /\ reader'[c] = IF After(c).state = "complete" THEN Ready ELSE After(c)
      /\ \A d \in Conns \ {c} : reader'[d] = reader[d] /\ stream'[d] = stream[d]
  BY <1>0, <1>2 DEF TypeOK, TakeByte
<1>4. /\ Ready \in Readers /\ Ready.buf = <<>> /\ Len(Ready.buf) = 0
      /\ Ready.buf \in Seq(SourceChar)
  BY DEF Ready, Readers
<1>5. /\ reader'[c] \in Readers /\ Len(reader'[c].buf) <= Size[c] + 2
      /\ c = "srt_snp" => reader'[c].buf \in Seq(SourceChar)
  <2>1. Size[c] \in Nat
    BY Lengths
  <2>2. CASE After(c).state = "complete"
    <3>1. reader'[c] = Ready
      BY <1>3, <2>2
    <3>2. 0 <= Size[c] + 2
      BY <2>1
    <3> QED
      BY <1>4, <3>1, <3>2
  <2>3. CASE After(c).state # "complete"
    <3>1. reader'[c] = After(c)
      BY <1>3, <2>3
    <3> QED
      BY <1>1, <2>3, <3>1
  <2> QED
    BY <2>2, <2>3
<1>6. /\ reader' \in [Conns -> Readers]
      /\ \A d \in Conns : Len(reader'[d].buf) <= Size[d] + 2
      /\ reader'["srt_snp"].buf \in Seq(SourceChar)
  BY <1>0, <1>2, <1>3, <1>5, Names DEF TypeOK, SourceInv
<1>7. ASSUME NEW s \in Contents(c, After(c).buf)
      PROVE  /\ Data(s) \in Datas
             /\ c = "srt_snp" => Data(s) \in [1 .. SegSize -> SourceChar]
  BY <1>1, Chars, WhatIsRead DEF Datas
<1>8. c \notin overlapped => \E pos \in [0 .. Len(stream[c]) -> 1 .. LengthOf(c)],
        dat \in [0 .. Len(stream[c]) -> Datas] : FrameState(c, pos, dat)
  BY <1>0 DEF FrameInv, FrameOK
<1>9. ASSUME c \notin overlapped
      PROVE  /\ \E pos2 \in [0 .. Len(stream'[c]) -> 1 .. LengthOf(c)],
                   dat2 \in [0 .. Len(stream'[c]) -> Datas] :
                  FrameState(c, pos2, dat2)'
             /\ NothingSpoilt /\ After(c).state = "complete" =>
                  \A s \in Contents(c, After(c).buf) : Data(s) \in Given
  BY <1>0, <1>3, <1>8, <1>9, StartedOnly, FrameTake
<1>10. FrameOK(c)'
  BY <1>0, <1>9, Monotone DEF FrameOK
<1>11. FrameInv'
  BY <1>3, <1>10, FramesKept DEF FrameInv
<1>12. NothingSpoilt' /\ Returns(c) =>
         \A s \in Contents(c, After(c).buf) : Data(s) \in Given'
  BY <1>0, <1>9, Monotone DEF NothingSpoilt, Returns
<1> QED
  BY <1>1, <1>6, <1>7, <1>11, <1>12

(* A thread is given a frame to send. *)
FrameFor(t, data) ==
  [left |-> LeftOf(Out[t], data, 1), begun |-> FALSE, what |-> ItemOf(data)]

LEMMA GiveJobs ==
  ASSUME DataPathInv, [Next]_vars, NEW t \in Threads, NEW data \in Datas,
         Give(t, FrameFor(t, data)),
         Out[t] = "srt_snp" =>
           data \in [1 .. SegSize -> SourceChar] /\ ItemOf(data) \in Segments,
         NothingSpoilt' => data \in Given'
  PROVE  /\ StartsOnly /\ JobInv' /\ work' \in [Threads -> Jobs]
         /\ \A o \in Threads : Len(work'[o].left) <= 3
<1>1. TypeOK /\ JobInv
  BY DEF DataPathInv
<1>2. /\ work[t] = Idle /\ work'[t] = FrameFor(t, data)
      /\ \A o \in Threads \ {t} : work'[o] = work[o]
      /\ work' = [work EXCEPT ![t] = FrameFor(t, data)]
  BY <1>1 DEF Give, TypeOK
<1>3. Job(t)' /\ work'[t] \in Jobs /\ Len(work'[t].left) <= 3
  BY <1>1, <1>2, JobGiven DEF FrameFor
<1>4. JobInv'
  BY <1>1, <1>2, <1>3, JobKept DEF JobInv
<1>5. StartsOnly
  BY <1>2 DEF StartsOnly, FrameFor
<1> QED
  BY <1>1, <1>2, <1>3, <1>4, <1>5 DEF TypeOK

LEMMA GivenFrames ==
  ASSUME NEW data \in Datas
  PROVE  /\ snp_sendseg(data) = FrameFor("app", data)
         /\ snp_sendseg(data) = FrameFor("timer", data)
         /\ overlay_sendpkt(data) = FrameFor("waitTransport", data)
         /\ overlay_sendpkt(data) = FrameFor("routeupdate_daemon", data)
         /\ sendpkt(data) = FrameFor("waitNetwork", data)
         /\ forwardpktToSNP(data) = FrameFor("listener", data)
         /\ forwardpktToSNP(data) = FrameFor("otherListener", data)
         /\ forwardsegToSRT(data) = FrameFor("pkthandler", data)
<1>1. \A c \in Conns \ {"snp_on"} :
        << << "!", "&" >>, << Node >> \o data, << "!", "#" >> >>
          = LeftOf(c, data, 1)
  BY CallsAreFrames
<1>2. << << "!", "&" >>, << Node, Node >> \o data, << "!", "#" >> >>
        = LeftOf("snp_on", data, 1)
  BY CallsAreFrames, Names
<1>3. /\ Out["app"] = "srt_snp" /\ Out["timer"] = "srt_snp"
      /\ Out["waitTransport"] = "snp_on" /\ Out["routeupdate_daemon"] = "snp_on"
      /\ Out["waitNetwork"] = "on_on" /\ Out["listener"] = "on_snp"
      /\ Out["otherListener"] = "on_snp" /\ Out["pkthandler"] = "snp_srt"
  BY DEF Out
<1>4. {"srt_snp", "on_on", "on_snp", "snp_srt"} \subseteq Conns \ {"snp_on"}
  BY Names
<1> QED
  BY <1>1, <1>2, <1>3, <1>4 DEF FrameFor, Calls, snp_sendseg, overlay_sendpkt,
     sendpkt, forwardpktToSNP, forwardsegToSRT

LEMMA EnterStep ==
  ASSUME DataPathInv, NEW t \in Threads, NEW x \in Items, Enter(t, x)
  PROVE  DataPathInv'
<1>0. [Next]_vars /\ TypeOK /\ SourceInv /\ FrameInv
  BY DEF Next, DataPathInv
<1> DEFINE data == Bytes[x]
<1>1. data \in Datas /\ ItemOf(data) = x /\ data \in Given'
  BY <1>0, BytesAreData, ItemOfBytes DEF Enter, Given
<1>2. Give(t, FrameFor(t, data)) /\ (Out[t] = "srt_snp" => t \in {"app", "timer"} /\ open)
  BY <1>1, GivenFrames DEF Enter, Out
<1>3. Out[t] = "srt_snp" =>
        data \in [1 .. SegSize -> SourceChar] /\ ItemOf(data) \in Segments
  <2> SUFFICES ASSUME Out[t] = "srt_snp"
               PROVE  data \in [1 .. SegSize -> SourceChar] /\ ItemOf(data) \in Segments
    OBVIOUS
  <2>1. x \in Segments
    BY <1>2, DataPathAssumption DEF Enter, Items
  <2> QED
    BY <1>1, <2>1, BytesAreData
<1>4. /\ StartsOnly /\ JobInv' /\ work' \in [Threads -> Jobs]
      /\ \A o \in Threads : Len(work'[o].left) <= 3
  <2> HIDE DEF data
  <2> QED
    BY <1>0, <1>1, <1>2, <1>3, GiveJobs
<1>5. FrameInv'
  BY <1>0, <1>4, FramesKept DEF FrameInv, Enter
<1>6. TypeOK'
  BY <1>0, <1>4 DEF TypeOK, Enter
<1>7. LastInv'
  BY <1>0, Monotone DEF LastInv, DataPathInv, Enter
<1>8. SourceInv'
  <2>1. t \in {"app", "timer"} => open
    BY <1>2 DEF Out
  <2>2. \A o \in {"app", "timer"} \ {t} : work'[o] = work[o]
    BY <1>0, Names DEF Enter, Give, TypeOK
  <2> QED
    BY <1>0, <2>1, <2>2 DEF SourceInv, Enter
<1> QED
  BY <1>4, <1>5, <1>6, <1>7, <1>8 DEF DataPathInv

LEMMA ReceiveStep ==
  ASSUME DataPathInv, NEW c \in Conns, Receive(c)
  PROVE  DataPathInv'
<1>0. [Next]_vars /\ TypeOK /\ SourceInv /\ JobInv
  BY DEF Next, Relay, DataPathInv
<1>1. StartsOnly /\ open' = open /\ Middle(c)
  BY DEF Receive, StartsOnly
<1>2. /\ FrameInv'
      /\ stream' \in [Conns -> Seq(Char)]
      /\ \A d \in Conns : Len(stream'[d]) <= StreamCap
      /\ reader' \in [Conns -> Readers]
      /\ \A d \in Conns : Len(reader'[d].buf) <= Size[d] + 2
      /\ stream'["srt_snp"] \in Seq(SourceChar)
      /\ reader'["srt_snp"].buf \in Seq(SourceChar)
  BY <1>0, <1>1, ReaderStep
<1>3. JobInv'
  BY <1>0, JobKept DEF JobInv, Receive
<1>4. TypeOK'
  BY <1>0, <1>2 DEF TypeOK, Receive
<1>5. SourceInv'
  BY <1>0, <1>2 DEF SourceInv, Receive
<1>6. LastInv'
  BY <1>0, Monotone DEF LastInv, DataPathInv, Receive
<1> QED
  BY <1>2, <1>3, <1>4, <1>5, <1>6 DEF DataPathInv

(* A structure has been read, and thread t is given what was in it. *)
LEMMA PassOn ==
  ASSUME DataPathInv, [Next]_vars, NEW c \in Conns, Returns(c),
         NEW t \in Threads, NEW s \in Contents(c, After(c).buf),
         Give(t, FrameFor(t, Data(s))), t \notin {"app", "timer"},
         last' = last \/ (c = "srt_snp" /\ last' = Data(s)),
         UNCHANGED << fresh, open, closes, sent, got, excused, overlapped >>
  PROVE  DataPathInv'
<1>0. TypeOK /\ SourceInv /\ JobInv
  BY DEF DataPathInv
<1> DEFINE data == Data(s)
           typed == /\ data \in Datas
                    /\ c = "srt_snp" => data \in [1 .. SegSize -> SourceChar]
                    /\ NothingSpoilt' => data \in Given'
<1>1. StartsOnly
  BY <1>0 DEF StartsOnly, Give, FrameFor, TypeOK
<1>2. /\ FrameInv'
      /\ stream' \in [Conns -> Seq(Char)]
      /\ \A d \in Conns : Len(stream'[d]) <= StreamCap
      /\ reader' \in [Conns -> Readers]
      /\ \A d \in Conns : Len(reader'[d].buf) <= Size[d] + 2
      /\ stream'["srt_snp"] \in Seq(SourceChar)
      /\ reader'["srt_snp"].buf \in Seq(SourceChar)
      /\ typed
  BY <1>1, ReaderStep
<1>3. Out[t] # "srt_snp"
  BY Names DEF Out
<1>4. JobInv' /\ work' \in [Threads -> Jobs]
      /\ \A o \in Threads : Len(work'[o].left) <= 3
  BY <1>2, <1>3, GiveJobs
<1>5. TypeOK'
  <2>1. last' = <<>> \/ last' \in [1 .. SegSize -> Char]
    BY <1>0, <1>2 DEF TypeOK, Datas
  <2> QED
    BY <1>0, <1>2, <1>4, <2>1 DEF TypeOK
<1>6. SourceInv'
  <2>1. work'["app"] = work["app"] /\ work'["timer"] = work["timer"]
    BY <1>0, Names DEF Give, TypeOK
  <2>2. last' = <<>> \/ last' \in [1 .. SegSize -> SourceChar]
    BY <1>0, <1>2 DEF SourceInv
  <2> QED
    BY <1>0, <1>2, <2>1, <2>2 DEF SourceInv
<1>7. LastInv'
  BY <1>0, <1>2, Monotone DEF LastInv, DataPathInv
<1> QED
  BY <1>2, <1>4, <1>5, <1>6, <1>7 DEF DataPathInv

(* The same, and nobody is given anything. *)
LEMMA KeepForItself ==
  ASSUME DataPathInv, [Next]_vars, NEW c \in Conns, Returns(c),
         UNCHANGED << fresh, work, last, open, closes, sent, overlapped >>,
         got' \in Seq(Segments), excused' \subseteq Items \cup {None}
  PROVE  DataPathInv'
<1>0. TypeOK /\ SourceInv /\ JobInv
  BY DEF DataPathInv
<1>1. StartsOnly
  BY DEF StartsOnly
<1>2. /\ FrameInv'
      /\ stream' \in [Conns -> Seq(Char)]
      /\ \A d \in Conns : Len(stream'[d]) <= StreamCap
      /\ reader' \in [Conns -> Readers]
      /\ \A d \in Conns : Len(reader'[d].buf) <= Size[d] + 2
      /\ stream'["srt_snp"] \in Seq(SourceChar)
      /\ reader'["srt_snp"].buf \in Seq(SourceChar)
  BY <1>1, ReaderStep
<1>3. JobInv'
  BY <1>0, JobKept DEF JobInv
<1>4. TypeOK' /\ SourceInv'
  BY <1>0, <1>2 DEF TypeOK, SourceInv
<1>5. LastInv'
  BY <1>0, Monotone DEF LastInv, DataPathInv
<1> QED
  BY <1>2, <1>3, <1>4, <1>5 DEF DataPathInv

LEMMA ReadIsData ==
  ASSUME DataPathInv, NEW c \in Conns, Returns(c),
         NEW s \in Contents(c, After(c).buf)
  PROVE  Data(s) \in Datas
<1>1. After(c).buf \in Seq(Char)
  BY TakeTypes DEF DataPathInv, Returns
<1> QED
  BY <1>1, Chars, WhatIsRead DEF Datas

LEMMA RelayStep ==
  ASSUME DataPathInv, Relay
  PROVE  DataPathInv'
<1>0. [Next]_vars /\ TypeOK
  BY DEF Next, DataPathInv
<1>1. ASSUME NEW t \in Threads, Send(t)
      PROVE  DataPathInv'
  BY <1>1, SendStep
<1>2. ASSUME NEW c \in Conns, Receive(c)
      PROVE  DataPathInv'
  BY <1>2, ReceiveStep
<1>3. CASE getsegToSend
  <2>0. Returns("srt_snp") /\ "srt_snp" \in Conns /\ "waitTransport" \in Threads
    BY <1>3, Names DEF getsegToSend
  <2>1. PICK s \in Contents("srt_snp", After("srt_snp").buf) :
          /\ Give("waitTransport", overlay_sendpkt(Data(s)))
          /\ last' = Data(s)
    BY <1>3 DEF getsegToSend
  <2>2. Data(s) \in Datas
    BY <2>0, ReadIsData
  <2>3. Give("waitTransport", FrameFor("waitTransport", Data(s)))
    BY <2>1, <2>2, GivenFrames
  <2> QED
    BY <1>0, <1>3, <2>0, <2>1, <2>3, PassOn DEF getsegToSend
<1>4. CASE getpktToSend
  <2>0. Returns("snp_on") /\ "snp_on" \in Conns /\ "waitNetwork" \in Threads
    BY <1>4, Names DEF getpktToSend
  <2>1. PICK s \in Contents("snp_on", After("snp_on").buf) :
          Give("waitNetwork", sendpkt(Data(s)))
    BY <1>4 DEF getpktToSend
  <2>2. Data(s) \in Datas
    BY <2>0, ReadIsData
  <2>3. Give("waitNetwork", FrameFor("waitNetwork", Data(s)))
    BY <2>1, <2>2, GivenFrames
  <2> QED
    BY <1>0, <1>4, <2>0, <2>3, PassOn DEF getpktToSend
<1>5. CASE recvpkt
  <2>0. Returns("on_on") /\ "on_on" \in Conns /\ "listener" \in Threads
    BY <1>5, Names DEF recvpkt
  <2>1. PICK s \in Contents("on_on", After("on_on").buf) :
          Give("listener", forwardpktToSNP(Data(s)))
    BY <1>5 DEF recvpkt
  <2>2. Data(s) \in Datas
    BY <2>0, ReadIsData
  <2>3. Give("listener", FrameFor("listener", Data(s)))
    BY <2>1, <2>2, GivenFrames
  <2> QED
    BY <1>0, <1>5, <2>0, <2>3, PassOn DEF recvpkt
<1>6. CASE overlay_recvpkt
  <2>0. Returns("on_snp") /\ "on_snp" \in Conns /\ "pkthandler" \in Threads
    BY <1>6, Names DEF overlay_recvpkt
  <2>1. PICK s \in Contents("on_snp", After("on_snp").buf) :
          UNCHANGED work \/ Give("pkthandler", forwardsegToSRT(Data(s)))
    BY <1>6 DEF overlay_recvpkt
  <2>2. Data(s) \in Datas
    BY <2>0, ReadIsData
  <2>3. CASE UNCHANGED work
    BY <1>0, <1>6, <2>0, <2>3, KeepForItself DEF overlay_recvpkt, TypeOK
  <2>4. CASE Give("pkthandler", forwardsegToSRT(Data(s)))
    <3>1. Give("pkthandler", FrameFor("pkthandler", Data(s)))
      BY <2>2, <2>4, GivenFrames
    <3> QED
      BY <1>0, <1>6, <2>0, <3>1, PassOn DEF overlay_recvpkt
  <2> QED
    BY <2>1, <2>3, <2>4
<1>7. CASE snp_recvseg
  <2>0. Returns("snp_srt") /\ "snp_srt" \in Conns
    BY <1>7, Names DEF snp_recvseg
  <2>1. PICK s \in Contents("snp_srt", After("snp_srt").buf) :
          \/ /\ ItemOf(Data(s)) \in Segments
             /\ got' = Append(got, ItemOf(Data(s))) /\ excused' = excused
          \/ got' = got /\ excused' = excused \cup {ItemOf(Data(s))}
    BY <1>7 DEF snp_recvseg
  <2>2. got' \in Seq(Segments) /\ excused' \subseteq Items \cup {None}
    <3>1. got \in Seq(Segments) /\ excused \subseteq Items \cup {None}
          /\ ItemOf(Data(s)) \in Items \cup {None}
      BY <1>0, ItemOfBytes DEF TypeOK
    <3>2. ItemOf(Data(s)) \in Segments => Append(got, ItemOf(Data(s))) \in Seq(Segments)
      BY <3>1, AppendProperties
    <3> QED
      BY <2>1, <3>1, <3>2
  <2> QED
    BY <1>0, <1>7, <2>0, <2>2, KeepForItself DEF snp_recvseg
<1> QED
  BY <1>1, <1>2, <1>3, <1>4, <1>5, <1>6, <1>7 DEF Relay

LEMMA ClosesStep ==
  ASSUME DataPathInv, SrtCloses
  PROVE  DataPathInv'
<1>0. [Next]_vars /\ TypeOK /\ SourceInv /\ JobInv /\ FrameInv
  BY DEF Next, DataPathInv
<1>1. /\ work'["app"] = Idle /\ work'["timer"] = Idle
      /\ \A t \in Threads \ {"app", "timer"} : work'[t] = work[t]
      /\ \A t \in Threads : work'[t] = Idle \/ work'[t] = work[t]
      /\ work' \in [Threads -> Jobs]
      /\ \A t \in Threads : Len(work'[t].left) <= 3
  <2>1. Idle \in Jobs /\ Len(Idle.left) = 0
    BY DEF Idle, Jobs
  <2>2. work' = [work EXCEPT !["app"] = Idle, !["timer"] = Idle]
    BY DEF SrtCloses
  <2>3. work \in [Threads -> Jobs] /\ {"app", "timer"} \subseteq Threads
    BY <1>0, Names DEF TypeOK
  <2>4. \A t \in Threads : work'[t] = IF t \in {"app", "timer"} THEN Idle ELSE work[t]
    BY <2>2, <2>3
  <2>5. work' \in [Threads -> Jobs]
    BY <2>1, <2>2, <2>3
  <2>6. \A t \in Threads : Len(work[t].left) <= 3
    BY <1>0 DEF TypeOK
  <2>7. \A t \in Threads : Len(work'[t].left) <= 3
    BY <2>1, <2>4, <2>6
  <2> QED
    BY <2>3, <2>4, <2>5, <2>7
<1>2. JobInv'
  BY <1>0, <1>1, JobKept DEF JobInv
<1>3. TypeOK'
  <2>1. work["app"].what \in Items \cup {None} /\ work["timer"].what \in Items \cup {None}
    BY <1>0, Names DEF TypeOK, Jobs
  <2>2. closes' \in 0 .. MaxCloses
    BY <1>0, DataPathAssumption DEF SrtCloses, TypeOK
  <2> QED
    BY <1>0, <1>1, <2>1, <2>2 DEF SrtCloses, TypeOK
<1>4. SourceInv'
  BY <1>0, <1>1 DEF SourceInv, SrtCloses
<1>5. LastInv'
  BY <1>0, Monotone DEF LastInv, DataPathInv, SrtCloses
<1>6. ASSUME NEW c \in Conns, c \notin overlapped
      PROVE  FrameOK(c)'
  <2>1. PICK pos \in [0 .. Len(stream[c]) -> 1 .. LengthOf(c)],
             dat \in [0 .. Len(stream[c]) -> Datas] : FrameState(c, pos, dat)
    BY <1>0, <1>6 DEF FrameInv, FrameOK
  <2>2. c # "srt_snp" \/ open' =>
          /\ c # "srt_snp" \/ open
          /\ \A t \in Threads : Out[t] = c => work'[t] = work[t]
    BY <1>1 DEF SrtCloses, Out
  <2>3. FrameState(c, pos, dat)'
    BY <1>0, <2>1, <2>2, FrameKept DEF SrtCloses
  <2> QED
    BY <2>3 DEF FrameOK, SrtCloses
<1>7. FrameInv'
  BY <1>6 DEF FrameInv, FrameOK, SrtCloses
<1> QED
  BY <1>2, <1>3, <1>4, <1>5, <1>7 DEF DataPathInv

(* Bytes that were never written are no item's. *)
LEMMA StaleIsNothing ==
  ASSUME NEW data \in [1 .. SegSize -> Stale]
  PROVE  ItemOf(data) = None
<1> SUFFICES ASSUME NEW x \in Items, Bytes[x] = data
             PROVE  FALSE
  BY DEF ItemOf
<1>1. PICK v \in Range(Bytes[x]) : v \notin Stale
  BY DataPathAssumption
<1> QED
  BY <1>1 DEF Range

LEMMA WaitTransportStep ==
  ASSUME DataPathInv, waitTransport
  PROVE  DataPathInv'
<1>0. [Next]_vars /\ TypeOK /\ SourceInv /\ JobInv /\ FrameInv
  BY DEF Next, DataPathInv
<1>1. PICK data \in IF last = <<>> THEN [1 .. SegSize -> Stale] ELSE {last} :
        /\ Give("waitTransport", overlay_sendpkt(data))
        /\ sent' = Append(sent, ItemOf(data))
        /\ last' = data
  BY DEF waitTransport
<1>2. data \in Datas /\ data \in [1 .. SegSize -> SourceChar]
  <2>1. CASE last = <<>>
    BY <1>1, <2>1, Chars DEF Datas
  <2>2. CASE last # <<>>
    BY <1>0, <1>1, <2>2 DEF TypeOK, SourceInv, Datas
  <2> QED
    BY <2>1, <2>2
<1>3. ItemOf(data) \in Segments \cup {None}
  BY <1>2, SourceIsNoUpdate
<1>4. sent \in Seq(Segments \cup {None}) /\ sent' \in Seq(Segments \cup {None})
      /\ ItemOf(data) \in Range(sent')
  <2>1. /\ sent' \in Seq(Segments \cup {None}) /\ Len(sent') = Len(sent) + 1
        /\ sent'[Len(sent) + 1] = ItemOf(data) /\ Len(sent) \in Nat
    BY <1>0, <1>1, <1>3, AppendProperties, LenProperties DEF TypeOK
  <2>2. DOMAIN sent' = 1 .. Len(sent) + 1 /\ Len(sent) + 1 \in 1 .. Len(sent) + 1
    BY <2>1, LenProperties
  <2>3. ItemOf(data) \in Range(sent')
    BY <2>1, <2>2 DEF Range
  <2> QED
    BY <1>0, <2>1, <2>3 DEF TypeOK
<1>5. NothingSpoilt' => data \in Given'
  <2> SUFFICES ASSUME NothingSpoilt'
               PROVE  data \in Given'
    OBVIOUS
  <2>1. NothingSpoilt /\ Given \subseteq Given'
    BY <1>0, Monotone
  <2>2. ItemOf(data) # None
    BY <1>4 DEF NothingSpoilt
  <2>3. last # <<>> /\ data = last
    BY <1>1, <2>2, StaleIsNothing
  <2> QED
    BY <2>1, <2>3 DEF LastInv, DataPathInv
<1>6. "waitTransport" \in Threads /\ Out["waitTransport"] # "srt_snp"
      /\ Give("waitTransport", FrameFor("waitTransport", data))
  BY <1>1, <1>2, Names, GivenFrames DEF Out
<1>7. /\ StartsOnly /\ JobInv' /\ work' \in [Threads -> Jobs]
      /\ \A o \in Threads : Len(work'[o].left) <= 3
  BY <1>0, <1>2, <1>5, <1>6, GiveJobs
<1>8. /\ stream' = stream /\ "srt_snp" \in Conns
      /\ reader' = [reader EXCEPT !["srt_snp"] = Ready]
      /\ reader'["srt_snp"] = Ready
      /\ \A c \in Conns \ {"srt_snp"} : reader'[c] = reader[c]
      /\ Ready \in Readers /\ Len(Ready.buf) = 0 /\ Ready.buf = <<>>
      /\ overlapped' = overlapped /\ stream["srt_snp"] = <<>> /\ ~open
  BY <1>0, Names DEF waitTransport, TypeOK, Ready, Readers
<1>9. TypeOK'
  <2>1. \A c \in Conns : Size[c] \in Nat
    BY Lengths
  <2>2. \A c \in Conns : Len(reader'[c].buf) <= Size[c] + 2
    BY <1>0, <1>8, <2>1 DEF TypeOK
  <2>3. reader' \in [Conns -> Readers]
    BY <1>0, <1>8 DEF TypeOK
  <2> QED
    BY <1>0, <1>1, <1>2, <1>4, <1>7, <1>8, <2>2, <2>3 DEF TypeOK, waitTransport, Datas
<1>10. SourceInv'
  BY <1>0, <1>1, <1>2, <1>8 DEF SourceInv, waitTransport
<1>11. LastInv'
  BY <1>1, <1>5 DEF LastInv
<1>12. ASSUME NEW c \in Conns, c \notin overlapped, c # "srt_snp"
       PROVE  FrameOK(c)'
  <2>1. PICK pos \in [0 .. Len(stream[c]) -> 1 .. LengthOf(c)],
             dat \in [0 .. Len(stream[c]) -> Datas] : FrameState(c, pos, dat)
    BY <1>0, <1>12 DEF FrameInv, FrameOK
  <2>2. FrameState(c, pos, dat)'
    BY <1>0, <1>7, <1>8, <1>12, <2>1, StartedOnly, FrameKept
  <2> QED
    BY <1>8, <2>2 DEF FrameOK
<1>13. FrameOK("srt_snp")'
  <2>0. PICK c : c = "srt_snp"
    OBVIOUS
  <2>1. PICK pos : pos = [i \in 0 .. 0 |-> LengthOf(c)]
    OBVIOUS
  <2>2. PICK dat : dat = [i \in 0 .. 0 |-> data]
    OBVIOUS
  <2>3. /\ c \in Conns /\ Len(stream'[c]) = 0
        /\ pos \in [0 .. 0 -> 1 .. LengthOf(c)] /\ dat \in [0 .. 0 -> Datas]
        /\ pos[0] = LengthOf(c) /\ \A i \in 0 .. 0 : pos[i] = LengthOf(c)
    BY <1>2, <1>8, <2>0, <2>1, <2>2, Lengths
  <2>4. Framed(c, pos, dat)'
    BY <2>3 DEF Framed
  <2>5. Reads(c, reader'[c], pos[0], dat[0])
    <3>1. LengthOf(c) # 1 /\ LengthOf(c) # LengthOf(c) - 1
          /\ LengthOf(c) \notin 2 .. LengthOf(c) - 1 /\ ~(LengthOf(c) <= 2)
          /\ LengthOf(c) - 2 >= 0
      BY <2>3, Lengths
    <3>2. Ready.state = "PKTSTART1" /\ Ready.buf = <<>> /\ Len(<<>>) = 0
          /\ <<>> \in Seq(Char)
      BY DEF Ready
    <3> QED
      BY <1>8, <2>0, <2>3, <3>1, <3>2 DEF Reads
  <2>6. \A t \in Threads : Out[t] = c => ~work'[t].begun
    <3>1. \A t \in Threads : Out[t] = c => t \in {"app", "timer"}
      BY <2>0, Names DEF Out
    <3>2. work["app"] = Idle /\ work["timer"] = Idle
      BY <1>0, <1>8 DEF SourceInv
    <3>3. \A t \in Threads : Out[t] = c => work[t].begun = FALSE
      BY <3>1, <3>2 DEF Idle
    <3> QED
      BY <1>7, <3>3, StartedOnly
  <2>7. Writes(c, pos[0], dat[0])'
    BY <2>3, <2>6 DEF Writes
  <2>8. FrameState(c, pos, dat)'
    BY <2>3, <2>4, <2>5, <2>7 DEF FrameState
  <2> QED
    <3>1. FrameOK(c)'
      BY <2>3, <2>8 DEF FrameOK
    <3> QED
      BY <2>0, <3>1
<1>14. FrameInv'
  <2>1. ASSUME NEW c \in Conns, c \in overlapped
        PROVE  FrameOK(c)'
    BY <1>8, <2>1 DEF FrameOK
  <2> QED
    BY <1>12, <1>13, <2>1 DEF FrameInv
<1> QED
  BY <1>7, <1>9, <1>10, <1>11, <1>14 DEF DataPathInv

LEMMA InvStep ==
  ASSUME DataPathInv, [Next]_vars
  PROVE  DataPathInv'
<1>1. CASE Relay
  BY <1>1, RelayStep
<1>2. ASSUME NEW t \in Threads, NEW x \in Items, Enter(t, x)
      PROVE  DataPathInv'
  BY <1>2, EnterStep
<1>3. CASE SrtCloses
  BY <1>3, ClosesStep
<1>4. CASE waitTransport
  BY <1>4, WaitTransportStep
<1>5. CASE UNCHANGED vars
  <2>1. TypeOK' /\ SourceInv' /\ StartsOnly
    BY <1>5 DEF vars, DataPathInv, TypeOK, SourceInv, StartsOnly
  <2>2. LastInv'
    BY <1>5, Monotone DEF vars, DataPathInv, LastInv
  <2>3. JobInv'
    BY <1>5, JobKept DEF vars, DataPathInv, JobInv
  <2>4. FrameInv'
    BY <1>5, <2>1, FramesKept DEF vars, FrameInv
  <2> QED
    BY <2>1, <2>2, <2>3, <2>4 DEF DataPathInv
<1> QED
  BY <1>1, <1>2, <1>3, <1>4, <1>5 DEF Next

(* The frames on every connection are whole and their readers are where     *)
(* they should be, unless threads have written over each other.             *)
THEOREM FramesAreWhole == Spec => []DataPathInv
<1>1. Init => DataPathInv
  BY InitInv
<1>2. DataPathInv /\ [Next]_vars => DataPathInv'
  BY InvStep
<1> QED
  BY <1>1, <1>2, PTL DEF Spec

(* Every variable has a value the code can give it: no buffer is overfull.  *)
THEOREM DataPathTypes == Spec => []TypeOK
<1>1. DataPathInv => TypeOK
  BY DEF DataPathInv
<1> QED
  BY <1>1, FramesAreWhole, PTL

(* buf[sizeof + 2] suffices in all five functions, whatever the data and    *)
(* its size, where frames do not overlap.                                   *)
THEOREM BuffersSuffice == Spec => []BufferSuffices
<1>1. DataPathInv => BufferSuffices
  <2> SUFFICES ASSUME DataPathInv, NEW c \in Conns, c \notin overlapped
               PROVE  Running(c)
    BY DEF BufferSuffices
  <2>1. PICK pos \in [0 .. Len(stream[c]) -> 1 .. LengthOf(c)],
             dat \in [0 .. Len(stream[c]) -> Datas] : FrameState(c, pos, dat)
    BY DEF DataPathInv, FrameInv, FrameOK
  <2> QED
    BY <2>1 DEF FrameState, Reads, Running
<1> QED
  BY <1>1, FramesAreWhole, PTL

(* What a thread passes on was given to a thread to send, however short the *)
(* calls of send are and wherever a frame is cut, unless frames overlap or  *)
(* data holds a delimiter.                                                  *)
THEOREM NothingIsBogus == Spec => []NothingBogus
<1>1. DataPathInv => NothingBogus
  <2> SUFFICES ASSUME DataPathInv, NEW t \in Threads, work[t] # Idle,
                      work[t].what = None, NothingSpoilt
               PROVE  FALSE
    BY DEF NothingBogus, NothingSpoilt
  <2>1. PICK data \in Datas, k \in 1 .. LengthOf(Out[t]) : Sends(t, data, k)
    BY DEF DataPathInv, JobInv, Job
  <2>2. PICK x \in Items : data = Bytes[x]
    BY <2>1, DataPathAssumption DEF Sends, Given, TypeOK, DataPathInv
  <2> QED
    BY <2>1, <2>2, ItemOfBytes DEF Sends
<1> QED
  BY <1>1, FramesAreWhole, PTL

----------------------------------------------------------------------------
(* Order and loss: every segment on the way has a number, its place in     *)
(* sent.                                                                    *)

(* A set of numbers up to n has a largest one. *)
LEMMA LargestExists ==
  ASSUME NEW n \in Nat, NEW S \in SUBSET (1 .. n), S # {}
  PROVE  \E m \in S : \A j \in S : j <= m
<1> DEFINE T == {n - j : j \in S}
<1>1. \A b : b \in T <=> \E j \in S : b = n - j
  OBVIOUS
<1> HIDE DEF T
<1>2. T \in SUBSET Nat /\ T # {}
  <2>1. \A j \in S : n - j \in Nat
    OBVIOUS
  <2> QED
    BY <1>1, <2>1
<1>3. PICK a \in T : \A b \in T : <<b, a>> \notin OpToRel(<, Nat)
  BY <1>2, NatLessThanWellFounded, WFMin, Zenon
<1>4. ASSUME NEW b \in T
      PROVE  a <= b
  <2>1. a \in Nat /\ b \in Nat
    BY <1>2
  <2>2. ~(b < a)
    BY <1>3, <2>1 DEF OpToRel
  <2> QED
    BY <2>1, <2>2
<1>5. PICK m \in S : a = n - m
  BY <1>1
<1>6. ASSUME NEW j \in S
      PROVE  j <= m
  <2>1. n - j \in T
    BY <1>1
  <2>2. n - m <= n - j
    BY <1>4, <1>5, <2>1
  <2> QED
    BY <2>2
<1> QED
  BY <1>6

----------------------------------------------------------------------------
(* The mark of a segment: the last place of a byte that only it has. *)
IsMark(x, m) ==
  /\ m \in 1 .. SegSize
  /\ Bytes[x][m] \notin {"!", "&", "#", Node} \cup Stale
  /\ \A y \in Items \ {x} : Bytes[x][m] \notin Range(Bytes[y])
  /\ \A j \in 1 .. SegSize : j > m => Bytes[x][j] # Bytes[x][m]

Mark == [x \in Segments |-> CHOOSE m \in 1 .. SegSize : IsMark(x, m)]
Own(x) == Bytes[x][Mark[x]]

LEMMA MarkExists ==
  ASSUME NEW x \in Segments
  PROVE  IsMark(x, Mark[x])
<1>0. SegSize \in Nat /\ x \in Items /\ Bytes[x] \in [1 .. SegSize -> Char]
  BY Sizes, BytesAreData DEF Items, Datas
<1>1. PICK v \in Range(Bytes[x]) :
        /\ v \notin {"!", "&", "#", Node} \cup Stale
        /\ \A y \in Items \ {x} : v \notin Range(Bytes[y])
  BY <1>0, DataPathAssumption
<1> DEFINE S == {j \in 1 .. SegSize : Bytes[x][j] = v}
<1>2. S \in SUBSET (1 .. SegSize) /\ S # {}
  BY <1>0 DEF Range
<1>3. PICK m \in S : \A j \in S : j <= m
  BY <1>0, <1>2, LargestExists
<1>4. \A j \in 1 .. SegSize : j > m => Bytes[x][j] # v
  BY <1>0, <1>3
<1>5. m \in 1 .. SegSize /\ IsMark(x, m)
  BY <1>1, <1>3, <1>4 DEF IsMark
<1> QED
  BY <1>5 DEF Mark

(* Data that has the mark of x at its place may become x again; Unmarked    *)
(* data has no mark at its place or after it, and will never be a segment.  *)
NoneAfter(data) ==
  \A x \in Segments, j \in 1 .. SegSize : j > Mark[x] => data[j] # Own(x)

Unmarked(data) ==
  \A x \in Segments, j \in 1 .. SegSize : j >= Mark[x] => data[j] # Own(x)

Marked(data, x) ==
  /\ x \in Segments /\ x \notin Updates /\ data[Mark[x]] = Own(x)
  /\ NoneAfter(data)
  /\ \A y \in Segments \ {x}, j \in 1 .. SegSize : j >= Mark[y] => data[j] # Own(y)
  /\ Clean(x) => data = Bytes[x]

LEMMA MarkTypes ==
  /\ SegSize \in Nat
  /\ \A x \in Segments : Mark[x] \in 1 .. SegSize /\ Mark[x] \in Nat
  /\ \A x \in Segments : Own(x) \notin {"!", "&", "#", Node} \cup Stale
BY Sizes, MarkExists DEF IsMark, Own

LEMMA UnmarkedHasNone ==
  ASSUME NEW data, Unmarked(data)
  PROVE  NoneAfter(data)
BY MarkTypes DEF Unmarked, NoneAfter

LEMMA ItemMarks ==
  /\ \A x \in Segments \ Updates : Marked(Bytes[x], x)
  /\ \A x \in Items \ Segments : Unmarked(Bytes[x])
<1>1. ASSUME NEW x \in Items, NEW y \in Segments, x # y, NEW j \in 1 .. SegSize
      PROVE  Bytes[x][j] # Own(y)
  <2>1. Bytes[x] \in [1 .. SegSize -> Char]
    BY BytesAreData DEF Datas
  <2>2. Own(y) \notin Range(Bytes[x])
    BY <1>1, MarkExists DEF IsMark, Own
  <2> QED
    BY <2>1, <2>2 DEF Range
<1>2. ASSUME NEW x \in Segments
      PROVE  \A j \in 1 .. SegSize : j > Mark[x] => Bytes[x][j] # Own(x)
  BY MarkExists DEF IsMark, Own
<1>3. ASSUME NEW x \in Segments \ Updates
      PROVE  Marked(Bytes[x], x)
  <2>1. x \in Items
    BY DEF Items
  <2>2. NoneAfter(Bytes[x])
    BY <1>1, <1>2, <2>1 DEF NoneAfter
  <2> QED
    BY <1>1, <2>1, <2>2 DEF Marked, Own
<1>4. ASSUME NEW x \in Items \ Segments
      PROVE  Unmarked(Bytes[x])
  BY <1>1 DEF Unmarked
<1> QED
  BY <1>3, <1>4

LEMMA ItemOfMarked ==
  ASSUME NEW data
  PROVE  /\ Unmarked(data) => ItemOf(data) \notin Segments
         /\ \A x : Marked(data, x) =>
              /\ ItemOf(data) \in {x, None} /\ x \in Segments \ Updates
              /\ Clean(x) => ItemOf(data) = x
<1>0. /\ ItemOf(data) \in Items \cup {None} /\ None \notin Items
      /\ \A x \in Items : ItemOf(Bytes[x]) = x
      /\ ItemOf(data) \in Items => data = Bytes[ItemOf(data)]
      /\ Segments \subseteq Items
  BY ItemOfBytes DEF ItemOf, Items
<1>1. ASSUME Unmarked(data), ItemOf(data) \in Segments
      PROVE  FALSE
  <2>1. PICK x \in Segments : data = Bytes[x]
    BY <1>0, <1>1
  <2>2. data[Mark[x]] = Own(x) /\ Mark[x] \in 1 .. SegSize /\ Mark[x] >= Mark[x]
    BY <2>1, MarkTypes DEF Own
  <2> QED
    BY <1>1, <2>2 DEF Unmarked
<1>2. ASSUME NEW x, Marked(data, x)
      PROVE  /\ ItemOf(data) \in {x, None} /\ x \in Segments \ Updates
             /\ Clean(x) => ItemOf(data) = x
  <2>1. x \in Segments \ Updates /\ x \in Items
    BY <1>0, <1>2 DEF Marked
  <2>2. ASSUME ItemOf(data) \notin {x, None}
        PROVE  FALSE
    <3>1. PICK y \in Items \ {x} : data = Bytes[y]
      BY <1>0, <2>2
    <3>2. Own(x) \notin Range(Bytes[y])
      BY <2>1, <3>1, MarkExists DEF IsMark, Own
    <3>3. Bytes[y][Mark[x]] \in Range(Bytes[y])
      <4>1. Bytes[y] \in [1 .. SegSize -> Char] /\ Mark[x] \in 1 .. SegSize
        BY <2>1, BytesAreData, MarkTypes DEF Datas
      <4> QED
        BY <4>1 DEF Range
    <3> QED
      BY <1>2, <3>1, <3>2, <3>3 DEF Marked
  <2>3. Clean(x) => ItemOf(data) = x
    BY <1>0, <1>2, <2>1 DEF Marked
  <2> QED
    BY <2>1, <2>2, <2>3
<1> QED
  BY <1>1, <1>2

(* What is read is what was sent, from some byte on, or was in the buffer.  *)
Junk == Stale \cup {"!", "&", "#", Node}

LEMMA BodyByte ==
  ASSUME NEW c \in Conns, NEW data \in Datas, NEW i \in Nat, i > Header(c) + 2,
         i <= LengthOf(c)
  PROVE  \/ FrameByte(c, data, i) \in Junk
         \/ /\ i - Header(c) - 2 \in 1 .. SegSize
            /\ FrameByte(c, data, i) = data[i - Header(c) - 2]
<1>0. PICK n, h : n = Size[c] /\ h = Header(c)
  OBVIOUS
<1>1. /\ n \in Nat /\ SegSize \in Nat /\ h \in {1, 2} /\ SegSize = n - h
      /\ LengthOf(c) = n + 4
  BY <1>0, Lengths, Sizes
<1>2. CASE i <= n + 2
  <2>1. i # 1 /\ i # n + 3 /\ i # 2 /\ i # n + 4 /\ ~(i <= h + 2)
        /\ i - h - 2 \in 1 .. SegSize
    BY <1>0, <1>1, <1>2
  <2>2. FrameByte(c, data, i) = data[i - h - 2]
    BY <1>0, <2>1 DEF FrameByte
  <2> QED
    BY <1>0, <2>1, <2>2
<1>3. CASE i = n + 3 \/ i = n + 4
  BY <1>0, <1>1, <1>3 DEF FrameByte, Junk
<1> QED
  BY <1>0, <1>1, <1>2, <1>3

LEMMA ReadIsLater ==
  ASSUME NEW c \in Conns, NEW data \in Datas, NEW k \in 2 .. LengthOf(c),
         NEW q \in 3 .. k + 1, NEW s \in Contents(c, Part(c, data, q, k)),
         NEW j \in 1 .. SegSize
  PROVE  \/ Data(s)[j] \in Junk
         \/ j + (q - 3) \in 1 .. SegSize /\ Data(s)[j] = data[j + (q - 3)]
<1>0. PICK n, h, buf : n = Size[c] /\ h = Header(c) /\ buf = Part(c, data, q, k)
  OBVIOUS
<1>a. /\ n \in Nat /\ SegSize \in Nat /\ h \in {1, 2} /\ SegSize = n - h
      /\ LengthOf(c) = n + 4 /\ k \in Nat /\ q \in Nat /\ q >= 3 /\ q <= k + 1
      /\ k <= n + 4 /\ j \in Nat /\ j >= 1 /\ j <= SegSize
  BY <1>0, Lengths, Sizes
<1>1. /\ buf \in Seq(Char) /\ Len(buf) = k - q + 1
      /\ \A i \in 1 .. k - q + 1 : buf[i] = FrameByte(c, data, q + i - 1)
  <2>1. q \in 1 .. LengthOf(c) + 1 /\ k \in q - 1 .. LengthOf(c)
        /\ data \in [1 .. SegSize -> Char]
    BY <1>a DEF Datas
  <2>2. buf \in Seq(Char) /\ Len(buf) = k - q + 1
    BY <1>0, <2>1, Chars, Parts
  <2> QED
    BY <1>0, <2>2 DEF Part
<1>2. PICK stale \in [Len(buf) + 1 .. n -> Stale] :
        s = [i \in 1 .. n |-> IF i <= Len(buf) THEN buf[i] ELSE stale[i]]
  BY <1>0 DEF Contents
<1>3. s \in [1 .. n -> Char]
  <2>1. \A i \in 1 .. n : i <= Len(buf) => buf[i] \in Char
    BY <1>1, ElementOfSeq
  <2> QED
    BY <1>a, <1>1, <1>2, <2>1, Chars
<1>4. Data(s)[j] = s[h + j] /\ h + j \in 1 .. n
  <2>1. s \in Seq(Char) /\ Len(s) = n
    BY <1>a, <1>3, FunctionIsSeq
  <2>2. Data(s) = SubSeq(s, h + 1, n)
    <3>1. n - SegSize + 1 = h + 1
      BY <1>a
    <3> QED
      BY <2>1, <3>1 DEF Data
  <2>3. h + 1 \in Int /\ n \in Int /\ \A i \in h + 1 .. n : s[i] \in Char
    <3>1. \A i \in h + 1 .. n : i \in 1 .. n
      BY <1>a
    <3> QED
      BY <1>a, <1>3, <3>1
  <2>4. \A i \in 1 .. n - (h + 1) + 1 : SubSeq(s, h + 1, n)[i] = s[h + 1 + i - 1]
    BY <2>3, SubSeqProperties
  <2>5. j \in 1 .. n - (h + 1) + 1 /\ h + 1 + j - 1 = h + j /\ h + j \in 1 .. n
    BY <1>a
  <2> QED
    BY <2>2, <2>4, <2>5
<1>5. CASE h + j > Len(buf)
  <2>1. s[h + j] = stale[h + j] /\ h + j \in Len(buf) + 1 .. n
    BY <1>a, <1>1, <1>2, <1>4, <1>5
  <2> QED
    BY <1>4, <2>1 DEF Junk
<1>6. CASE h + j <= Len(buf)
  <2>0. PICK p : p = q + (h + j) - 1
    OBVIOUS
  <2>1. Data(s)[j] = FrameByte(c, data, p)
    <3>1. h + j \in 1 .. k - q + 1
      BY <1>a, <1>1, <1>4, <1>6
    <3>2. s[h + j] = buf[h + j]
      BY <1>2, <1>4, <1>6
    <3> QED
      BY <1>1, <1>4, <2>0, <3>1, <3>2
  <2>2. p \in Nat /\ p > h + 2 /\ p - h - 2 = j + (q - 3) /\ p <= n + 4
    BY <1>a, <1>1, <1>6, <2>0
  <2>3. \/ FrameByte(c, data, p) \in Junk
        \/ p - h - 2 \in 1 .. SegSize /\ FrameByte(c, data, p) = data[p - h - 2]
    BY <1>0, <1>a, <2>2, BodyByte
  <2> QED
    BY <2>1, <2>2, <2>3
<1> QED
  BY <1>a, <1>1, <1>5, <1>6

(* A mark is not moved back, and nothing else becomes one. *)
LEMMA Reread ==
  ASSUME NEW c \in Conns, NEW data \in Datas, NEW k \in 2 .. LengthOf(c),
         NEW q \in 3 .. k + 1, NEW s \in Contents(c, Part(c, data, q, k))
  PROVE  /\ Unmarked(data) => Unmarked(Data(s))
         /\ NoneAfter(data) /\ q >= 4 => Unmarked(Data(s))
         /\ \A x : Marked(data, x) /\ q = 3 /\ (Clean(x) => Data(s) = data) =>
              Marked(Data(s), x) \/ (Unmarked(Data(s)) /\ ~Clean(x))
<1>0. PICK d, m : d = Data(s) /\ m = q - 3
  OBVIOUS
<1>1. /\ m \in Nat /\ (q >= 4 => m >= 1) /\ (q = 3 => m = 0)
      /\ \A j \in 1 .. SegSize :
           d[j] \in Junk \/ (j + m \in 1 .. SegSize /\ d[j] = data[j + m])
  <2>1. k \in Nat /\ q \in Nat /\ q >= 3
    BY Lengths
  <2> QED
    BY <1>0, <2>1, ReadIsLater
<1>2. /\ SegSize \in Nat
      /\ \A x \in Segments : Mark[x] \in 1 .. SegSize /\ Own(x) \notin Junk
  BY MarkTypes DEF Junk
<1>3. ASSUME Unmarked(data)
      PROVE  Unmarked(d)
  <2> SUFFICES ASSUME NEW x \in Segments, NEW j \in 1 .. SegSize, j >= Mark[x]
               PROVE  d[j] # Own(x)
    BY DEF Unmarked
  <2>1. j + m >= Mark[x]
    BY <1>1, <1>2
  <2> QED
    BY <1>1, <1>2, <1>3, <2>1 DEF Unmarked
<1>4. ASSUME NoneAfter(data), q >= 4
      PROVE  Unmarked(d)
  <2> SUFFICES ASSUME NEW x \in Segments, NEW j \in 1 .. SegSize, j >= Mark[x]
               PROVE  d[j] # Own(x)
    BY DEF Unmarked
  <2>1. j + m > Mark[x]
    BY <1>1, <1>2, <1>4
  <2> QED
    BY <1>1, <1>2, <1>4, <2>1 DEF NoneAfter
<1>5. ASSUME NEW x, Marked(data, x), q = 3, Clean(x) => d = data
      PROVE  Marked(d, x) \/ (Unmarked(d) /\ ~Clean(x))
  <2>0. CASE d = data
    BY <1>5, <2>0
  <2>1. CASE ~Clean(x)
    <3>1. \A j \in 1 .. SegSize : d[j] \in Junk \/ d[j] = data[j]
      BY <1>1, <1>2, <1>5
    <3>2. x \in Segments \ Updates /\ NoneAfter(data) /\ data[Mark[x]] = Own(x)
      BY <1>5 DEF Marked
    <3>3. NoneAfter(d)
      BY <1>2, <3>1, <3>2 DEF NoneAfter
    <3>4. \A y \in Segments \ {x}, j \in 1 .. SegSize : j >= Mark[y] => d[j] # Own(y)
      BY <1>2, <1>5, <3>1 DEF Marked
    <3>5. CASE d[Mark[x]] = Own(x)
      BY <2>1, <3>2, <3>3, <3>4, <3>5 DEF Marked
    <3>6. CASE d[Mark[x]] # Own(x)
      <4>1. \A j \in 1 .. SegSize : j >= Mark[x] => d[j] # Own(x)
        <5> SUFFICES ASSUME NEW j \in 1 .. SegSize, j >= Mark[x], d[j] = Own(x)
                     PROVE  FALSE
          OBVIOUS
        <5>1. j = Mark[x] \/ j > Mark[x]
          BY <1>2, <3>2
        <5> QED
          BY <3>2, <3>3, <3>6, <5>1 DEF NoneAfter
      <4> QED
        BY <2>1, <3>4, <4>1 DEF Unmarked
    <3> QED
      BY <3>5, <3>6
  <2> QED
    BY <1>5, <2>0, <2>1
<1> QED
  BY <1>0, <1>3, <1>4, <1>5

(* Of a frame that has a number a, the reader holds all of the body so far; *)
(* of one that has none, less than that, or nothing that matters.           *)
Holds(c, buf, k, data, a) ==
  \E q \in 3 .. k + 1 :
    /\ buf = Part(c, data, q, k)
    /\ IF a # 0 THEN q = 3 ELSE q >= 4 \/ Unmarked(data)

Reading(c, r, k, data, a) ==
  /\ r.state \in {"PKTRECV", "PKTSTOP1"} => Holds(c, r.buf, k, data, a)
  /\ a # 0 /\ k \in 2 .. LengthOf(c) - 1 => r.state \in {"PKTRECV", "PKTSTOP1"}
  /\ a = 0 /\ k = 1 => Unmarked(data)

(* What comes out of a frame: the segment it was sent with, or nothing that *)
(* can be taken for one if it had none or it was not clean.                 *)
Passes(data, a) ==
  IF a = 0 THEN Unmarked(data)
  ELSE Marked(data, sent[a]) \/ (Unmarked(data) /\ ~Clean(sent[a]))

LEMMA PartLonger ==
  ASSUME NEW c \in Conns, NEW data \in Datas, NEW k \in 2 .. LengthOf(c) - 1,
         NEW q \in 3 .. k + 1
  PROVE  Append(Part(c, data, q, k), FrameByte(c, data, k + 1))
           = Part(c, data, q, k + 1)
<1>0. {"!", "&", "#", Node} \subseteq Char
  BY DEF Char
<1>1. PICK s, b, m : /\ s = Part(c, data, q, k) /\ b = FrameByte(c, data, k + 1)
                     /\ m = k - q + 1
  OBVIOUS
<1>2. /\ k \in Nat /\ q \in Nat /\ m \in Nat /\ q + (m + 1) - 1 = k + 1
      /\ k + 1 - q + 1 = m + 1 /\ k >= 2 /\ q <= k + 1 /\ k + 1 <= LengthOf(c)
  BY <1>1, Lengths
<1>3. s \in Seq(Char) /\ Len(s) = m
  <2>1. q \in 1 .. LengthOf(c) + 1 /\ k \in q - 1 .. LengthOf(c)
    BY <1>2, Lengths
  <2> QED
    BY <1>0, <1>1, <2>1, Parts DEF Datas
<1>4. b \in Char
  BY <1>0, <1>1, <1>2, FrameBytes, Lengths DEF Datas
<1>5. s = [i \in 1 .. m |-> FrameByte(c, data, q + i - 1)]
  BY <1>1 DEF Part
<1>6. Part(c, data, q, k + 1) = [i \in 1 .. m + 1 |-> FrameByte(c, data, q + i - 1)]
  BY <1>2 DEF Part
<1>7. /\ Append(s, b) \in Seq(Char) /\ Len(Append(s, b)) = m + 1
      /\ \A i \in 1 .. m : Append(s, b)[i] = s[i]
      /\ Append(s, b)[m + 1] = b
  BY <1>3, <1>4, AppendProperties
<1>8. \A i \in 1 .. m + 1 : Append(s, b)[i] = FrameByte(c, data, q + i - 1)
  <2> SUFFICES ASSUME NEW i \in 1 .. m + 1
               PROVE  Append(s, b)[i] = FrameByte(c, data, q + i - 1)
    OBVIOUS
  <2>1. CASE i = m + 1
    BY <1>1, <1>2, <1>7, <2>1
  <2>2. CASE i \in 1 .. m
    BY <1>5, <1>7, <2>2
  <2>3. i = m + 1 \/ i \in 1 .. m
    BY <1>2
  <2> QED
    BY <2>1, <2>2, <2>3
<1>9. PICK e : e = Append(s, b)
  OBVIOUS
<1>10. DOMAIN e = 1 .. m + 1 /\ e = [i \in DOMAIN e |-> e[i]]
  <2>1. e \in Seq(Char) /\ Len(e) = m + 1
    BY <1>7, <1>9
  <2>2. DOMAIN e = 1 .. m + 1 /\ e \in [1 .. m + 1 -> Char]
    BY <2>1, LenProperties
  <2> QED
    BY <2>2
<1> QED
  BY <1>1, <1>6, <1>8, <1>9, <1>10

LEMMA ReadingFirst ==
  ASSUME NEW c \in Conns, NEW data \in Datas, NEW a, a = 0 => Unmarked(data)
  PROVE  LET q == PutByte(Ready, FrameByte(c, data, 1), c)
         IN  q.state = "PKTSTART2" /\ Reading(c, q, 1, data, a)
<1>1. PutByte(Ready, FrameByte(c, data, 1), c).state = "PKTSTART2"
  BY FirstByte
<1> QED
  BY <1>1 DEF Reading

LEMMA ReadingNext ==
  ASSUME NEW c \in Conns, NEW data \in Datas, NEW k \in 1 .. LengthOf(c) - 1,
         NEW r \in Readers, Reads(c, r, k, data),
         NEW a, Reading(c, r, k, data, a)
  PROVE  LET q == PutByte(r, FrameByte(c, data, k + 1), c)
         IN  IF q.state = "complete"
               THEN Holds(c, q.buf, k + 1, data, a)
               ELSE /\ Reading(c, q, k + 1, data, a)
                    /\ k + 1 = LengthOf(c) => a = 0
<1>0. PICK n : n = Size[c]
  OBVIOUS
<1>1. PICK b, q : b = FrameByte(c, data, k + 1) /\ q = PutByte(r, b, c)
  OBVIOUS
<1>2. /\ n \in Nat /\ n >= 1 /\ LengthOf(c) = n + 4 /\ k \in Nat /\ k >= 1
      /\ k + 1 <= n + 4
  BY <1>0, Lengths
<1>3. /\ q.state # "overrun"
      /\ q.state # "complete" => Reads(c, q, k + 1, data)
  BY <1>1, NextByte
<1>4. SUFFICES IF q.state = "complete" THEN Holds(c, q.buf, k + 1, data, a)
               ELSE /\ Reading(c, q, k + 1, data, a)
                    /\ k + 1 = LengthOf(c) => a = 0
  BY <1>1
<1>5. CASE r.state = "PKTSTART1"
  <2>1. k # 1 /\ a = 0
    <3>1. k # 1
      BY <1>5 DEF Reads
    <3>2. k \in 2 .. LengthOf(c) - 1
      BY <1>2, <3>1
    <3> QED
      BY <1>5, <3>1, <3>2 DEF Reading
  <2>2. q.state \in {"PKTSTART1", "PKTSTART2"}
    BY <1>1, <1>5 DEF PutByte
  <2>3. k + 1 # 1
    BY <1>2
  <2> QED
    BY <2>1, <2>2, <2>3 DEF Reading
<1>6. CASE r.state = "PKTSTART2" /\ b = "&"
  <2>1. q = [r EXCEPT !.state = "PKTRECV"]
    BY <1>1, <1>6 DEF PutByte
  <2>2. q.state = "PKTRECV" /\ q.buf = <<>>
    BY <1>6, <2>1 DEF Reads, Readers
  <2>3. Part(c, data, k + 2, k + 1) = <<>>
    <3>1. k + 1 - (k + 2) + 1 = 0
      BY <1>2
    <3> QED
      BY <3>1 DEF Part
  <2>4. k # 1 => a = 0
    <3>1. k # 1 => k \in 2 .. LengthOf(c) - 1
      BY <1>2
    <3> QED
      BY <1>6, <3>1 DEF Reading
  <2>5. k = 1 => a # 0 \/ Unmarked(data)
    BY DEF Reading
  <2>6. Holds(c, q.buf, k + 1, data, a)
    <3>1. k + 2 \in 3 .. (k + 1) + 1 /\ (k = 1 => k + 2 = 3) /\ (k # 1 => k + 2 >= 4)
      BY <1>2
    <3> QED
      BY <2>2, <2>3, <2>4, <2>5, <3>1 DEF Holds
  <2>7. k + 1 # 1 /\ k + 1 # LengthOf(c)
    <3>1. k + 1 # LengthOf(c)
      BY <1>0, <1>1, <1>2, <1>6 DEF FrameByte
    <3> QED
      BY <1>2, <3>1
  <2> QED
    BY <2>2, <2>6, <2>7 DEF Reading
<1>7. CASE r.state = "PKTSTART2" /\ b # "&"
  <2>1. q = [r EXCEPT !.state = "PKTSTART1"]
    BY <1>1, <1>7 DEF PutByte
  <2>2. q.state = "PKTSTART1"
    BY <2>1 DEF Readers
  <2>3. k # 1
    BY <1>0, <1>1, <1>2, <1>7 DEF FrameByte
  <2>4. k \in 2 .. LengthOf(c) - 1 /\ k + 1 # 1
    BY <1>2, <2>3
  <2>5. a = 0
    BY <1>7, <2>4 DEF Reading
  <2> QED
    BY <2>2, <2>4, <2>5 DEF Reading
<1>8. CASE r.state \in {"PKTRECV", "PKTSTOP1"}
  <2>1. PICK p \in 3 .. k + 1 :
          /\ r.buf = Part(c, data, p, k)
          /\ IF a # 0 THEN p = 3 ELSE p >= 4 \/ Unmarked(data)
    BY <1>8 DEF Reading, Holds
  <2>2. \E next \in {"PKTRECV", "PKTSTOP1", "complete"} :
          q = [state |-> next, buf |-> Append(r.buf, b)]
    <3>0. Len(r.buf) < Size[c] + 2
      <4> SUFFICES ASSUME ~(Len(r.buf) < Size[c] + 2)
                   PROVE  FALSE
        OBVIOUS
      <4>1. q = [r EXCEPT !.state = "overrun"]
        <5>1. CASE r.state = "PKTRECV"
          BY <1>1, <5>1 DEF PutByte, InPktrecv, Store
        <5>2. CASE r.state = "PKTSTOP1"
          BY <1>1, <5>2 DEF PutByte, InPktstop1, Store
        <5> QED
          BY <1>8, <5>1, <5>2
      <4> QED
        BY <1>3, <4>1 DEF Readers
    <3>1. CASE r.state = "PKTRECV"
      BY <1>1, <3>0, <3>1 DEF PutByte, InPktrecv, Store
    <3>2. CASE r.state = "PKTSTOP1"
      BY <1>1, <3>0, <3>2 DEF PutByte, InPktstop1, Store
    <3> QED
      BY <1>8, <3>1, <3>2
  <2>3. q.state \in {"PKTRECV", "PKTSTOP1", "complete"} /\ q.buf = Append(r.buf, b)
    BY <2>2
  <2>4. k \in 2 .. LengthOf(c) - 1 /\ p \in 3 .. (k + 1) + 1 /\ k + 1 # 1
    <3>1. k # 1
      BY <1>8 DEF Reads
    <3> QED
      BY <1>2, <3>1
  <2>5. q.buf = Part(c, data, p, k + 1)
    BY <1>1, <2>1, <2>3, <2>4, PartLonger
  <2>6. Holds(c, q.buf, k + 1, data, a)
    BY <2>1, <2>4, <2>5 DEF Holds
  <2>7. k + 1 = LengthOf(c) => q.state = "complete"
    <3> SUFFICES ASSUME k + 1 = LengthOf(c), q.state # "complete"
                 PROVE  FALSE
      OBVIOUS
    <3>1. q = Ready
      BY <1>3 DEF Reads
    <3> QED
      BY <2>3, <3>1 DEF Ready
  <2> QED
    BY <2>3, <2>4, <2>6, <2>7 DEF Reading
<1> QED
  BY <1>5, <1>6, <1>7, <1>8 DEF Reads

----------------------------------------------------------------------------
(* Numbers in flight: where each of the segments in sent is.  A place that  *)
(* is further on has a greater number, and what has been returned is at the *)
(* end; what is nowhere any more is at 0.                                   *)
Stage ==
  [srt_snp |-> 1, waitTransport |-> 2, snp_on |-> 3, waitNetwork |-> 4,
   on_on   |-> 5, listener      |-> 6, on_snp |-> 7, pkthandler  |-> 8,
   snp_srt |-> 9]

Relays == {"waitTransport", "waitNetwork", "listener", "pkthandler"}

Gone == 0
Returned == 10

(* None has overtaken another, none has been lost but what may be missing,  *)
(* and kept tells which one each of got is.                                 *)
Counted(at, kept) ==
  /\ at \in [DOMAIN sent -> Gone .. Returned]
  /\ \A j, k \in DOMAIN sent :
       j < k /\ at[j] # Gone /\ at[k] # Gone => at[j] >= at[k]
  /\ \A k \in DOMAIN sent : at[k] = Gone => sent[k] \in excused
  /\ kept \in [DOMAIN got -> DOMAIN sent]
  /\ \A i, j \in DOMAIN got : i < j => kept[i] < kept[j]
  /\ \A i \in DOMAIN got : got[i] = sent[kept[i]] /\ at[kept[i]] = Returned
  /\ \A k \in DOMAIN sent : at[k] = Returned => \E i \in DOMAIN got : kept[i] = k

LEMMA CountedIsIntact ==
  ASSUME NEW at, NEW kept, Counted(at, kept)
  PROVE  Intact
<1>1. ASSUME NEW i \in DOMAIN got, NEW k \in DOMAIN sent,
             k < kept[i], sent[k] \notin excused
      PROVE  \E j \in DOMAIN got : kept[j] = k
  <2>1. kept[i] \in DOMAIN sent /\ at[kept[i]] = Returned
    BY <1>1 DEF Counted
  <2>2. at[k] # Gone /\ at[k] \in Gone .. Returned
    BY <1>1 DEF Counted
  <2>3. at[k] >= at[kept[i]]
    BY <1>1, <2>1, <2>2 DEF Counted, Gone, Returned
  <2>4. at[k] = Returned
    BY <2>1, <2>2, <2>3 DEF Gone, Returned
  <2> QED
    BY <1>1, <2>4 DEF Counted
<1>2. /\ kept \in [DOMAIN got -> DOMAIN sent]
      /\ \A i, j \in DOMAIN got : i < j => kept[i] < kept[j]
      /\ \A i \in DOMAIN got : got[i] = sent[kept[i]]
  BY DEF Counted
<1> QED
  BY <1>1, <1>2 DEF Intact

LEMMA CountedKept ==
  ASSUME NEW at, NEW kept, Counted(at, kept), sent' = sent, got' = got,
         excused \subseteq excused'
  PROVE  Counted(at, kept)'
BY DEF Counted

(* A segment that may be missing is lost. *)
Droppable ==
  \A at, kept, a :
    /\ Counted(at, kept) /\ a \in DOMAIN sent /\ at[a] # Returned
    /\ sent[a] \in excused
    => Counted([at EXCEPT ![a] = Gone], kept)

LEMMA CountedDropped == Droppable
<1> SUFFICES ASSUME NEW at, NEW kept, NEW a, Counted(at, kept),
                    a \in DOMAIN sent, at[a] # Returned, sent[a] \in excused
             PROVE  Counted([at EXCEPT ![a] = Gone], kept)
  BY DEF Droppable
<1>1. PICK at2 : at2 = [at EXCEPT ![a] = Gone]
  OBVIOUS
<1>2. /\ at \in [DOMAIN sent -> Gone .. Returned] /\ Gone \in Gone .. Returned
      /\ Gone # Returned
  BY DEF Counted, Gone, Returned
<1>3. /\ at2 \in [DOMAIN sent -> Gone .. Returned] /\ at2[a] = Gone
      /\ \A k \in DOMAIN sent \ {a} : at2[k] = at[k]
  BY <1>1, <1>2
<1>4. Counted(at2, kept)
  <2>1. \A j, k \in DOMAIN sent :
          j < k /\ at2[j] # Gone /\ at2[k] # Gone => at2[j] >= at2[k]
    <3> SUFFICES ASSUME NEW j \in DOMAIN sent, NEW k \in DOMAIN sent,
                        j < k, at2[j] # Gone, at2[k] # Gone
                 PROVE  at2[j] >= at2[k]
      OBVIOUS
    <3>1. at2[j] = at[j] /\ at2[k] = at[k]
      BY <1>3
    <3> QED
      BY <3>1 DEF Counted
  <2>2. \A k \in DOMAIN sent : at2[k] = Gone => sent[k] \in excused
    BY <1>3 DEF Counted
  <2>3. \A i \in DOMAIN got : got[i] = sent[kept[i]] /\ at2[kept[i]] = Returned
    BY <1>3 DEF Counted
  <2>4. \A k \in DOMAIN sent :
          at2[k] = Returned => \E i \in DOMAIN got : kept[i] = k
    BY <1>2, <1>3 DEF Counted
  <2>5. /\ kept \in [DOMAIN got -> DOMAIN sent]
        /\ \A i, j \in DOMAIN got : i < j => kept[i] < kept[j]
    BY DEF Counted
  <2> QED
    BY <1>3, <2>1, <2>2, <2>3, <2>4, <2>5 DEF Counted
<1> QED
  BY <1>1, <1>4

LEMMA CountedGone ==
  ASSUME NEW at, NEW kept, Counted(at, kept), sent' = sent, got' = got,
         excused \subseteq excused', NEW a \in DOMAIN sent, at[a] # Returned,
         sent[a] \in excused'
  PROVE  Counted([at EXCEPT ![a] = Gone], kept)'
<1>1. Droppable'
  BY CountedDropped, PTL
<1>2. Counted(at, kept)'
  BY CountedKept
<1> QED
  BY <1>1, <1>2 DEF Droppable

(* The first at a place goes to the next. *)
LEMMA CountedNext ==
  ASSUME NEW at, NEW kept, Counted(at, kept), TypeOK, sent' = sent, got' = got,
         excused \subseteq excused', NEW a \in DOMAIN sent,
         at[a] \in 1 .. 8, \A j \in DOMAIN sent : at[j] = at[a] => j >= a
  PROVE  Counted([at EXCEPT ![a] = at[a] + 1], kept)'
<1>1. PICK at2, d : at2 = [at EXCEPT ![a] = at[a] + 1] /\ d = at[a]
  OBVIOUS
<1>2. /\ at \in [DOMAIN sent -> Gone .. Returned] /\ d \in 1 .. 8
      /\ d + 1 \in Gone .. Returned /\ d + 1 # Returned /\ d + 1 # Gone
      /\ d # Returned /\ d # Gone
  BY <1>1 DEF Counted, Gone, Returned
<1>3. /\ at2 \in [DOMAIN sent -> Gone .. Returned] /\ at2[a] = d + 1
      /\ \A k \in DOMAIN sent \ {a} : at2[k] = at[k]
  BY <1>1, <1>2
<1>4. DOMAIN sent \subseteq Nat /\ a \in Nat
  BY LenProperties DEF TypeOK
<1>5. Counted(at2, kept)'
  <2>1. \A j, k \in DOMAIN sent :
          j < k /\ at2[j] # Gone /\ at2[k] # Gone => at2[j] >= at2[k]
    <3> SUFFICES ASSUME NEW j \in DOMAIN sent, NEW k \in DOMAIN sent,
                        j < k, at2[j] # Gone, at2[k] # Gone
                 PROVE  at2[j] >= at2[k]
      OBVIOUS
    <3>0. at[j] \in Gone .. Returned /\ at[k] \in Gone .. Returned
          /\ (at[j] # Gone /\ at[k] # Gone => at[j] >= at[k])
      BY DEF Counted
    <3>1. CASE j # a /\ k # a
      BY <1>3, <3>0, <3>1
    <3>2. CASE j = a
      <4>1. k # a /\ at2[k] = at[k] /\ at[k] # Gone /\ at2[j] = d + 1 /\ at[j] = d
        BY <1>1, <1>3, <1>4, <3>2
      <4>2. d >= at[k]
        BY <1>2, <3>0, <4>1
      <4> QED
        BY <1>2, <3>0, <4>1, <4>2 DEF Gone, Returned
    <3>3. CASE k = a
      <4>1. j # a /\ at2[j] = at[j] /\ at[j] # Gone /\ at2[k] = d + 1 /\ at[k] = d
        BY <1>1, <1>3, <1>4, <3>3
      <4>2. at[j] >= d
        BY <1>2, <3>0, <4>1
      <4>3. at[j] # d
        BY <1>1, <1>4, <3>3
      <4> QED
        BY <1>2, <3>0, <4>1, <4>2, <4>3 DEF Gone, Returned
    <3> QED
      BY <3>1, <3>2, <3>3
  <2>2. \A k \in DOMAIN sent : at2[k] = Gone => sent[k] \in excused'
    BY <1>2, <1>3 DEF Counted
  <2>3. \A i \in DOMAIN got : got[i] = sent[kept[i]] /\ at2[kept[i]] = Returned
    BY <1>1, <1>2, <1>3 DEF Counted
  <2>4. \A k \in DOMAIN sent :
          at2[k] = Returned => \E i \in DOMAIN got : kept[i] = k
    BY <1>2, <1>3 DEF Counted
  <2>5. /\ kept \in [DOMAIN got -> DOMAIN sent]
        /\ \A i, j \in DOMAIN got : i < j => kept[i] < kept[j]
    BY DEF Counted
  <2> QED
    BY <1>3, <2>1, <2>2, <2>3, <2>4, <2>5 DEF Counted
<1> QED
  BY <1>1, <1>5

(* The first at the last place is returned. *)
LEMMA CountedReturned ==
  ASSUME NEW at, NEW kept, Counted(at, kept), TypeOK, sent' = sent,
         excused \subseteq excused', NEW a \in DOMAIN sent, at[a] = 9,
         \A j \in DOMAIN sent : at[j] = 9 => j >= a,
         sent[a] \in Segments, got' = Append(got, sent[a])
  PROVE  \E kept2 : Counted([at EXCEPT ![a] = Returned], kept2)'
<1>1. PICK at2, n : at2 = [at EXCEPT ![a] = Returned] /\ n = Len(got)
  OBVIOUS
<1>2. /\ at \in [DOMAIN sent -> Gone .. Returned] /\ Returned \in Gone .. Returned
      /\ Returned # Gone /\ Returned = 10 /\ Gone = 0
  BY DEF Counted, Gone, Returned
<1>3. /\ at2 \in [DOMAIN sent -> Gone .. Returned] /\ at2[a] = Returned
      /\ \A k \in DOMAIN sent \ {a} : at2[k] = at[k]
  BY <1>1, <1>2
<1>4. DOMAIN sent \subseteq Nat /\ a \in Nat
  BY LenProperties DEF TypeOK
<1>5. /\ n \in Nat /\ DOMAIN got = 1 .. n /\ DOMAIN got' = 1 .. n + 1
      /\ \A i \in 1 .. n : got'[i] = got[i]
      /\ got'[n + 1] = sent[a]
  <2>1. got \in Seq(Segments)
    BY DEF TypeOK
  <2>2. /\ got' \in Seq(Segments) /\ Len(got') = n + 1
        /\ \A i \in 1 .. n : got'[i] = got[i]
        /\ got'[n + 1] = sent[a]
    BY <1>1, <2>1, AppendProperties
  <2> QED
    BY <1>1, <2>1, <2>2, LenProperties
<1>6. PICK kept2 : kept2 = [i \in 1 .. n + 1 |-> IF i = n + 1 THEN a ELSE kept[i]]
  OBVIOUS
<1>7. /\ \A i \in 1 .. n : kept2[i] = kept[i] /\ i \in 1 .. n + 1
      /\ kept2[n + 1] = a /\ n + 1 \in 1 .. n + 1
      /\ \A i \in 1 .. n + 1 : i = n + 1 \/ i \in 1 .. n
  <2>1. \A i \in 1 .. n : i # n + 1 /\ i \in 1 .. n + 1
    BY <1>5
  <2>2. n + 1 \in 1 .. n + 1 /\ \A i \in 1 .. n + 1 : i = n + 1 \/ i \in 1 .. n
    BY <1>5
  <2> QED
    BY <1>6, <2>1, <2>2
<1>8. \A i \in 1 .. n : kept[i] \in DOMAIN sent /\ at[kept[i]] = Returned
                        /\ got[i] = sent[kept[i]]
  BY <1>5 DEF Counted
<1>9. \A i \in 1 .. n : kept[i] < a
  <2> SUFFICES ASSUME NEW i \in 1 .. n, ~(kept[i] < a)
               PROVE  FALSE
    OBVIOUS
  <2>1. kept[i] # a /\ kept[i] \in DOMAIN sent
    BY <1>2, <1>8
  <2>2. a < kept[i]
    BY <1>4, <2>1
  <2>3. at[a] >= at[kept[i]]
    BY <1>2, <1>8, <2>1, <2>2 DEF Counted
  <2> QED
    BY <1>2, <1>8, <2>3
<1>10. Counted(at2, kept2)'
  <2>1. \A j, k \in DOMAIN sent :
          j < k /\ at2[j] # Gone /\ at2[k] # Gone => at2[j] >= at2[k]
    <3> SUFFICES ASSUME NEW j \in DOMAIN sent, NEW k \in DOMAIN sent,
                        j < k, at2[j] # Gone, at2[k] # Gone
                 PROVE  at2[j] >= at2[k]
      OBVIOUS
    <3>0. at[j] \in 0 .. 10 /\ at[k] \in 0 .. 10
          /\ (at[j] # 0 /\ at[k] # 0 => at[j] >= at[k])
      BY <1>2 DEF Counted
    <3>1. CASE j # a /\ k # a
      BY <1>2, <1>3, <3>0, <3>1
    <3>2. CASE j = a
      <4>1. at2[j] = 10 /\ at2[k] \in 0 .. 10
        BY <1>2, <1>3, <3>2
      <4> QED
        BY <4>1
    <3>3. CASE k = a
      <4>1. j # a /\ at2[j] = at[j] /\ at[j] # 0 /\ at2[k] = 10 /\ at[k] = 9
        BY <1>2, <1>3, <1>4, <3>3
      <4>2. at[j] # 9
        BY <1>4, <3>3
      <4> QED
        BY <3>0, <4>1, <4>2
    <3> QED
      BY <3>1, <3>2, <3>3
  <2>2. \A k \in DOMAIN sent : at2[k] = Gone => sent[k] \in excused'
    BY <1>2, <1>3 DEF Counted
  <2>3. kept2 \in [1 .. n + 1 -> DOMAIN sent]
    <3>1. \A i \in 1 .. n + 1 : kept2[i] \in DOMAIN sent
      BY <1>7, <1>8
    <3> QED
      BY <1>6, <3>1
  <2>4. \A i, j \in 1 .. n + 1 : i < j => kept2[i] < kept2[j]
    <3> SUFFICES ASSUME NEW i \in 1 .. n + 1, NEW j \in 1 .. n + 1, i < j
                 PROVE  kept2[i] < kept2[j]
      OBVIOUS
    <3>1. i \in 1 .. n
      BY <1>5
    <3>2. CASE j = n + 1
      BY <1>7, <1>9, <3>1, <3>2
    <3>3. CASE j \in 1 .. n
      BY <1>5, <1>7, <3>1, <3>3 DEF Counted
    <3> QED
      BY <1>7, <3>2, <3>3
  <2>5. \A i \in 1 .. n + 1 : got'[i] = sent[kept2[i]] /\ at2[kept2[i]] = Returned
    <3>1. \A i \in 1 .. n : at2[kept[i]] = Returned
      BY <1>3, <1>8
    <3> QED
      BY <1>3, <1>5, <1>7, <1>8, <3>1
  <2>6. \A k \in DOMAIN sent :
          at2[k] = Returned => \E i \in 1 .. n + 1 : kept2[i] = k
    <3> SUFFICES ASSUME NEW k \in DOMAIN sent, at2[k] = Returned
                 PROVE  \E i \in 1 .. n + 1 : kept2[i] = k
      OBVIOUS
    <3>1. CASE k = a
      BY <1>7, <3>1
    <3>2. CASE k # a
      <4>1. \E i \in 1 .. n : kept[i] = k
        BY <1>3, <1>5, <3>2 DEF Counted
      <4> QED
        BY <1>7, <4>1
    <3> QED
      BY <3>1, <3>2
  <2>7. DOMAIN got' = 1 .. n + 1 /\ DOMAIN sent' = DOMAIN sent /\ sent' = sent
    BY <1>5
  <2> QED
    BY <1>3, <2>1, <2>2, <2>3, <2>4, <2>5, <2>6, <2>7 DEF Counted
<1> QED
  BY <1>1, <1>10

(* Another one comes, behind all that are there. *)
LEMMA CountedAnother ==
  ASSUME NEW at, NEW kept, Counted(at, kept), TypeOK, got' = got,
         excused \subseteq excused', NEW x \in Segments \cup {None},
         sent' = Append(sent, x), NEW n, n = Len(sent),
         NEW d \in {Gone, 1, 2}, d = Gone => x \in excused',
         \A j \in DOMAIN sent : at[j] # Gone => at[j] >= d
  PROVE  Counted([k \in 1 .. n + 1 |-> IF k = n + 1 THEN d ELSE at[k]], kept)'
<1>2. PICK at2 : at2 = [k \in 1 .. n + 1 |-> IF k = n + 1 THEN d ELSE at[k]]
  OBVIOUS
<1>3. /\ n \in Nat /\ DOMAIN sent = 1 .. n /\ DOMAIN sent' = 1 .. n + 1
      /\ \A i \in 1 .. n : sent'[i] = sent[i]
  <2>1. sent \in Seq(Segments \cup {None})
    BY DEF TypeOK
  <2>2. /\ sent' \in Seq(Segments \cup {None}) /\ Len(sent') = n + 1
        /\ \A i \in 1 .. n : sent'[i] = sent[i]
    BY <2>1, AppendProperties
  <2> QED
    BY <2>1, <2>2, LenProperties
<1>4. /\ at \in [1 .. n -> Gone .. Returned] /\ Returned = 10 /\ Gone = 0
  BY <1>3 DEF Counted, Gone, Returned
<1>5. /\ \A i \in 1 .. n : at2[i] = at[i] /\ i \in 1 .. n + 1 /\ i # n + 1
      /\ at2[n + 1] = d /\ d \in 0 .. 10
      /\ \A i \in 1 .. n + 1 : i = n + 1 \/ i \in 1 .. n
  <2>1. n + 1 \in 1 .. n + 1 /\ \A i \in 1 .. n : i # n + 1 /\ i \in 1 .. n + 1
    BY <1>3
  <2>2. \A i \in 1 .. n + 1 : i = n + 1 \/ i \in 1 .. n
    BY <1>3
  <2>3. d \in 0 .. 10
    BY <1>4
  <2> QED
    BY <1>2, <2>1, <2>2, <2>3
<1>6. at2 \in [1 .. n + 1 -> Gone .. Returned]
  <2>1. \A i \in 1 .. n + 1 : at2[i] \in Gone .. Returned
    BY <1>4, <1>5
  <2> QED
    BY <1>2, <2>1
<1>7. Counted(at2, kept)'
  <2>1. \A j, k \in 1 .. n + 1 :
          j < k /\ at2[j] # Gone /\ at2[k] # Gone => at2[j] >= at2[k]
    <3> SUFFICES ASSUME NEW j \in 1 .. n + 1, NEW k \in 1 .. n + 1,
                        j < k, at2[j] # Gone, at2[k] # Gone
                 PROVE  at2[j] >= at2[k]
      OBVIOUS
    <3>1. j \in 1 .. n
      BY <1>3
    <3>2. CASE k = n + 1
      BY <1>3, <1>5, <3>1, <3>2
    <3>3. CASE k \in 1 .. n
      BY <1>3, <1>5, <3>1, <3>3 DEF Counted
    <3> QED
      BY <1>5, <3>2, <3>3
  <2>2. \A k \in 1 .. n + 1 : at2[k] = Gone => sent'[k] \in excused'
    <3> SUFFICES ASSUME NEW k \in 1 .. n + 1, at2[k] = Gone
                 PROVE  sent'[k] \in excused'
      OBVIOUS
    <3>1. CASE k = n + 1
      BY <1>3, <1>5, <3>1, AppendProperties DEF TypeOK
    <3>2. CASE k \in 1 .. n
      BY <1>3, <1>5, <3>2 DEF Counted
    <3> QED
      BY <1>5, <3>1, <3>2
  <2>3. kept \in [DOMAIN got -> 1 .. n + 1]
    BY <1>3, <1>5 DEF Counted
  <2>4. \A i \in DOMAIN got : got[i] = sent'[kept[i]] /\ at2[kept[i]] = Returned
    BY <1>3, <1>5 DEF Counted
  <2>5. \A k \in 1 .. n + 1 : at2[k] = Returned => \E i \in DOMAIN got : kept[i] = k
    <3> SUFFICES ASSUME NEW k \in 1 .. n + 1, at2[k] = Returned
                 PROVE  \E i \in DOMAIN got : kept[i] = k
      OBVIOUS
    <3>1. k \in 1 .. n
      BY <1>4, <1>5
    <3> QED
      BY <1>3, <1>5, <3>1 DEF Counted
  <2>6. \A i, j \in DOMAIN got : i < j => kept[i] < kept[j]
    BY DEF Counted
  <2> QED
    BY <1>3, <1>6, <2>1, <2>2, <2>3, <2>4, <2>5, <2>6 DEF Counted
<1> QED
  BY <1>2, <1>7

----------------------------------------------------------------------------
(* The numbers on a connection: num[i] is that of the frame byte i is of,   *)
(* 0 if it has none, and is on its way as long as the reader has not        *)
(* returned the frame.                                                      *)
Numbers(c, num, at) ==
  /\ num \in [0 .. Len(stream[c]) -> {0} \cup DOMAIN sent]
  /\ \A k \in DOMAIN sent :
       at[k] = Stage[c] <=> \E i \in 0 .. Len(stream[c]) : num[i] = k

InOrder(c, pos, num) ==
  /\ \A i, j \in 0 .. Len(stream[c]) :
       i < j /\ num[i] # 0 /\ num[j] # 0 =>
         num[i] <= num[j] /\ (num[i] = num[j] => pos[j] = pos[i] + (j - i))
  /\ \A i \in 1 .. Len(stream[c]) : pos[i] # 1 => num[i] = num[i - 1]
  /\ pos[0] = LengthOf(c) => num[0] = 0

(* A frame without a number holds nothing that becomes a segment, or its    *)
(* reader has returned it early and the rest of it is still to come.        *)
Tells(c, pos, dat, num) ==
  \A i \in 0 .. Len(stream[c]) :
    IF num[i] # 0 THEN Marked(dat[i], sent[num[i]])
    ELSE \/ Unmarked(dat[i])
         \/ NoneAfter(dat[i]) /\ pos[i] = pos[0] + i
         \/ i = 0 /\ pos[0] = LengthOf(c)

(* A frame from the SRT process that is not complete is some thread's, or   *)
(* was cut.                                                                 *)
CutOff(c, pos, num) ==
  LET n == Len(stream[c])
  IN  c = "srt_snp" /\ num[n] # 0 /\ pos[n] # LengthOf(c) =>
        IF open THEN \E t \in {"app", "timer"} :
                       work[t].begun /\ work[t].what = sent[num[n]]
        ELSE sent[num[n]] \in excused

Numbered(c, pos, dat, num, at) ==
  /\ FrameState(c, pos, dat)
  /\ Numbers(c, num, at) /\ InOrder(c, pos, num) /\ Tells(c, pos, dat, num)
  /\ CutOff(c, pos, num)
  /\ Reading(c, reader[c], pos[0], dat[0], num[0])

Numberings(c) == [0 .. Len(stream[c]) -> {0} \cup DOMAIN sent]

Tracked(c, at) ==
  \E pos \in [0 .. Len(stream[c]) -> 1 .. LengthOf(c)],
     dat \in [0 .. Len(stream[c]) -> Datas], num \in Numberings(c) :
    Numbered(c, pos, dat, num, at)

LEMMA SentIndices ==
  ASSUME TypeOK
  PROVE  /\ DOMAIN sent = 1 .. Len(sent) /\ Len(sent) \in Nat
         /\ DOMAIN sent \subseteq Nat \ {0}
         /\ \A k \in DOMAIN sent : sent[k] \in Segments \cup {None}
<1>1. sent \in Seq(Segments \cup {None})
  BY DEF TypeOK
<1>2. DOMAIN sent = 1 .. Len(sent) /\ Len(sent) \in Nat
  BY <1>1, LenProperties
<1> QED
  BY <1>1, <1>2, ElementOfSeq

(* The number of the frame that is being read is the first on the connection. *)
LEMMA FirstIsFirst ==
  ASSUME TypeOK, NEW c \in Conns, NEW pos, NEW num, NEW at,
         Numbers(c, num, at), InOrder(c, pos, num), num[0] # 0
  PROVE  /\ num[0] \in DOMAIN sent /\ at[num[0]] = Stage[c]
         /\ \A k \in DOMAIN sent : at[k] = Stage[c] => k >= num[0]
<1>0. PICK n : n = Len(stream[c])
  OBVIOUS
<1>1. n \in Nat /\ 0 \in 0 .. n /\ DOMAIN sent \subseteq Nat \ {0}
      /\ num \in [0 .. n -> {0} \cup DOMAIN sent]
  BY <1>0, LenProperties, SentIndices DEF TypeOK, Numbers
<1>2. num[0] \in DOMAIN sent /\ at[num[0]] = Stage[c]
  BY <1>0, <1>1 DEF Numbers
<1>3. ASSUME NEW k \in DOMAIN sent, at[k] = Stage[c]
      PROVE  k >= num[0]
  <2>1. PICK i \in 0 .. n : num[i] = k
    BY <1>0, <1>3 DEF Numbers
  <2>2. CASE i = 0
    BY <1>1, <1>2, <2>1, <2>2
  <2>3. CASE i # 0
    <3>1. 0 < i /\ num[i] # 0
      BY <1>1, <2>1, <2>3
    <3>2. num[0] <= num[i]
      BY <1>0, <1>1, <3>1 DEF InOrder
    <3> QED
      BY <1>1, <1>2, <2>1, <3>2
  <2> QED
    BY <2>2, <2>3
<1> QED
  BY <1>2, <1>3

(* What a reader returns of a frame. *)
LEMMA ReturnPasses ==
  ASSUME TypeOK, NEW c \in Conns, TakeByte(c), After(c).state = "complete",
         NEW pos \in [0 .. Len(stream[c]) -> 1 .. LengthOf(c)],
         NEW dat \in [0 .. Len(stream[c]) -> Datas], NEW num, NEW at,
         Numbered(c, pos, dat, num, at)
  PROVE  /\ pos[0] # LengthOf(c)
         /\ \A s \in Contents(c, After(c).buf) : Passes(Data(s), num[0])
<1>0. PICK n : n = Len(stream[c])
  OBVIOUS
<1>1. /\ stream[c] # <<>> /\ n \in Nat /\ n >= 1 /\ 0 \in 0 .. n /\ 1 \in 1 .. n
      /\ Head(stream[c]) = stream[c][1] /\ reader[c] \in Readers
      /\ dat[0] \in Datas /\ pos[0] \in 1 .. LengthOf(c)
  <2>1. stream[c] \in Seq(Char) /\ stream[c] # <<>> /\ reader[c] \in Readers
    BY DEF TakeByte, TypeOK
  <2>2. n \in Nat /\ n >= 1 /\ Head(stream[c]) = stream[c][1]
    BY <1>0, <2>1, LenProperties, EmptySeq, HeadTailProperties
  <2> QED
    BY <1>0, <2>1, <2>2
<1>2. /\ stream[c][1] = FrameByte(c, dat[1], pos[1])
      /\ IF pos[0] = LengthOf(c) THEN pos[1] = 1
         ELSE pos[1] = pos[0] + 1 /\ dat[1] = dat[0]
      /\ Reads(c, reader[c], pos[0], dat[0])
  <2>1. /\ stream[c][1] = FrameByte(c, dat[1], pos[1])
        /\ IF pos[1 - 1] = LengthOf(c) THEN pos[1] = 1
           ELSE pos[1] = pos[1 - 1] + 1 /\ dat[1] = dat[1 - 1]
    BY <1>0, <1>1 DEF Numbered, FrameState, Framed
  <2>2. 1 - 1 = 0
    OBVIOUS
  <2> QED
    BY <2>1, <2>2 DEF Numbered, FrameState
<1>3. pos[0] # LengthOf(c)
  <2> SUFFICES ASSUME pos[0] = LengthOf(c)
               PROVE  FALSE
    OBVIOUS
  <2>1. reader[c] = Ready /\ pos[1] = 1 /\ dat[1] \in Datas
    BY <1>0, <1>1, <1>2 DEF Reads
  <2>2. After(c).state = "PKTSTART2"
    BY <1>1, <1>2, <2>1, FirstByte DEF After
  <2> QED
    BY <2>2
<1>4. PICK k, data, a : k = pos[0] /\ data = dat[0] /\ a = num[0]
  OBVIOUS
<1>5. /\ k \in 1 .. LengthOf(c) - 1 /\ data \in Datas
      /\ After(c) = PutByte(reader[c], FrameByte(c, data, k + 1), c)
      /\ Reads(c, reader[c], k, data) /\ Reading(c, reader[c], k, data, a)
  <2>1. k \in 1 .. LengthOf(c) - 1
    BY <1>1, <1>3, <1>4, Lengths
  <2> QED
    BY <1>1, <1>2, <1>3, <1>4, <2>1 DEF After, Numbered
<1>6. Holds(c, After(c).buf, k + 1, data, a)
  BY <1>1, <1>5, ReadingNext
<1>7. Plain(data) => After(c).buf = Part(c, data, 3, LengthOf(c))
  BY <1>1, <1>5, NextByte
<1>8. PICK q \in 3 .. (k + 1) + 1 :
        /\ After(c).buf = Part(c, data, q, k + 1)
        /\ IF a # 0 THEN q = 3 ELSE q >= 4 \/ Unmarked(data)
  BY <1>6 DEF Holds
<1>9. ASSUME NEW s \in Contents(c, After(c).buf)
      PROVE  Passes(Data(s), a)
  <2>1. k + 1 \in 2 .. LengthOf(c) /\ s \in Contents(c, Part(c, data, q, k + 1))
    BY <1>5, <1>8, Lengths
  <2>2. /\ Unmarked(data) => Unmarked(Data(s))
        /\ NoneAfter(data) /\ q >= 4 => Unmarked(Data(s))
        /\ \A x : Marked(data, x) /\ q = 3 /\ (Clean(x) => Data(s) = data) =>
             Marked(Data(s), x) \/ (Unmarked(Data(s)) /\ ~Clean(x))
    BY <1>5, <2>1, Reread
  <2>3. IF a # 0 THEN Marked(data, sent[a]) ELSE Unmarked(data) \/ NoneAfter(data)
    BY <1>0, <1>1, <1>3, <1>4 DEF Numbered, Tells
  <2>4. CASE a = 0
    BY <1>8, <2>2, <2>3, <2>4 DEF Passes
  <2>5. CASE a # 0
    <3>1. Clean(sent[a]) => Data(s) = data
      <4> SUFFICES ASSUME Clean(sent[a])
                   PROVE  Data(s) = data
        OBVIOUS
      <4>1. Plain(data)
        BY <2>3, <2>5 DEF Marked, Clean, Plain
      <4> QED
        BY <1>5, <1>7, <1>9, <4>1, WhatWasSentIsRead
    <3> QED
      BY <1>8, <2>2, <2>3, <2>5, <3>1 DEF Passes
  <2> QED
    BY <2>4, <2>5
<1> QED
  BY <1>3, <1>4, <1>9

(* The reader takes a byte: a is the number of the frame it returns, and    *)
(* that number is then elsewhere.                                           *)
LEMMA TakeTracked ==
  ASSUME TypeOK, [Next]_vars, NEW c \in Conns, TakeByte(c),
         NEW pos \in [0 .. Len(stream[c]) -> 1 .. LengthOf(c)],
         NEW dat \in [0 .. Len(stream[c]) -> Datas], NEW num, NEW at,
         Numbered(c, pos, dat, num, at),
         reader'[c] = IF After(c).state = "complete" THEN Ready ELSE After(c),
         \A t \in Threads : Out[t] = c => work'[t].begun = work[t].begun
                                          /\ (work[t].begun => work'[t] = work[t]),
         open' = open, sent' = sent, excused \subseteq excused',
         NEW a, a = IF After(c).state = "complete" THEN num[0] ELSE 0, NEW at2,
         \A k \in DOMAIN sent : at2[k] = Stage[c] <=> at[k] = Stage[c] /\ k # a
  PROVE  Tracked(c, at2)'
<1>0. PICK n, L : n = Len(stream[c]) /\ L = LengthOf(c)
  OBVIOUS
<1>1. /\ stream[c] # <<>> /\ n \in Nat /\ n >= 1 /\ 0 \in 0 .. n /\ 1 \in 1 .. n
      /\ 1 \in 0 .. n /\ n - 1 \in 0 .. n - 1 /\ n - 1 \in Nat /\ 0 \in 0 .. n - 1
      /\ Head(stream[c]) = stream[c][1] /\ reader[c] \in Readers
      /\ Len(stream'[c]) = n - 1
  <2>1. stream[c] \in Seq(Char) /\ stream[c] # <<>> /\ reader[c] \in Readers
        /\ stream'[c] = Tail(stream[c])
    BY DEF TakeByte, TypeOK
  <2>2. n \in Nat /\ n >= 1 /\ Head(stream[c]) = stream[c][1]
        /\ Len(Tail(stream[c])) = n - 1
    BY <1>0, <2>1, LenProperties, EmptySeq, HeadTailProperties
  <2> QED
    BY <1>0, <2>1, <2>2
<1>2. L \in Nat /\ L >= 5 /\ pos \in [0 .. n -> 1 .. L] /\ dat \in [0 .. n -> Datas]
  BY <1>0, Lengths
<1>3. PICK pos2 \in [0 .. n - 1 -> 1 .. L], dat2 \in [0 .. n - 1 -> Datas] :
        /\ FrameState(c, pos2, dat2)'
        /\ \A i \in 0 .. n - 1 : pos2[i] = pos[i + 1] /\ dat2[i] = dat[i + 1]
  <2>1. FrameState(c, pos, dat)
    BY DEF Numbered
  <2>2. \E p2 \in [0 .. Len(stream'[c]) -> 1 .. LengthOf(c)],
           d2 \in [0 .. Len(stream'[c]) -> Datas] :
          FrameState(c, p2, d2)' /\ Moved(c, pos, dat, p2, d2)
    BY <2>1, FrameTake
  <2>3. PICK p2 \in [0 .. Len(stream'[c]) -> 1 .. LengthOf(c)],
             d2 \in [0 .. Len(stream'[c]) -> Datas] :
          FrameState(c, p2, d2)' /\ Moved(c, pos, dat, p2, d2)
    BY <2>2
  <2>4. p2 \in [0 .. n - 1 -> 1 .. L] /\ d2 \in [0 .. n - 1 -> Datas]
    BY <1>0, <1>1
  <2>5. \A i \in 0 .. n - 1 : p2[i] = pos[i + 1] /\ d2[i] = dat[i + 1]
    BY <1>1, <2>3 DEF Moved
  <2> QED
    BY <2>3, <2>4, <2>5
<1>4. DOMAIN sent \subseteq Nat \ {0} /\ num \in [0 .. n -> {0} \cup DOMAIN sent]
  BY <1>0, SentIndices DEF Numbered, Numbers
<1>5. PICK num2 : num2 = [i \in 0 .. n - 1 |-> IF num[i + 1] = a THEN 0 ELSE num[i + 1]]
  OBVIOUS
<1>6. \A i \in 0 .. n - 1 :
        /\ i + 1 \in 0 .. n /\ i + 1 \in 1 .. n /\ (i + 1) - 1 = i
        /\ num2[i] = IF num[i + 1] = a THEN 0 ELSE num[i + 1]
        /\ num[i + 1] \in {0} \cup DOMAIN sent
        /\ num2[i] # 0 => num2[i] = num[i + 1] /\ num[i + 1] # a
  <2>1. \A i \in 0 .. n - 1 : i + 1 \in 0 .. n /\ i + 1 \in 1 .. n /\ (i + 1) - 1 = i
    BY <1>1
  <2> QED
    BY <1>4, <1>5, <2>1
<1>7. IF pos[0] = L THEN pos[1] = 1 /\ num[0] = 0
      ELSE pos[1] = pos[0] + 1 /\ dat[1] = dat[0] /\ num[1] = num[0] /\ pos[1] # 1
  <2>1. IF pos[1 - 1] = L THEN pos[1] = 1
        ELSE pos[1] = pos[1 - 1] + 1 /\ dat[1] = dat[1 - 1]
    BY <1>0, <1>1 DEF Numbered, FrameState, Framed
  <2>2. pos[1] # 1 => num[1] = num[1 - 1]
    BY <1>0, <1>1 DEF Numbered, InOrder
  <2>3. 1 - 1 = 0 /\ pos[0] \in 1 .. L
    BY <1>1, <1>2
  <2>4. pos[0] + 1 # 1
    BY <1>2, <2>3
  <2>5. pos[0] = L => num[0] = 0
    BY <1>0 DEF Numbered, InOrder
  <2> QED
    BY <2>1, <2>2, <2>3, <2>4, <2>5
<1>8. stream[c][1] = FrameByte(c, dat[1], pos[1])
  BY <1>0, <1>1 DEF Numbered, FrameState, Framed
<1>9. /\ pos[0] = L => After(c).state # "complete" /\ a = 0
                       /\ Reading(c, After(c), 1, dat[1], num[1])
      /\ pos[0] # L /\ After(c).state # "complete" =>
           /\ Reading(c, After(c), pos[1], dat[1], num[1])
           /\ pos[1] = L => num[1] = 0
      /\ a = 0 \/ (a = num[0] /\ After(c).state = "complete" /\ a \in DOMAIN sent)
  <2>1. CASE pos[0] = L
    <3>1. After(c).state # "complete" /\ a = 0
      BY <1>0, <2>1, ReturnPasses
    <3>2. reader[c] = Ready /\ pos[1] = 1 /\ dat[1] \in Datas
      BY <1>0, <1>1, <1>2, <1>7, <2>1 DEF Numbered, FrameState, Reads
    <3>3. num[1] = 0 => Unmarked(dat[1])
      <4>1. 1 # 0 /\ pos[0] + 1 # 1
        BY <1>2, <2>1
      <4> QED
        BY <1>0, <1>1, <3>2, <4>1 DEF Numbered, Tells
    <3>4. Reading(c, After(c), 1, dat[1], num[1])
      BY <1>1, <1>8, <3>2, <3>3, ReadingFirst DEF After
    <3> QED
      BY <2>1, <3>1, <3>4
  <2>2. CASE pos[0] # L
    <3>1. PICK k : k = pos[0]
      OBVIOUS
    <3>2. /\ k \in 1 .. LengthOf(c) - 1 /\ dat[0] \in Datas
          /\ After(c) = PutByte(reader[c], FrameByte(c, dat[0], k + 1), c)
          /\ Reads(c, reader[c], k, dat[0])
          /\ Reading(c, reader[c], k, dat[0], num[0])
      <4>1. k \in 1 .. LengthOf(c) - 1 /\ dat[0] \in Datas
        <5>1. 0 \in 0 .. n /\ pos[0] \in 1 .. L /\ L \in Nat
          BY <1>1, <1>2
        <5>2. dat[0] \in Datas
          BY <1>2, <5>1
        <5>3. pos[0] \in 1 .. L - 1
          BY <2>2, <5>1
        <5> QED
          BY <1>0, <3>1, <5>2, <5>3
      <4>2. After(c) = PutByte(reader[c], FrameByte(c, dat[0], k + 1), c)
        BY <1>1, <1>7, <1>8, <2>2, <3>1 DEF After
      <4>3. /\ Reads(c, reader[c], k, dat[0])
            /\ Reading(c, reader[c], k, dat[0], num[0])
        BY <1>0, <1>1, <3>1 DEF Numbered, FrameState
      <4> QED
        BY <4>1, <4>2, <4>3
    <3>3. After(c).state # "complete" =>
            Reading(c, After(c), k + 1, dat[0], num[0])
            /\ (k + 1 = LengthOf(c) => num[0] = 0)
      BY <1>1, <3>2, ReadingNext
    <3>4. num[0] \in {0} \cup DOMAIN sent
      BY <1>1, <1>4
    <3> QED
      BY <1>0, <1>7, <2>2, <3>1, <3>3, <3>4
  <2> QED
    BY <2>1, <2>2
<1>10. Numbers(c, num2, at2)'
  <2>1. num2 \in [0 .. n - 1 -> {0} \cup DOMAIN sent]
    BY <1>5, <1>6
  <2>2. ASSUME NEW k \in DOMAIN sent, at2[k] = Stage[c]
        PROVE  \E i \in 0 .. n - 1 : num2[i] = k
    <3>1. k # a /\ \E i \in 0 .. n : num[i] = k
      BY <1>0, <2>2 DEF Numbered, Numbers
    <3>2. PICK i \in 0 .. n : num[i] = k
      BY <3>1
    <3>3. CASE i = 0
      <4>1. num[1] = k
        BY <1>4, <1>7, <3>2, <3>3
      <4>2. num2[0] = IF num[0 + 1] = a THEN 0 ELSE num[0 + 1]
        BY <1>1, <1>6
      <4> QED
        BY <1>1, <3>1, <4>1, <4>2
    <3>4. CASE i # 0
      <4>1. i - 1 \in 0 .. n - 1 /\ (i - 1) + 1 = i
        BY <1>1, <3>4
      <4>2. num2[i - 1] = k
        BY <1>6, <3>1, <3>2, <4>1
      <4> QED
        BY <4>1, <4>2
    <3> QED
      BY <3>3, <3>4
  <2>3. ASSUME NEW k \in DOMAIN sent, NEW i \in 0 .. n - 1, num2[i] = k
        PROVE  at2[k] = Stage[c]
    <3>1. num[i + 1] = k /\ k # a /\ i + 1 \in 0 .. n
      BY <1>4, <1>6, <2>3
    <3>2. at[k] = Stage[c]
      BY <1>0, <3>1 DEF Numbered, Numbers
    <3> QED
      BY <3>1, <3>2
  <2> QED
    BY <1>1, <2>1, <2>2, <2>3 DEF Numbers
<1>11. InOrder(c, pos2, num2)'
  <2>1. ASSUME NEW i \in 0 .. n - 1, NEW j \in 0 .. n - 1, i < j,
               num2[i] # 0, num2[j] # 0
        PROVE  num2[i] <= num2[j] /\ (num2[i] = num2[j] => pos2[j] = pos2[i] + (j - i))
    <3>1. num2[i] = num[i + 1] /\ num2[j] = num[j + 1] /\ i + 1 \in 0 .. n
          /\ j + 1 \in 0 .. n /\ i + 1 < j + 1 /\ (j + 1) - (i + 1) = j - i
      BY <1>1, <1>6, <2>1
    <3>2. /\ num[i + 1] <= num[j + 1]
          /\ num[i + 1] = num[j + 1] => pos[j + 1] = pos[i + 1] + ((j + 1) - (i + 1))
      BY <1>0, <2>1, <3>1 DEF Numbered, InOrder
    <3> QED
      BY <1>3, <3>1, <3>2
  <2>2. ASSUME NEW i \in 1 .. n - 1, pos2[i] # 1
        PROVE  num2[i] = num2[i - 1]
    <3>1. i \in 0 .. n - 1 /\ i - 1 \in 0 .. n - 1 /\ (i - 1) + 1 = i
          /\ i + 1 \in 1 .. n /\ (i + 1) - 1 = i
      BY <1>1
    <3>2. num[i + 1] = num[(i + 1) - 1]
      BY <1>0, <1>3, <2>2, <3>1 DEF Numbered, InOrder
    <3>3. /\ num2[i] = IF num[i + 1] = a THEN 0 ELSE num[i + 1]
          /\ num2[i - 1] = IF num[(i - 1) + 1] = a THEN 0 ELSE num[(i - 1) + 1]
      BY <1>6, <3>1
    <3> QED
      BY <3>1, <3>2, <3>3
  <2>3. ASSUME pos2[0] = L
        PROVE  num2[0] = 0
    <3>1. pos2[0] = pos[1] /\ num2[0] = IF num[1] = a THEN 0 ELSE num[1]
      <4>1. 0 + 1 = 1
        OBVIOUS
      <4> QED
        BY <1>1, <1>3, <1>6, <4>1
    <3>2. pos[0] # L
      BY <1>2, <1>7, <2>3, <3>1
    <3> QED
      BY <1>7, <1>9, <2>3, <3>1, <3>2
  <2> QED
    BY <1>0, <1>1, <2>1, <2>2, <2>3 DEF InOrder
<1>12. Tells(c, pos2, dat2, num2)'
  <2> SUFFICES ASSUME NEW i \in 0 .. n - 1
               PROVE  IF num2[i] # 0 THEN Marked(dat2[i], sent[num2[i]])
                      ELSE \/ Unmarked(dat2[i])
                           \/ NoneAfter(dat2[i]) /\ pos2[i] = pos2[0] + i
                           \/ i = 0 /\ pos2[0] = LengthOf(c)
    BY <1>1 DEF Tells
  <2>1. /\ i + 1 \in 0 .. n /\ i + 1 # 0 /\ pos2[i] = pos[i + 1]
        /\ dat2[i] = dat[i + 1] /\ pos2[0] = pos[1]
    <3>1. 0 + 1 = 1 /\ i + 1 # 0
      BY <1>1
    <3> QED
      BY <1>1, <1>3, <1>6, <3>1
  <2>2. IF num[i + 1] # 0 THEN Marked(dat[i + 1], sent[num[i + 1]])
        ELSE \/ Unmarked(dat[i + 1])
             \/ NoneAfter(dat[i + 1]) /\ pos[i + 1] = pos[0] + (i + 1)
    BY <1>0, <2>1 DEF Numbered, Tells
  <2>3. CASE num2[i] # 0
    BY <1>6, <2>1, <2>2, <2>3
  <2>4. CASE num[i + 1] = 0
    <3>1. num2[i] = 0
      BY <1>6, <2>4
    <3>2. CASE Unmarked(dat[i + 1])
      BY <2>1, <3>1, <3>2
    <3>3. CASE NoneAfter(dat[i + 1]) /\ pos[i + 1] = pos[0] + (i + 1)
      <4>1. pos[i + 1] \in 1 .. L /\ pos[0] \in 1 .. L
        BY <1>1, <1>2, <2>1
      <4>2. pos[0] # L
        BY <1>2, <3>3, <4>1
      <4>3. pos2[i] = pos2[0] + i
        BY <1>7, <2>1, <3>3, <4>1, <4>2
      <4> QED
        BY <2>1, <3>1, <3>3, <4>3
    <3> QED
      BY <2>2, <2>4, <3>2, <3>3
  <2>5. CASE num2[i] = 0 /\ num[i + 1] # 0
    <3>1. num[i + 1] = a /\ a # 0 /\ a = num[0] /\ pos[0] # L
      BY <1>6, <1>9, <2>5
    <3>2. NoneAfter(dat[i + 1])
      BY <2>2, <2>5 DEF Marked
    <3>3. pos[i + 1] = pos[0] + ((i + 1) - 0)
      <4>1. 0 < i + 1
        BY <1>1
      <4> QED
        BY <1>0, <1>1, <2>1, <3>1, <4>1 DEF Numbered, InOrder
    <3>4. pos2[i] = pos2[0] + i
      <4>1. PICK p : p = pos[0]
        OBVIOUS
      <4>2. p \in Nat /\ i \in Nat /\ pos2[0] = p + 1
        BY <1>1, <1>2, <1>7, <2>1, <3>1, <4>1
      <4>3. pos2[i] = p + ((i + 1) - 0)
        BY <2>1, <3>3, <4>1
      <4>4. p + ((i + 1) - 0) = (p + 1) + i
        BY <4>2
      <4> QED
        BY <4>2, <4>3, <4>4
    <3> QED
      BY <2>1, <2>5, <3>2, <3>4
  <2> QED
    BY <2>3, <2>4, <2>5
<1>13. CutOff(c, pos2, num2)'
  <2> SUFFICES ASSUME c = "srt_snp", num2[n - 1] # 0, pos2[n - 1] # LengthOf(c)
               PROVE  IF open THEN \E t \in {"app", "timer"} :
                                     work'[t].begun /\ work'[t].what = sent[num2[n - 1]]
                      ELSE sent[num2[n - 1]] \in excused'
    BY <1>1 DEF CutOff
  <2>1. (n - 1) + 1 = n
    BY <1>1
  <2>2. num2[n - 1] = num[n] /\ pos2[n - 1] = pos[n]
    BY <1>1, <1>3, <1>6, <2>1
  <2>3. IF open THEN \E t \in {"app", "timer"} :
                       work[t].begun /\ work[t].what = sent[num[n]]
        ELSE sent[num[n]] \in excused
    BY <1>0, <2>2 DEF Numbered, CutOff
  <2>4. {"app", "timer"} \subseteq Threads /\ Out["app"] = c /\ Out["timer"] = c
    BY Names DEF Out
  <2> QED
    BY <2>2, <2>3, <2>4
<1>14. Reading(c, reader'[c], pos2[0], dat2[0], num2[0])
  <2>0. /\ pos2[0] = pos[1] /\ dat2[0] = dat[1]
        /\ num2[0] = IF num[1] = a THEN 0 ELSE num[1]
    <3>1. 0 + 1 = 1
      OBVIOUS
    <3> QED
      BY <1>1, <1>3, <1>6, <3>1
  <2>1. CASE After(c).state = "complete"
    <3>1. pos[0] # L /\ pos[1] # 1 /\ num2[0] = 0
      BY <1>7, <1>9, <2>0, <2>1
    <3>2. reader'[c] = Ready /\ Ready.state = "PKTSTART1"
      BY <2>1 DEF Ready
    <3> QED
      BY <2>0, <3>1, <3>2 DEF Reading
  <2>2. CASE After(c).state # "complete"
    <3>1. reader'[c] = After(c) /\ a = 0 /\ num2[0] = num[1]
      BY <2>0, <2>2
    <3> QED
      BY <1>7, <1>9, <2>0, <2>2, <3>1
  <2> QED
    BY <2>1, <2>2
<1>15. Numbered(c, pos2, dat2, num2, at2)'
  BY <1>3, <1>10, <1>11, <1>12, <1>13, <1>14 DEF Numbered
<1> QED
  BY <1>0, <1>1, <1>3, <1>15 DEF Tracked, Numbered, Numbers, Numberings

(* What was sent before is still there. *)
SentMore ==
  DOMAIN sent \subseteq DOMAIN sent' /\ \A k \in DOMAIN sent : sent'[k] = sent[k]

(* Nothing happens on the connection, but its process may be gone. *)
LEMMA KeepTracked ==
  ASSUME TypeOK, [Next]_vars, NEW c \in Conns, NEW at, Tracked(c, at),
         stream'[c] = stream[c], reader'[c] = reader[c],
         c # "srt_snp" \/ open' =>
           /\ c # "srt_snp" \/ open
           /\ \A t \in Threads : Out[t] = c =>
                work'[t].begun = work[t].begun
                /\ (work[t].begun => work'[t] = work[t]),
         c = "srt_snp" /\ open /\ ~open' =>
           {work["app"].what, work["timer"].what} \subseteq excused',
         SentMore, excused \subseteq excused', NEW at2,
         \A k \in DOMAIN sent' :
           at2[k] = Stage[c] <=> k \in DOMAIN sent /\ at[k] = Stage[c]
  PROVE  Tracked(c, at2)'
<1>0. PICK n : n = Len(stream[c])
  OBVIOUS
<1>1. PICK pos \in [0 .. n -> 1 .. LengthOf(c)], dat \in [0 .. n -> Datas],
           num \in Numberings(c) :
        Numbered(c, pos, dat, num, at)
  BY <1>0 DEF Tracked
<1>2. Len(stream'[c]) = n /\ n \in Nat /\ 0 \in 0 .. n /\ n \in 0 .. n
  <2>1. n \in Nat
    BY <1>0, LenProperties DEF TypeOK
  <2> QED
    BY <1>0, <2>1
<1>3. FrameState(c, pos, dat)'
  BY <1>0, <1>1, FrameKept DEF Numbered
<1>4. /\ num \in [0 .. n -> {0} \cup DOMAIN sent] /\ DOMAIN sent \subseteq Nat \ {0}
      /\ \A k \in DOMAIN sent : at[k] = Stage[c] <=> \E i \in 0 .. n : num[i] = k
  BY <1>0, <1>1, SentIndices DEF Numbered, Numbers
<1>5. Numbers(c, num, at2)'
  <2>1. num \in [0 .. n -> {0} \cup DOMAIN sent']
    BY <1>4 DEF SentMore
  <2>2. 0 \notin DOMAIN sent'
    <3>1. sent' = sent \/ \E x : sent' = Append(sent, x)
      BY DEF Next, Relay, vars, Send, Receive, Middle, getsegToSend, Returns,
         getpktToSend, recvpkt, overlay_recvpkt, snp_recvseg, Enter, SrtCloses,
         waitTransport
    <3>2. ASSUME NEW x, sent' = Append(sent, x)
          PROVE  0 \notin DOMAIN sent'
      <4>1. sent \in Seq(Segments \cup {None, x})
        BY SeqMonotonic DEF TypeOK
      <4>2. sent' \in Seq(Segments \cup {None, x})
        BY <3>2, <4>1, AppendProperties
      <4> QED
        BY <4>2, LenProperties
    <3> QED
      BY <1>4, <3>1, <3>2
  <2>3. \A k \in DOMAIN sent' :
          at2[k] = Stage[c] <=> \E i \in 0 .. n : num[i] = k
    <3> SUFFICES ASSUME NEW k \in DOMAIN sent'
                 PROVE  at2[k] = Stage[c] <=> \E i \in 0 .. n : num[i] = k
      OBVIOUS
    <3>1. CASE k \in DOMAIN sent
      BY <1>4, <3>1
    <3>2. CASE k \notin DOMAIN sent
      <4>1. \A i \in 0 .. n : num[i] # k
        BY <1>4, <2>2, <3>2
      <4> QED
        BY <3>2, <4>1
    <3> QED
      BY <3>1, <3>2
  <2> QED
    BY <1>2, <2>1, <2>3 DEF Numbers
<1>6. InOrder(c, pos, num)'
  <2>1. InOrder(c, pos, num)
    BY <1>1 DEF Numbered
  <2> QED
    BY <2>1 DEF InOrder
<1>7. Tells(c, pos, dat, num)'
  <2>1. \A i \in 0 .. n : num[i] # 0 => sent'[num[i]] = sent[num[i]]
    BY <1>4 DEF SentMore
  <2>2. Tells(c, pos, dat, num)
    BY <1>1 DEF Numbered
  <2> QED
    BY <1>0, <1>2, <2>1, <2>2 DEF Tells
<1>8. CutOff(c, pos, num)'
  <2> SUFFICES ASSUME c = "srt_snp", num[n] # 0, pos[n] # LengthOf(c)
               PROVE  IF open' THEN \E t \in {"app", "timer"} :
                                      work'[t].begun /\ work'[t].what = sent'[num[n]]
                      ELSE sent'[num[n]] \in excused'
    BY <1>2 DEF CutOff
  <2>1. sent'[num[n]] = sent[num[n]]
    BY <1>2, <1>4 DEF SentMore
  <2>2. IF open THEN \E t \in {"app", "timer"} :
                       work[t].begun /\ work[t].what = sent[num[n]]
        ELSE sent[num[n]] \in excused
    BY <1>0, <1>1 DEF Numbered, CutOff
  <2>3. {"app", "timer"} \subseteq Threads /\ Out["app"] = c /\ Out["timer"] = c
    BY Names DEF Out
  <2>4. CASE open'
    BY <2>1, <2>2, <2>3, <2>4
  <2>5. CASE ~open'
    BY <2>1, <2>2, <2>5
  <2> QED
    BY <2>4, <2>5
<1>9. Reading(c, reader'[c], pos[0], dat[0], num[0])
  BY <1>1 DEF Numbered
<1>10. Numbered(c, pos, dat, num, at2)'
  BY <1>3, <1>5, <1>6, <1>7, <1>8, <1>9 DEF Numbered
<1> QED
  BY <1>0, <1>2, <1>10 DEF Tracked, Numbered, Numbers, Numberings

(* What is left of a frame tells its data. *)
LEMMA LeftIs ==
  ASSUME NEW c \in Conns, NEW d \in Datas, NEW e \in Datas,
         LeftOf(c, d, 1) = LeftOf(c, e, 1)
  PROVE  d = e
<1>0. PICK n, h : n = Size[c] /\ h = Header(c)
  OBVIOUS
<1>1. /\ n \in Nat /\ SegSize \in Nat /\ h \in {1, 2} /\ SegSize = n - h /\ n >= 1
  BY <1>0, Lengths, Sizes
<1>2. \A f \in Datas : LeftOf(c, f, 1)[2] = Part(c, f, 3, n + 2)
  BY <1>0, <1>1 DEF LeftOf
<1>3. \A f \in Datas, i \in 1 .. SegSize : Part(c, f, 3, n + 2)[h + i] = f[i]
  <2> SUFFICES ASSUME NEW f \in Datas, NEW i \in 1 .. SegSize
               PROVE  Part(c, f, 3, n + 2)[h + i] = f[i]
    OBVIOUS
  <2>1. h + i \in 1 .. (n + 2) - 3 + 1 /\ 3 + (h + i) - 1 = h + i + 2
    BY <1>1
  <2>2. Part(c, f, 3, n + 2)[h + i] = FrameByte(c, f, h + i + 2)
    BY <2>1 DEF Part
  <2>3. h + i + 2 # 1 /\ h + i + 2 # n + 3 /\ h + i + 2 # 2 /\ h + i + 2 # n + 4
        /\ ~(h + i + 2 <= h + 2) /\ (h + i + 2) - h - 2 = i
    BY <1>1
  <2>4. FrameByte(c, f, h + i + 2) = f[(h + i + 2) - h - 2]
    BY <1>0, <2>3 DEF FrameByte
  <2> QED
    BY <2>2, <2>3, <2>4
<1>4. \A i \in 1 .. SegSize : d[i] = e[i]
  BY <1>2, <1>3
<1>5. d = [i \in 1 .. SegSize |-> d[i]] /\ e = [i \in 1 .. SegSize |-> e[i]]
  BY DEF Datas
<1> QED
  BY <1>4, <1>5

(* v is the number of the frame a thread goes on with or begins. *)
Begins(t, num, at, v) ==
  /\ v \in {0} \cup DOMAIN sent'
  /\ work[t].begun => v = num[Len(stream[Out[t]])]
  /\ ~work[t].begun =>
       /\ \A data \in Datas : work[t].left = LeftOf(Out[t], data, 1) =>
            IF v = 0 THEN Unmarked(data) ELSE Marked(data, sent'[v])
       /\ v # 0 => \A k \in DOMAIN sent : at[k] = Stage[Out[t]] => k < v
       /\ t \in {"app", "timer"} => v # 0 /\ sent'[v] = work[t].what

(* A thread sends: v is the number of the frame, and it is now here. *)
LEMMA SendTracked ==
  ASSUME TypeOK, SourceInv, JobInv, NEW t \in Threads, Send(t), Others(t) = {},
         NEW pos \in [0 .. Len(stream[Out[t]]) -> 1 .. LengthOf(Out[t])],
         NEW dat \in [0 .. Len(stream[Out[t]]) -> Datas], NEW num, NEW at,
         Numbered(Out[t], pos, dat, num, at), SentMore, 0 \notin DOMAIN sent',
         NEW v, Begins(t, num, at, v), NEW at2,
         \A k \in DOMAIN sent' : at2[k] = Stage[Out[t]] <=>
           (k \in DOMAIN sent /\ at[k] = Stage[Out[t]]) \/ k = v
  PROVE  Tracked(Out[t], at2)'
<1>a. /\ v \in {0} \cup DOMAIN sent'
      /\ work[t].begun => v = num[Len(stream[Out[t]])]
      /\ ~work[t].begun =>
           /\ \A data \in Datas : work[t].left = LeftOf(Out[t], data, 1) =>
                IF v = 0 THEN Unmarked(data) ELSE Marked(data, sent'[v])
           /\ v # 0 => \A k \in DOMAIN sent : at[k] = Stage[Out[t]] => k < v
           /\ t \in {"app", "timer"} => v # 0 /\ sent'[v] = work[t].what
  BY DEF Begins
<1>0. PICK c, n, m, L : /\ c = Out[t] /\ n = Len(stream[c]) /\ m = Len(stream'[c])
                        /\ L = LengthOf(c)
  OBVIOUS
<1>1. c \in Conns /\ n \in Nat /\ L \in Nat /\ L >= 5
  <2>1. c \in Conns
    BY <1>0, Names
  <2>2. n \in Nat
    BY <1>0, <2>1, LenProperties DEF TypeOK
  <2> QED
    BY <1>0, <2>1, <2>2, Lengths
<1>2. PICK pos2 \in [0 .. Len(stream'[Out[t]]) -> 1 .. LengthOf(Out[t])],
           dat2 \in [0 .. Len(stream'[Out[t]]) -> Datas] :
        FrameState(Out[t], pos2, dat2)' /\ Longer(t, pos, dat, pos2, dat2)
  BY FrameSend DEF Numbered
<1>3. /\ pos \in [0 .. n -> 1 .. L] /\ dat \in [0 .. n -> Datas]
      /\ pos2 \in [0 .. m -> 1 .. L] /\ dat2 \in [0 .. m -> Datas]
      /\ FrameState(c, pos2, dat2)' /\ Numbered(c, pos, dat, num, at)
  BY <1>0, <1>2
<1>4. /\ m > n
      /\ \A i \in 0 .. n : pos2[i] = pos[i] /\ dat2[i] = dat[i]
      /\ \A i \in n + 1 .. m :
           dat2[i] = dat2[n + 1] /\ pos2[i] = pos2[n + 1] + (i - n - 1)
      /\ work[t].begun =>
           pos[n] # L /\ pos2[n + 1] = pos[n] + 1 /\ dat2[n + 1] = dat[n]
      /\ ~work[t].begun =>
           pos[n] = L /\ pos2[n + 1] = 1 /\ work[t].left = LeftOf(c, dat2[n + 1], 1)
      /\ work'[t] # Idle => work'[t].begun /\ work'[t].what = work[t].what
      /\ work'[t] = Idle <=> pos2[m] = L
  BY <1>0, <1>2 DEF Longer
<1>5. m \in Nat /\ n + 1 \in 0 .. m /\ 0 \in 0 .. n /\ n \in 0 .. n /\ m \in n + 1 .. m
  <2>1. m \in Nat
    <3>1. stream'[c] \in Seq(Char)
      BY <1>1, SendTypes DEF TypeOK
    <3> QED
      BY <1>0, <3>1, LenProperties
  <2> QED
    BY <1>1, <1>4, <2>1
<1>6. \A i \in 0 .. m : i \in 0 .. n \/ i \in n + 1 .. m
  BY <1>1, <1>5
<1>7. \A i \in 0 .. n : i \in 0 .. m /\ i <= n
  BY <1>1, <1>4, <1>5
<1>8. \A i \in n + 1 .. m : i \in 0 .. m /\ ~(i <= n)
  BY <1>1, <1>5
<1>9. PICK num2 : num2 = [i \in 0 .. m |-> IF i <= n THEN num[i] ELSE v]
  OBVIOUS
<1>10. /\ \A i \in 0 .. n : num2[i] = num[i]
       /\ \A i \in n + 1 .. m : num2[i] = v
  BY <1>7, <1>8, <1>9
<1>11. /\ num \in [0 .. n -> {0} \cup DOMAIN sent]
       /\ DOMAIN sent \subseteq DOMAIN sent' /\ DOMAIN sent \subseteq Nat \ {0}
       /\ DOMAIN sent' \subseteq Nat \ {0}
       /\ \A k \in DOMAIN sent : at[k] = Stage[c] <=> \E i \in 0 .. n : num[i] = k
  <2>1. sent' \in Seq(Segments \cup {None})
    BY SendTypes DEF TypeOK
  <2>2. DOMAIN sent' \subseteq Nat \ {0}
    BY <2>1, LenProperties
  <2> QED
    BY <1>0, <1>3, <2>2, SentIndices DEF Numbered, Numbers, SentMore
<1>12. \A i \in 0 .. n : num[i] # 0 =>
         num[i] \in DOMAIN sent /\ at[num[i]] = Stage[c] /\ sent'[num[i]] = sent[num[i]]
  BY <1>11 DEF SentMore
<1>13. \A i \in 0 .. n : ~work[t].begun /\ num[i] # 0 /\ v # 0 => num[i] < v
  BY <1>0, <1>12, <1>a
<1>14. work[t].begun => v = num[n]
  BY <1>0, <1>a
<1>15. Numbers(c, num2, at2)'
  <2>1. num2 \in [0 .. m -> {0} \cup DOMAIN sent']
    <3>1. \A i \in 0 .. m : num2[i] \in {0} \cup DOMAIN sent'
      BY <1>6, <1>10, <1>11, <1>a
    <3> QED
      BY <1>9, <3>1
  <2>2. ASSUME NEW k \in DOMAIN sent', at2[k] = Stage[c]
        PROVE  \E i \in 0 .. m : num2[i] = k
    <3>1. CASE k = v
      BY <1>5, <1>8, <1>10, <3>1
    <3>2. CASE k # v
      <4>1. PICK i \in 0 .. n : num[i] = k
        BY <1>0, <1>11, <2>2, <3>2
      <4> QED
        BY <1>7, <1>10, <4>1
    <3> QED
      BY <3>1, <3>2
  <2>3. ASSUME NEW k \in DOMAIN sent', NEW i \in 0 .. m, num2[i] = k
        PROVE  at2[k] = Stage[c]
    <3>1. CASE i \in 0 .. n
      BY <1>0, <1>10, <1>11, <1>12, <2>3, <3>1
    <3>2. CASE i \in n + 1 .. m
      BY <1>0, <1>10, <2>3, <3>2
    <3> QED
      BY <1>6, <3>1, <3>2
  <2> QED
    BY <1>0, <2>1, <2>2, <2>3 DEF Numbers
<1>16. InOrder(c, pos2, num2)'
  <2>1. ASSUME NEW i \in 0 .. m, NEW j \in 0 .. m, i < j, num2[i] # 0, num2[j] # 0
        PROVE  num2[i] <= num2[j] /\ (num2[i] = num2[j] => pos2[j] = pos2[i] + (j - i))
    <3>1. CASE i \in 0 .. n /\ j \in 0 .. n
      <4>1. num[i] <= num[j] /\ (num[i] = num[j] => pos[j] = pos[i] + (j - i))
        BY <1>0, <1>3, <1>10, <2>1, <3>1 DEF Numbered, InOrder
      <4> QED
        BY <1>4, <1>10, <3>1, <4>1
    <3>2. CASE i \in 0 .. n /\ j \in n + 1 .. m /\ ~work[t].begun
      <4>1. num2[i] < v /\ num2[j] = v /\ v \in Nat /\ num2[i] \in Nat
        BY <1>a, <1>10, <1>11, <1>12, <1>13, <2>1, <3>2
      <4> QED
        BY <4>1
    <3>3. CASE i \in 0 .. n /\ j \in n + 1 .. m /\ work[t].begun
      <4>0. \A k \in 0 .. n : num[k] \in Nat
        <5> SUFFICES ASSUME NEW k \in 0 .. n
                     PROVE  num[k] \in Nat
          OBVIOUS
        <5>1. num[k] \in {0} \cup DOMAIN sent
          BY <1>11
        <5>2. DOMAIN sent \subseteq Nat
          BY <1>11
        <5> QED
          BY <5>1, <5>2
      <4>1. num2[i] = num[i] /\ num2[j] = num[n] /\ num[i] \in Nat /\ num[n] \in Nat
        BY <1>5, <1>10, <1>14, <3>3, <4>0
      <4>2. num[i] <= num[n] /\ (num[i] = num[n] => pos[n] = pos[i] + (n - i))
        <5>1. CASE i = n
          <6>1. pos[n] \in Nat
            BY <1>3, <1>5
          <6> QED
            BY <1>1, <4>1, <5>1, <6>1
        <5>2. CASE i # n
          <6>1. i < n
            BY <1>1, <3>3, <5>2
          <6> QED
            BY <1>0, <1>3, <1>5, <2>1, <3>3, <4>1, <6>1 DEF Numbered, InOrder
        <5> QED
          BY <5>1, <5>2
      <4>3. PICK p, q : p = pos[n] /\ q = pos[i]
        OBVIOUS
      <4>4. p \in Nat /\ q \in Nat /\ pos2[i] = q /\ pos2[j] = (p + 1) + (j - n - 1)
        <5>0. p \in 1 .. L /\ q \in 1 .. L
          BY <1>3, <1>5, <3>3, <4>3
        <5>1. p \in Nat /\ q \in Nat
          BY <1>1, <5>0
        <5>2. pos2[n + 1] = p + 1 /\ pos2[i] = q
          BY <1>4, <3>3, <4>3
        <5> QED
          BY <1>4, <3>3, <5>1, <5>2
      <4>5. p = q + (n - i) => (p + 1) + (j - n - 1) = q + (j - i)
        BY <1>1, <3>3, <4>4
      <4> QED
        BY <4>1, <4>2, <4>3, <4>4, <4>5
    <3>4. CASE i \in n + 1 .. m /\ j \in n + 1 .. m
      <4>1. num2[i] = v /\ num2[j] = v /\ v \in Nat
        BY <1>10, <1>11, <1>a, <2>1, <3>4
      <4>2. PICK p : p = pos2[n + 1]
        OBVIOUS
      <4>3. p \in Nat /\ pos2[i] = p + (i - n - 1) /\ pos2[j] = p + (j - n - 1)
        <5>1. p \in 1 .. L
          BY <1>3, <1>5, <4>2
        <5>2. p \in Nat
          BY <1>1, <5>1
        <5>3. pos2[i] = p + (i - n - 1) /\ pos2[j] = p + (j - n - 1)
          BY <1>4, <3>4, <4>2
        <5> QED
          BY <5>2, <5>3
      <4>4. p + (j - n - 1) = (p + (i - n - 1)) + (j - i)
        BY <1>1, <3>4, <4>3
      <4> QED
        BY <4>1, <4>3, <4>4
    <3>5. i \in 0 .. n \/ j \in n + 1 .. m
      BY <1>1, <1>6, <2>1
    <3> QED
      BY <1>6, <3>1, <3>2, <3>3, <3>4, <3>5
  <2>2. ASSUME NEW i \in 1 .. m, pos2[i] # 1
        PROVE  num2[i] = num2[i - 1]
    <3>1. CASE i \in 1 .. n
      <4>1. i \in 0 .. n /\ i - 1 \in 0 .. n
        BY <1>1, <3>1
      <4>2. num[i] = num[i - 1]
        BY <1>0, <1>3, <1>4, <2>2, <3>1, <4>1 DEF Numbered, InOrder
      <4> QED
        BY <1>10, <4>1, <4>2
    <3>2. CASE i = n + 1
      <4>1. i - 1 = n /\ i \in n + 1 .. m
        BY <1>1, <1>5, <3>2
      <4>2. work[t].begun
        BY <1>4, <2>2, <3>2
      <4> QED
        BY <1>5, <1>10, <1>14, <4>1, <4>2
    <3>3. CASE i \in n + 2 .. m
      <4>1. i \in n + 1 .. m /\ i - 1 \in n + 1 .. m
        BY <1>1, <1>5, <3>3
      <4> QED
        BY <1>10, <4>1
    <3>4. i \in 1 .. n \/ i = n + 1 \/ i \in n + 2 .. m
      BY <1>1, <1>5
    <3> QED
      BY <3>1, <3>2, <3>3, <3>4
  <2>3. pos2[0] = L => num2[0] = 0
    BY <1>0, <1>3, <1>4, <1>5, <1>10 DEF Numbered, InOrder
  <2> QED
    BY <1>0, <2>1, <2>2, <2>3 DEF InOrder
<1>17. Tells(c, pos2, dat2, num2)'
  <2> SUFFICES ASSUME NEW i \in 0 .. m
               PROVE  IF num2[i] # 0 THEN Marked(dat2[i], sent'[num2[i]])
                      ELSE \/ Unmarked(dat2[i])
                           \/ NoneAfter(dat2[i]) /\ pos2[i] = pos2[0] + i
                           \/ i = 0 /\ pos2[0] = LengthOf(c)
    BY <1>0 DEF Tells
  <2>1. ASSUME NEW j \in 0 .. n
        PROVE  IF num[j] # 0 THEN Marked(dat[j], sent'[num[j]])
               ELSE \/ Unmarked(dat[j])
                    \/ NoneAfter(dat[j]) /\ pos[j] = pos[0] + j
                    \/ j = 0 /\ pos[0] = LengthOf(c)
    <3>1. IF num[j] # 0 THEN Marked(dat[j], sent[num[j]])
          ELSE \/ Unmarked(dat[j])
               \/ NoneAfter(dat[j]) /\ pos[j] = pos[0] + j
               \/ j = 0 /\ pos[0] = LengthOf(c)
      BY <1>0, <1>3 DEF Numbered, Tells
    <3> QED
      BY <1>12, <3>1
  <2>2. CASE i \in 0 .. n
    <3>1. num2[i] = num[i] /\ pos2[i] = pos[i] /\ dat2[i] = dat[i] /\ pos2[0] = pos[0]
      BY <1>4, <1>5, <1>10, <2>2
    <3> QED
      BY <2>1, <2>2, <3>1
  <2>3. CASE i \in n + 1 .. m /\ ~work[t].begun
    <3>1. num2[i] = v /\ dat2[i] = dat2[n + 1] /\ dat2[n + 1] \in Datas
          /\ work[t].left = LeftOf(Out[t], dat2[n + 1], 1)
      BY <1>0, <1>3, <1>4, <1>5, <1>10, <2>3
    <3>2. IF v = 0 THEN Unmarked(dat2[n + 1]) ELSE Marked(dat2[n + 1], sent'[v])
      BY <1>a, <2>3, <3>1
    <3> QED
      BY <3>1, <3>2
  <2>4. CASE i \in n + 1 .. m /\ work[t].begun
    <3>1. num2[i] = num[n] /\ dat2[i] = dat[n] /\ pos[n] # L /\ pos2[0] = pos[0]
      BY <1>4, <1>5, <1>10, <1>14, <2>4
    <3>2. CASE num[n] # 0
      BY <1>5, <2>1, <3>1, <3>2
    <3>3. CASE num[n] = 0 /\ NoneAfter(dat[n]) /\ pos[n] = pos[0] + n
      <4>1. PICK p : p = pos[0]
        OBVIOUS
      <4>2. p \in Nat /\ pos2[i] = ((p + n) + 1) + (i - n - 1)
        <5>1. p \in 1 .. L
          BY <1>3, <1>5, <4>1
        <5>2. p \in Nat
          BY <1>1, <5>1
        <5>3. pos2[n + 1] = (p + n) + 1
          BY <1>4, <2>4, <3>3, <4>1
        <5>4. pos2[i] = pos2[n + 1] + (i - n - 1)
          BY <1>4, <2>4
        <5> QED
          BY <5>2, <5>3, <5>4
      <4>3. ((p + n) + 1) + (i - n - 1) = p + i
        BY <1>1, <2>4, <4>2
      <4> QED
        BY <3>1, <3>3, <4>1, <4>2, <4>3
    <3>4. CASE num[n] = 0 /\ Unmarked(dat[n])
      BY <3>1, <3>4
    <3>5. ~(n = 0 /\ pos[0] = LengthOf(c))
      BY <1>0, <3>1
    <3> QED
      BY <1>5, <2>1, <3>2, <3>3, <3>4, <3>5
  <2> QED
    BY <1>6, <2>2, <2>3, <2>4
<1>18. CutOff(c, pos2, num2)'
  <2> SUFFICES ASSUME c = "srt_snp", num2[m] # 0, pos2[m] # L
               PROVE  IF open' THEN \E o \in {"app", "timer"} :
                                      work'[o].begun /\ work'[o].what = sent'[num2[m]]
                      ELSE sent'[num2[m]] \in excused'
    BY <1>0 DEF CutOff
  <2>1. num2[m] = v /\ v # 0 /\ t \in {"app", "timer"}
    <3>1. t \in {"app", "timer"}
      BY <1>0, Names DEF Out
    <3> QED
      BY <1>5, <1>10, <3>1
  <2>2. work'[t].begun /\ work'[t].what = work[t].what
    BY <1>4
  <2>3. work[t] # Idle
    BY DEF Send, Put, Idle
  <2>4. open /\ open' = open
    BY <2>1, <2>3 DEF SourceInv, Send
  <2>5. work[t].what = sent'[v]
    <3>1. CASE ~work[t].begun
      BY <1>a, <2>1, <3>1
    <3>2. CASE work[t].begun
      <4>1. pos[n] # L /\ num[n] # 0 /\ v = num[n]
        BY <1>4, <1>14, <2>1, <3>2
      <4>2. PICK o \in {"app", "timer"} :
              work[o].begun /\ work[o].what = sent[num[n]]
        BY <1>0, <1>3, <2>4, <4>1 DEF Numbered, CutOff
      <4>3. o \in Threads /\ Out[o] = Out[t]
        BY <1>0, Names DEF Out
      <4>4. o = t
        BY <4>2, <4>3 DEF Others
      <4> QED
        BY <1>5, <1>12, <4>1, <4>2, <4>4
    <3> QED
      BY <3>1, <3>2
  <2> QED
    BY <2>1, <2>2, <2>4, <2>5
<1>19. Reading(c, reader'[c], pos2[0], dat2[0], num2[0])
  <2>1. reader' = reader
    BY DEF Send
  <2> QED
    BY <1>3, <1>4, <1>5, <1>10, <2>1 DEF Numbered
<1>20. Numbered(c, pos2, dat2, num2, at2)'
  BY <1>3, <1>15, <1>16, <1>17, <1>18, <1>19 DEF Numbered
<1>21. Tracked(c, at2)'
  BY <1>0, <1>3, <1>20 DEF Tracked, Numbered, Numbers, Numberings
<1> QED
  BY <1>0, <1>21

----------------------------------------------------------------------------
(* The numbers with a thread that passes frames on: none, or the one of the *)
(* frame it has not yet begun to send.                                      *)
NoneAt(p, at) == \A k \in DOMAIN sent : at[k] # Stage[p]

Carries(t, at) ==
  \/ (work[t] = Idle \/ work[t].begun) /\ NoneAt(t, at)
  \/ \E data \in Datas :
       /\ work[t] = FrameFor(t, data)
       /\ \/ Unmarked(data) /\ NoneAt(t, at)
          \/ \E k \in DOMAIN sent :
               /\ at[k] = Stage[t] /\ Marked(data, sent[k])
               /\ \A j \in DOMAIN sent : at[j] = Stage[t] => j = k

(* What the other threads are about to send. *)
OfItsOwn(t) ==
  \/ work[t] = Idle \/ work[t].begun
  \/ \E x \in IF t \in {"app", "timer"} THEN Segments \ Updates
              ELSE Items \ Segments : work[t] = FrameFor(t, Bytes[x])

LastMarked ==
  last = <<>> \/ Unmarked(last) \/ \E x \in Range(sent) : Marked(last, x)

Excuses == {x \in Items : ~Clean(x)} \cup {None} \subseteq excused

AllTracked(at) ==
  /\ \A t \in Relays : Carries(t, at)
  /\ \A c \in Conns : Tracked(c, at)

TrackInv ==
  /\ Excuses
  /\ \A t \in Threads \ Relays : OfItsOwn(t)
  /\ Unmixed => LastMarked /\ \E at, kept : Counted(at, kept) /\ AllTracked(at)

LEMMA Stages ==
  /\ Relays \subseteq Threads
  /\ \A c \in Conns : Stage[c] \in 1 .. 9 /\ Stage[c] # Gone /\ Stage[c] # Returned
  /\ \A t \in Relays : /\ Stage[t] \in 1 .. 8 /\ Stage[t] # Gone
                       /\ Stage[Out[t]] = Stage[t] + 1
  /\ \A c, d \in Conns : Stage[c] = Stage[d] => c = d
  /\ \A t, o \in Relays : Stage[t] = Stage[o] => t = o
  /\ \A t \in Relays, c \in Conns : Stage[t] # Stage[c]
BY Names DEF Stage, Relays, Out, Gone, Returned

LEMMA FrameForIs ==
  ASSUME NEW t \in Threads, NEW data \in Datas
  PROVE  /\ FrameFor(t, data) # Idle /\ ~FrameFor(t, data).begun
         /\ FrameFor(t, data).what = ItemOf(data)
         /\ FrameFor(t, data).left = LeftOf(Out[t], data, 1)
<1>1. Out[t] \in Conns /\ 1 \in 1 .. LengthOf(Out[t])
  BY Names, Lengths
<1>2. LeftOf(Out[t], data, 1) # Idle.left
  BY <1>1, Lefts
<1> QED
  BY <1>2 DEF FrameFor

LEMMA MoreMonotone ==
  ASSUME TypeOK, [Next]_vars
  PROVE  /\ SentMore /\ 0 \notin DOMAIN sent'
         /\ Range(sent) \subseteq Range(sent')
         /\ excused \subseteq excused'
         /\ Unmixed' => Unmixed
         /\ Excuses => Excuses'
<1>1. /\ sent' = sent \/ \E x : sent' = Append(sent, x)
      /\ excused \subseteq excused'
  BY DEF Next, Relay, vars, Send, Receive, Middle, getsegToSend, Returns,
     getpktToSend, recvpkt, overlay_recvpkt, snp_recvseg, Enter, SrtCloses,
     waitTransport
<1>2. SentMore /\ 0 \notin DOMAIN sent'
  <2>1. CASE sent' = sent
    BY <2>1, SentIndices DEF SentMore
  <2>2. ASSUME NEW x, sent' = Append(sent, x)
        PROVE  SentMore /\ 0 \notin DOMAIN sent'
    <3>1. sent \in Seq(Segments \cup {None, x}) /\ x \in Segments \cup {None, x}
      BY SeqMonotonic DEF TypeOK
    <3>2. /\ DOMAIN sent = 1 .. Len(sent) /\ Len(sent) \in Nat
          /\ DOMAIN sent' = 1 .. Len(sent) + 1
          /\ \A i \in 1 .. Len(sent) : sent'[i] = sent[i]
      BY <3>1, <2>2, AppendProperties, LenProperties
    <3> QED
      BY <3>2 DEF SentMore
  <2> QED
    BY <1>1, <2>1, <2>2
<1>3. Range(sent) \subseteq Range(sent')
  BY <1>2 DEF SentMore, Range
<1>4. overlapped \subseteq overlapped'
  BY Monotone
<1> QED
  BY <1>1, <1>2, <1>3, <1>4 DEF Unmixed, Excuses

LEMMA CarriesKept ==
  ASSUME NEW t \in Relays, NEW at, Carries(t, at), work'[t] = work[t], SentMore,
         NEW at2, \A k \in DOMAIN sent' :
           at2[k] = Stage[t] <=> k \in DOMAIN sent /\ at[k] = Stage[t]
  PROVE  Carries(t, at2)'
<1>1. CASE NoneAt(t, at)
  <2>1. NoneAt(t, at2)'
    BY <1>1 DEF NoneAt
  <2>2. work[t] = Idle \/ work[t].begun \/ \E data \in Datas :
          work[t] = FrameFor(t, data) /\ Unmarked(data)
    BY <1>1 DEF Carries, NoneAt
  <2> QED
    BY <2>1, <2>2 DEF Carries
<1>2. CASE ~NoneAt(t, at)
  <2>1. PICK data \in Datas, k \in DOMAIN sent :
          /\ work[t] = FrameFor(t, data)
          /\ at[k] = Stage[t] /\ Marked(data, sent[k])
          /\ \A j \in DOMAIN sent : at[j] = Stage[t] => j = k
    BY <1>2 DEF Carries
  <2>2. k \in DOMAIN sent' /\ sent'[k] = sent[k] /\ at2[k] = Stage[t]
    BY <2>1 DEF SentMore
  <2>3. \A j \in DOMAIN sent' : at2[j] = Stage[t] => j = k
    BY <2>1
  <2> QED
    BY <2>1, <2>2, <2>3 DEF Carries
<1> QED
  BY <1>1, <1>2

(* A reader takes a byte: the frames on all connections.  Number a leaves   *)
(* connection c, and comes onto none.                                       *)
LEMMA TakeAll ==
  ASSUME TypeOK, [Next]_vars, StartsOnly, NEW c \in Conns, Middle(c) \/ Returns(c),
         open' = open, sent' = sent,
         NEW pos \in [0 .. Len(stream[c]) -> 1 .. LengthOf(c)],
         NEW dat \in [0 .. Len(stream[c]) -> Datas], NEW num, NEW at,
         Numbered(c, pos, dat, num, at), \A d \in Conns : Tracked(d, at),
         NEW a, a = IF After(c).state = "complete" THEN num[0] ELSE 0, NEW at2,
         \A d \in Conns, k \in DOMAIN sent :
           at2[k] = Stage[d] <=> at[k] = Stage[d] /\ (d = c => k # a)
  PROVE  \A d \in Conns : Tracked(d, at2)'
<1>1. /\ TakeByte(c)
      /\ reader'[c] = IF After(c).state = "complete" THEN Ready ELSE After(c)
      /\ \A d \in Conns \ {c} : reader'[d] = reader[d] /\ stream'[d] = stream[d]
  <2>1. TakeByte(c)
    BY DEF Middle, Returns
  <2>2. reader' = [reader EXCEPT ![c] =
          IF After(c).state = "complete" THEN Ready ELSE After(c)]
    BY DEF Middle, Returns
  <2> QED
    BY <2>1, <2>2 DEF TypeOK, TakeByte
<1>2. SentMore /\ excused \subseteq excused'
  BY MoreMonotone
<1>3. \A t \in Threads : work'[t].begun = work[t].begun
                         /\ (work[t].begun => work'[t] = work[t])
  BY StartedOnly
<1>4. Tracked(c, at2)'
  <2>1. \A k \in DOMAIN sent : at2[k] = Stage[c] <=> at[k] = Stage[c] /\ k # a
    OBVIOUS
  <2> QED
    BY <1>1, <1>2, <1>3, <2>1, TakeTracked
<1>5. ASSUME NEW d \in Conns, d # c
      PROVE  Tracked(d, at2)'
  <2>1. \A k \in DOMAIN sent' :
          at2[k] = Stage[d] <=> k \in DOMAIN sent /\ at[k] = Stage[d]
    BY <1>5
  <2>2. stream'[d] = stream[d] /\ reader'[d] = reader[d] /\ Tracked(d, at)
    BY <1>1, <1>5
  <2>3. d # "srt_snp" \/ open' =>
          /\ d # "srt_snp" \/ open
          /\ \A t \in Threads : Out[t] = d =>
               work'[t].begun = work[t].begun
               /\ (work[t].begun => work'[t] = work[t])
    BY <1>3
  <2> QED
    BY <1>2, <2>1, <2>2, <2>3, KeepTracked
<1> QED
  BY <1>4, <1>5

(* What the reader has returned is passed on. *)
LEMMA PassTracked ==
  ASSUME TypeOK, Excuses, [Next]_vars, StartsOnly, NEW c \in Conns, Returns(c),
         open' = open, sent' = sent, got' = got,
         NEW at, NEW kept, Counted(at, kept), AllTracked(at),
         NEW t \in Relays, Stage[t] = Stage[c] + 1, work[t] = Idle,
         \A o \in Relays \ {t} : work'[o] = work[o],
         NEW s \in Contents(c, After(c).buf), Data(s) \in Datas,
         \/ work'[t] = FrameFor(t, Data(s))
         \/ work'[t] = work[t] /\ ItemOf(Data(s)) \in Updates
  PROVE  /\ \E at2 : Counted(at2, kept)' /\ AllTracked(at2)'
         /\ Unmarked(Data(s)) \/ \E x \in Range(sent) : Marked(Data(s), x)
<1>1. PICK d : d = Data(s)
  OBVIOUS
<1>2. PICK pos \in [0 .. Len(stream[c]) -> 1 .. LengthOf(c)],
           dat \in [0 .. Len(stream[c]) -> Datas], num \in Numberings(c) :
        Numbered(c, pos, dat, num, at)
  BY DEF AllTracked, Tracked
<1>3. PICK a : a = num[0]
  OBVIOUS
<1>4. TakeByte(c) /\ After(c).state = "complete"
  BY DEF Returns
<1>5. Passes(d, a)
  BY <1>1, <1>2, <1>3, <1>4, ReturnPasses
<1>6. a # 0 => /\ a \in DOMAIN sent /\ at[a] = Stage[c]
               /\ \A k \in DOMAIN sent : at[k] = Stage[c] => k >= a
  BY <1>2, <1>3, FirstIsFirst DEF Numbered
<1>7. NoneAt(t, at) /\ Carries(t, at) /\ t \in Threads
  <2>1. Carries(t, at) /\ t \in Threads
    BY Stages DEF AllTracked
  <2> QED
    BY <2>1, FrameForIs DEF Carries
<1>8. /\ at \in [DOMAIN sent -> Gone .. Returned] /\ SentMore
      /\ excused \subseteq excused' /\ DOMAIN sent \subseteq Nat \ {0}
  BY MoreMonotone, SentIndices DEF Counted
<1>9. ASSUME NEW at2, Counted(at2, kept)', NEW b, b = a,
             \A e \in Conns, k \in DOMAIN sent :
               at2[k] = Stage[e] <=> at[k] = Stage[e] /\ (e = c => k # b),
             \A o \in Relays \ {t}, k \in DOMAIN sent :
               at2[k] = Stage[o] <=> at[k] = Stage[o],
             Carries(t, at2)'
      PROVE  Counted(at2, kept)' /\ AllTracked(at2)'
  <2>1. \A e \in Conns : Tracked(e, at)
    BY DEF AllTracked
  <2>2. b = IF After(c).state = "complete" THEN num[0] ELSE 0
    BY <1>3, <1>4, <1>9
  <2>2a. \A e \in Conns, k \in DOMAIN sent :
           at2[k] = Stage[e] <=> at[k] = Stage[e] /\ (e = c => k # b)
    BY <1>9
  <2>2b. Numbered(c, pos, dat, num, at) /\ (Middle(c) \/ Returns(c))
    BY <1>2
  <2>3. \A e \in Conns : Tracked(e, at2)'
    BY <2>1, <2>2, <2>2a, <2>2b, TakeAll
  <2>4. ASSUME NEW o \in Relays, o # t
        PROVE  Carries(o, at2)'
    <3>1. Carries(o, at) /\ work'[o] = work[o]
      BY <2>4 DEF AllTracked
    <3>2. \A k \in DOMAIN sent' :
            at2[k] = Stage[o] <=> k \in DOMAIN sent /\ at[k] = Stage[o]
      BY <1>9, <2>4
    <3> QED
      BY <1>8, <3>1, <3>2, CarriesKept
  <2> QED
    BY <1>9, <2>3, <2>4 DEF AllTracked
<1>10. ASSUME Unmarked(d), NEW at2, NoneAt(t, at2)'
       PROVE  Carries(t, at2)'
  <2>1. CASE work'[t] = FrameFor(t, d)
    BY <1>1, <1>10, <2>1 DEF Carries
  <2>2. CASE work'[t] = work[t]
    BY <1>10, <2>2 DEF Carries
  <2> QED
    BY <1>1, <2>1, <2>2
<1>11. CASE a = 0
  <2>1. Unmarked(d)
    BY <1>5, <1>11 DEF Passes
  <2>2. NoneAt(t, at)'
    BY <1>7 DEF NoneAt
  <2>3. Carries(t, at)'
    BY <1>10, <2>1, <2>2
  <2>4. Counted(at, kept)'
    BY <1>8, CountedKept
  <2>5. \A e \in Conns, k \in DOMAIN sent :
          at[k] = Stage[e] <=> at[k] = Stage[e] /\ (e = c => k # a)
    BY <1>8, <1>11
  <2>6. AllTracked(at)'
    BY <1>9, <2>3, <2>4, <2>5
  <2> QED
    BY <1>1, <2>1, <2>4, <2>6
<1>12. CASE a # 0 /\ Unmarked(d) /\ ~Clean(sent[a])
  <2>1. PICK at2 : at2 = [at EXCEPT ![a] = Gone]
    OBVIOUS
  <2>2. a \in DOMAIN sent /\ at[a] = Stage[c] /\ Stage[c] # Returned
        /\ Stage[c] # Gone /\ Stage[t] # Gone
    BY <1>6, <1>12, Stages DEF Gone
  <2>3. sent[a] \in excused'
    <3>1. sent[a] \in Segments \cup {None}
      BY <2>2, SentIndices
    <3> QED
      BY <1>8, <1>12, <3>1 DEF Excuses, Items
  <2>4. Counted(at2, kept)'
    BY <1>8, <2>1, <2>2, <2>3, CountedGone
  <2>5. at2[a] = Gone /\ \A k \in DOMAIN sent \ {a} : at2[k] = at[k]
    BY <1>8, <2>1, <2>2
  <2>6. \A e \in Conns, k \in DOMAIN sent :
          at2[k] = Stage[e] <=> at[k] = Stage[e] /\ (e = c => k # a)
    BY <2>2, <2>5, Stages
  <2>7. \A o \in Relays, k \in DOMAIN sent : at2[k] = Stage[o] <=> at[k] = Stage[o]
    <3>1. \A o \in Relays : Stage[o] # Gone /\ Stage[o] # Stage[c]
      BY Stages
    <3> QED
      BY <2>2, <2>5, <3>1
  <2>8. NoneAt(t, at2)'
    BY <1>7, <2>7 DEF NoneAt
  <2>9. Carries(t, at2)'
    BY <1>10, <1>12, <2>8
  <2>10. AllTracked(at2)'
    BY <1>9, <2>4, <2>6, <2>7, <2>9
  <2> QED
    BY <1>1, <1>12, <2>4, <2>10
<1>13. CASE a # 0 /\ Marked(d, sent[a])
  <2>1. PICK at2 : at2 = [at EXCEPT ![a] = at[a] + 1]
    OBVIOUS
  <2>2. a \in DOMAIN sent /\ at[a] = Stage[c] /\ at[a] + 1 = Stage[t]
        /\ at[a] \in 1 .. 8
    <3>1. Stage[c] \in 1 .. 9 /\ Stage[t] \in 1 .. 8
      BY Stages
    <3> QED
      BY <1>6, <1>13, <3>1
  <2>3. Counted(at2, kept)'
    <3>1. \A j \in DOMAIN sent : at[j] = at[a] => j >= a
      BY <1>6, <1>13, <2>2
    <3> QED
      BY <1>8, <2>1, <2>2, <3>1, CountedNext
  <2>4. at2[a] = Stage[t] /\ \A k \in DOMAIN sent \ {a} : at2[k] = at[k]
    BY <1>8, <2>1, <2>2
  <2>5. \A e \in Conns, k \in DOMAIN sent :
          at2[k] = Stage[e] <=> at[k] = Stage[e] /\ (e = c => k # a)
    BY <2>2, <2>4, Stages
  <2>6. \A o \in Relays \ {t}, k \in DOMAIN sent :
          at2[k] = Stage[o] <=> at[k] = Stage[o]
    BY <2>2, <2>4, Stages
  <2>7. \A k \in DOMAIN sent : at2[k] = Stage[t] => k = a
    BY <1>7, <2>4 DEF NoneAt
  <2>8. work'[t] = FrameFor(t, d)
    <3>1. ItemOf(d) \notin Updates
      <4>1. ItemOf(d) \in {sent[a], None} /\ sent[a] \notin Updates
        BY <1>13, ItemOfMarked
      <4>2. None \notin Updates
        BY DataPathAssumption DEF Items
      <4> QED
        BY <4>1, <4>2
    <3> QED
      BY <1>1, <3>1
  <2>9. Carries(t, at2)'
    <3>1. sent' = sent /\ d \in Datas
      BY <1>1
    <3> QED
      BY <1>13, <2>2, <2>4, <2>7, <2>8, <3>1 DEF Carries
  <2>10. AllTracked(at2)'
    BY <1>9, <2>3, <2>5, <2>6, <2>9
  <2>11. sent[a] \in Range(sent)
    BY <2>2 DEF Range
  <2> QED
    BY <1>1, <1>13, <2>3, <2>10, <2>11
<1>14. QED
  BY <1>5, <1>11, <1>12, <1>13 DEF Passes

(* What the reader of the last connection has returned is kept or dropped. *)
LEMMA DeliverTracked ==
  ASSUME TypeOK, Excuses, snp_recvseg, NEW at, NEW kept, Counted(at, kept),
         AllTracked(at)
  PROVE  \E at2, kept2 : Counted(at2, kept2)' /\ AllTracked(at2)'
<1>0. PICK c : c = "snp_srt"
  OBVIOUS
<1>1. /\ c \in Conns /\ Stage[c] = 9 /\ [Next]_vars /\ Returns(c)
      /\ TakeByte(c) /\ After(c).state = "complete"
      /\ open' = open /\ sent' = sent /\ work' = work /\ StartsOnly
  BY <1>0, Names DEF Next, Relay, snp_recvseg, Returns, Stage, StartsOnly
<1>2. PICK s \in Contents(c, After(c).buf) :
        \/ /\ ItemOf(Data(s)) \in Segments
           /\ got' = Append(got, ItemOf(Data(s)))
        \/ /\ got' = got
           /\ excused' = excused \cup {ItemOf(Data(s))}
  BY <1>0 DEF snp_recvseg
<1>3. PICK d, x : d = Data(s) /\ x = ItemOf(d)
  OBVIOUS
<1>4. PICK pos \in [0 .. Len(stream[c]) -> 1 .. LengthOf(c)],
           dat \in [0 .. Len(stream[c]) -> Datas], num \in Numberings(c) :
        Numbered(c, pos, dat, num, at)
  BY <1>1 DEF AllTracked, Tracked
<1>5. PICK a : a = num[0]
  OBVIOUS
<1>6. Passes(d, a)
  BY <1>1, <1>3, <1>4, <1>5, ReturnPasses
<1>7. a # 0 => /\ a \in DOMAIN sent /\ at[a] = 9
               /\ \A k \in DOMAIN sent : at[k] = 9 => k >= a
  BY <1>1, <1>4, <1>5, FirstIsFirst DEF Numbered
<1>8. /\ at \in [DOMAIN sent -> Gone .. Returned] /\ SentMore
      /\ excused \subseteq excused' /\ DOMAIN sent \subseteq Nat \ {0}
  BY <1>1, MoreMonotone, SentIndices DEF Counted
<1>9. ASSUME NEW at2, NEW kept2, Counted(at2, kept2)',
             \A k \in DOMAIN sent : k # a => at2[k] = at[k],
             a # 0 => at2[a] \in {Gone, Returned}
      PROVE  AllTracked(at2)'
  <2>1. \A e \in Conns : Tracked(e, at)
    BY DEF AllTracked
  <2>2. a = IF After(c).state = "complete" THEN num[0] ELSE 0
    BY <1>1, <1>5
  <2>3. \A e \in Conns, k \in DOMAIN sent :
          at2[k] = Stage[e] <=> at[k] = Stage[e] /\ (e = c => k # a)
    <3> SUFFICES ASSUME NEW e \in Conns, NEW k \in DOMAIN sent
                 PROVE  at2[k] = Stage[e] <=> at[k] = Stage[e] /\ (e = c => k # a)
      OBVIOUS
    <3>1. CASE k # a
      BY <1>9, <3>1
    <3>2. CASE k = a
      <4>1. a # 0
        BY <1>8, <3>2
      <4>2. at2[k] # Stage[e]
        BY <1>9, <3>2, <4>1, Stages
      <4>3. e # c => at[k] # Stage[e]
        BY <1>1, <1>7, <3>2, <4>1, Stages
      <4> QED
        BY <3>2, <4>2, <4>3
    <3> QED
      BY <3>1, <3>2
  <2>4. Numbered(c, pos, dat, num, at) /\ (Middle(c) \/ Returns(c))
    BY <1>1, <1>4
  <2>5. \A e \in Conns : Tracked(e, at2)'
    BY <1>1, <2>1, <2>2, <2>3, <2>4, TakeAll, SMTT(40)
  <2>6. ASSUME NEW o \in Relays
        PROVE  Carries(o, at2)'
    <3>1. Carries(o, at) /\ work'[o] = work[o]
      BY <1>1 DEF AllTracked
    <3>2. Stage[o] # Gone /\ Stage[o] # Returned /\ Stage[o] # 9
      <4>1. Stage[o] \in 1 .. 8
        BY Stages
      <4> QED
        BY <4>1 DEF Gone, Returned
    <3>3. \A k \in DOMAIN sent' :
            at2[k] = Stage[o] <=> k \in DOMAIN sent /\ at[k] = Stage[o]
      BY <1>1, <1>7, <1>8, <1>9, <3>2
    <3> QED
      BY <1>8, <3>1, <3>3, CarriesKept
  <2> QED
    BY <2>5, <2>6 DEF AllTracked
<1>10. CASE a = 0
  <2>1. got' = got
    BY <1>2, <1>3, <1>6, <1>10, ItemOfMarked DEF Passes
  <2>2. Counted(at, kept)'
    BY <1>1, <1>8, <2>1, CountedKept
  <2>3. AllTracked(at)'
    BY <1>9, <1>10, <2>2
  <2> QED
    BY <2>2, <2>3
<1>11. ASSUME a # 0, got' = got, sent[a] \in excused'
       PROVE  \E at2, kept2 : Counted(at2, kept2)' /\ AllTracked(at2)'
  <2>1. PICK at2 : at2 = [at EXCEPT ![a] = Gone]
    OBVIOUS
  <2>2. a \in DOMAIN sent /\ at[a] # Returned
    BY <1>7, <1>11 DEF Returned
  <2>3. Counted(at2, kept)'
    BY <1>1, <1>8, <1>11, <2>1, <2>2, CountedGone
  <2>4. at2[a] = Gone /\ \A k \in DOMAIN sent : k # a => at2[k] = at[k]
    BY <1>8, <2>1, <2>2
  <2>5. AllTracked(at2)'
    BY <1>9, <2>3, <2>4
  <2> QED
    BY <2>3, <2>5
<1>12. CASE a # 0 /\ Unmarked(d) /\ ~Clean(sent[a])
  <2>1. got' = got
    BY <1>2, <1>3, <1>12, ItemOfMarked
  <2>2. sent[a] \in Segments \cup {None}
    BY <1>7, <1>12, SentIndices
  <2>3. sent[a] \in excused'
    BY <1>8, <1>12, <2>2 DEF Excuses, Items
  <2> QED
    BY <1>11, <1>12, <2>1, <2>3
<1>13. CASE a # 0 /\ Marked(d, sent[a])
  <2>1. /\ x \in {sent[a], None} /\ sent[a] \in Segments
        /\ Clean(sent[a]) => x = sent[a]
    BY <1>3, <1>13, ItemOfMarked
  <2>2. CASE got' = got /\ excused' = excused \cup {x}
    <3>1. sent[a] \in excused'
      BY <1>8, <2>1, <2>2 DEF Excuses, Items
    <3> QED
      BY <1>11, <1>13, <2>2, <3>1
  <2>3. CASE x \in Segments /\ got' = Append(got, x)
    <3>1. x = sent[a]
      <4>1. None \notin Segments
        BY DataPathAssumption DEF Items
      <4> QED
        BY <2>1, <2>3, <4>1
    <3>2. a \in DOMAIN sent /\ at[a] = 9 /\ \A k \in DOMAIN sent : at[k] = 9 => k >= a
      BY <1>7, <1>13
    <3>3. PICK kept2 : Counted([at EXCEPT ![a] = Returned], kept2)'
      BY <1>1, <1>8, <2>1, <2>3, <3>1, <3>2, CountedReturned
    <3>4. PICK at2 : at2 = [at EXCEPT ![a] = Returned]
      OBVIOUS
    <3>5. Counted(at2, kept2)'
      BY <3>3, <3>4
    <3>6. at2[a] = Returned /\ \A k \in DOMAIN sent : k # a => at2[k] = at[k]
      BY <1>8, <3>2, <3>4
    <3>7. AllTracked(at2)'
      BY <1>9, <3>5, <3>6
    <3> QED
      BY <3>5, <3>7
  <2> QED
    BY <1>2, <1>3, <2>2, <2>3
<1> QED
  BY <1>6, <1>10, <1>12, <1>13 DEF Passes

(* A connection that is new. *)
Unused ==
  \A c \in Conns : \A at :
    /\ TypeOK /\ stream[c] = <<>> /\ reader[c] = Ready /\ NoneAt(c, at)
    /\ \A t \in Threads : Out[t] = c => ~work[t].begun
    => Tracked(c, at)

LEMMA UnusedTracked == Unused
<1> SUFFICES ASSUME NEW c \in Conns, NEW at, TypeOK, stream[c] = <<>>,
                    reader[c] = Ready, NoneAt(c, at),
                    \A t \in Threads : Out[t] = c => ~work[t].begun
             PROVE  Tracked(c, at)
  BY DEF Unused
<1>1. PICK v : v \in Char
  BY Chars
<1>2. PICK L : L = LengthOf(c)
  OBVIOUS
<1>3. L \in Nat /\ L >= 5 /\ Len(stream[c]) = 0
  BY <1>2, Lengths
<1>4. PICK pos : pos = [i \in 0 .. 0 |-> L]
  OBVIOUS
<1>5. PICK dat : dat = [i \in 0 .. 0 |-> [k \in 1 .. SegSize |-> v]]
  OBVIOUS
<1>6. PICK num : num = [i \in 0 .. 0 |-> 0]
  OBVIOUS
<1>7. /\ pos \in [0 .. 0 -> 1 .. L] /\ dat \in [0 .. 0 -> Datas]
      /\ pos[0] = L /\ num[0] = 0 /\ \A i \in 0 .. 0 : pos[i] = L
  BY <1>1, <1>3, <1>4, <1>5, <1>6 DEF Datas
<1>8. Framed(c, pos, dat)
  BY <1>3 DEF Framed
<1>9. /\ Ready.state = "PKTSTART1" /\ Ready.buf = <<>> /\ Len(<<>>) = 0
      /\ <<>> \in Seq(Char)
  BY DEF Ready
<1>10. Reads(c, reader[c], pos[0], dat[0])
  <2>1. L # 1 /\ L # L - 1 /\ L \notin 2 .. L - 1 /\ ~(L <= 2) /\ L - 2 >= 0
    BY <1>3
  <2> QED
    BY <1>2, <1>7, <1>9, <2>1 DEF Reads
<1>11. Writes(c, pos[0], dat[0])
  BY <1>2, <1>7 DEF Writes
<1>12. FrameState(c, pos, dat)
  BY <1>2, <1>3, <1>7, <1>8, <1>10, <1>11 DEF FrameState
<1>13. Numbers(c, num, at)
  <2>1. 0 \notin DOMAIN sent
    BY SentIndices
  <2>2. \A i \in 0 .. 0 : num[i] = 0
    BY <1>7
  <2>3. num \in [0 .. 0 -> {0} \cup DOMAIN sent]
    BY <1>6
  <2> QED
    BY <1>3, <2>1, <2>2, <2>3 DEF Numbers, NoneAt
<1>14. InOrder(c, pos, num) /\ Tells(c, pos, dat, num)
  <2>1. \A i, j \in 0 .. 0 : ~(i < j)
    OBVIOUS
  <2>2. InOrder(c, pos, num)
    BY <1>3, <1>7, <2>1 DEF InOrder
  <2>3. Tells(c, pos, dat, num)
    <3>1. \A i \in 0 .. 0 : i = 0 /\ num[i] = 0
      BY <1>7
    <3> QED
      BY <1>2, <1>3, <1>7, <3>1 DEF Tells
  <2> QED
    BY <2>2, <2>3
<1>15. CutOff(c, pos, num)
  BY <1>2, <1>3, <1>7 DEF CutOff
<1>16. Reading(c, reader[c], pos[0], dat[0], num[0])
  BY <1>3, <1>7, <1>9 DEF Reading
<1>17. Numbered(c, pos, dat, num, at)
  BY <1>12, <1>13, <1>14, <1>15, <1>16 DEF Numbered
<1> QED
  BY <1>2, <1>3, <1>7, <1>17 DEF Tracked, Numbered, Numbers, Numberings

LEMMA UnusedNext == Unused'
BY UnusedTracked, PTL

LEMMA TrackInit == Init => TrackInv
<1> SUFFICES ASSUME Init
             PROVE  TrackInv
  OBVIOUS
<1>1. TypeOK /\ sent = <<>> /\ got = <<>> /\ DOMAIN sent = {} /\ DOMAIN got = {}
  BY InitInv DEF Init, DataPathInv
<1>2. \A t \in Threads : work[t] = Idle /\ ~work[t].begun
  BY DEF Init, Idle
<1>3. Excuses /\ LastMarked /\ \A t \in Threads : OfItsOwn(t)
  BY <1>2 DEF Init, Excuses, LastMarked, OfItsOwn
<1>4. PICK at : at = [k \in {} |-> 0]
  OBVIOUS
<1>5. Counted(at, at)
  BY <1>1, <1>4 DEF Counted
<1>6. \A t : NoneAt(t, at)
  BY <1>1 DEF NoneAt
<1>7. \A t \in Relays : Carries(t, at)
  BY <1>2, <1>6, Stages DEF Carries
<1>8. ASSUME NEW c \in Conns
      PROVE  Tracked(c, at)
  <2>1. stream[c] = <<>> /\ reader[c] = Ready
    BY DEF Init
  <2> QED
    BY <1>1, <1>2, <1>6, <2>1, UnusedTracked DEF Unused
<1> QED
  BY <1>3, <1>5, <1>7, <1>8 DEF TrackInv, AllTracked

----------------------------------------------------------------------------
(* The numbers after a step *)

(* What a thread that has begun a frame or ends one is doing afterwards. *)
LEMMA SendWork ==
  ASSUME TypeOK, NEW t \in Threads, Send(t)
  PROVE  /\ work'[t] = Idle \/ work'[t].begun
         /\ \A o \in Threads \ {t} : work'[o] = work[o]
<1>1. work \in [Threads -> Jobs]
  BY DEF TypeOK
<1>2. PICK all, left2, more :
        work' = [work EXCEPT ![t] =
          IF all /\ more = <<>> THEN Idle
          ELSE [@ EXCEPT !.begun = TRUE, !.left = left2]]
  BY DEF Send, Put
<1> QED
  BY <1>1, <1>2 DEF Jobs

(* What threads that send of themselves are about to send is their own. *)
LEMMA OwnStep ==
  ASSUME TypeOK, [Next]_vars, NEW t \in Threads \ Relays, OfItsOwn(t)
  PROVE  OfItsOwn(t)'
<1>0. SUFFICES ASSUME work'[t] # work[t], work'[t] # Idle, ~work'[t].begun
               PROVE  OfItsOwn(t)'
  BY DEF OfItsOwn
<1>1. ASSUME NEW o \in Threads, Send(o)
      PROVE  FALSE
  BY <1>0, <1>1, SendWork
<1>2. ASSUME NEW o \in Relays, NEW calls, Give(o, calls)
      PROVE  FALSE
  BY <1>0, <1>2 DEF Give, TypeOK
<1>3. CASE Relay
  <2>1. getsegToSend => \E calls : Give("waitTransport", calls)
    BY DEF getsegToSend
  <2>2. getpktToSend => \E calls : Give("waitNetwork", calls)
    BY DEF getpktToSend
  <2>3. recvpkt => \E calls : Give("listener", calls)
    BY DEF recvpkt
  <2>4. overlay_recvpkt => work' = work \/ \E calls : Give("pkthandler", calls)
    BY DEF overlay_recvpkt
  <2>5. (\E c \in Conns : Receive(c)) \/ snp_recvseg => work' = work
    BY DEF Receive, snp_recvseg
  <2> QED
    BY <1>0, <1>1, <1>2, <1>3, <2>1, <2>2, <2>3, <2>4, <2>5 DEF Relay, Relays
<1>4. ASSUME NEW o \in Threads, NEW x \in Items, Enter(o, x)
      PROVE  OfItsOwn(t)'
  <2>1. Bytes[x] \in Datas
    BY BytesAreData
  <2>2. Give(o, FrameFor(o, Bytes[x]))
    BY <1>4, <2>1, GivenFrames DEF Enter
  <2>3. o = t /\ work'[t] = FrameFor(t, Bytes[x])
    BY <1>0, <2>2 DEF Give, TypeOK
  <2>4. x \in IF t \in {"app", "timer"} THEN Segments \ Updates ELSE Items \ Segments
    <3>1. t \in Senders[x]
      BY <1>4, <2>3 DEF Enter
    <3>2. /\ x \in Segments => Senders[x] \subseteq {"app", "timer"}
          /\ x \in Updates => Senders[x] \subseteq {"routeupdate_daemon", "otherListener"}
      BY DataPathAssumption
    <3> QED
      BY <3>1, <3>2 DEF Items
  <2> QED
    BY <2>3, <2>4 DEF OfItsOwn
<1>5. CASE SrtCloses
  BY <1>0, <1>5 DEF SrtCloses, TypeOK
<1>6. CASE waitTransport
  <2>1. \E calls : Give("waitTransport", calls)
    BY <1>6 DEF waitTransport
  <2> QED
    BY <1>2, <2>1 DEF Relays
<1>7. CASE UNCHANGED vars
  BY <1>0, <1>7 DEF vars
<1> QED
  BY <1>3, <1>4, <1>5, <1>6, <1>7 DEF Next

(* A thread sends: the frames on all connections, and those with the relays. *)
LEMMA SendAll ==
  ASSUME TypeOK, SourceInv, JobInv, NEW t \in Threads, Send(t), Others(t) = {},
         NEW pos \in [0 .. Len(stream[Out[t]]) -> 1 .. LengthOf(Out[t])],
         NEW dat \in [0 .. Len(stream[Out[t]]) -> Datas], NEW num, NEW at,
         Numbered(Out[t], pos, dat, num, at), AllTracked(at),
         NEW v, Begins(t, num, at, v), NEW at2,
         \A c \in Conns, k \in DOMAIN sent' : at2[k] = Stage[c] <=>
           (k \in DOMAIN sent /\ at[k] = Stage[c]) \/ (c = Out[t] /\ k = v),
         \A o \in Relays \ {t}, k \in DOMAIN sent' :
           at2[k] = Stage[o] <=> k \in DOMAIN sent /\ at[k] = Stage[o],
         t \in Relays => NoneAt(t, at2)'
  PROVE  AllTracked(at2)'
<1>1. [Next]_vars /\ Out[t] \in Conns
  BY Names DEF Next, Relay
<1>2. SentMore /\ 0 \notin DOMAIN sent' /\ excused \subseteq excused'
  BY <1>1, MoreMonotone
<1>3. /\ \A c \in Conns \ {Out[t]} : stream'[c] = stream[c]
      /\ reader' = reader /\ open' = open
      /\ \A o \in Threads \ {t} : work'[o] = work[o]
      /\ work'[t] = Idle \/ work'[t].begun
  BY <1>1, SendWork DEF Send, Put, TypeOK
<1>4. Tracked(Out[t], at2)'
  <2>1. \A k \in DOMAIN sent' : at2[k] = Stage[Out[t]] <=>
          (k \in DOMAIN sent /\ at[k] = Stage[Out[t]]) \/ k = v
    BY <1>1
  <2> QED
    BY <1>2, <2>1, SendTracked
<1>5. ASSUME NEW c \in Conns, c # Out[t]
      PROVE  Tracked(c, at2)'
  <2>1. Tracked(c, at) /\ stream'[c] = stream[c] /\ reader'[c] = reader[c]
    BY <1>3, <1>5 DEF AllTracked
  <2>2. \A k \in DOMAIN sent' :
          at2[k] = Stage[c] <=> k \in DOMAIN sent /\ at[k] = Stage[c]
    BY <1>5
  <2>3. c # "srt_snp" \/ open' =>
          /\ c # "srt_snp" \/ open
          /\ \A o \in Threads : Out[o] = c =>
               work'[o].begun = work[o].begun
               /\ (work[o].begun => work'[o] = work[o])
    BY <1>3, <1>5
  <2>4. c = "srt_snp" /\ open /\ ~open' =>
          {work["app"].what, work["timer"].what} \subseteq excused'
    BY <1>3
  <2> QED
    BY <1>1, <1>2, <2>1, <2>2, <2>3, <2>4, KeepTracked
<1>6. ASSUME NEW o \in Relays
      PROVE  Carries(o, at2)'
  <2>1. CASE o = t
    BY <1>3, <2>1 DEF Carries
  <2>2. CASE o # t
    <3>1. Carries(o, at) /\ work'[o] = work[o]
      BY <1>3, <2>2, Stages DEF AllTracked
    <3>2. \A k \in DOMAIN sent' :
            at2[k] = Stage[o] <=> k \in DOMAIN sent /\ at[k] = Stage[o]
      BY <2>2
    <3> QED
      BY <1>2, <3>1, <3>2, CarriesKept
  <2> QED
    BY <2>1, <2>2
<1> QED
  BY <1>4, <1>5, <1>6 DEF AllTracked

(* The number of what a thread begins to send: the next, if it is from the  *)
(* SRT process; the one it has been given, if it passes a frame on.         *)
LEMMA SendTrack ==
  ASSUME DataPathInv, TrackInv, NEW t \in Threads, Send(t), Unmixed'
  PROVE  LastMarked' /\ \E at2, kept : Counted(at2, kept)' /\ AllTracked(at2)'
<1>0. /\ TypeOK /\ SourceInv /\ JobInv /\ [Next]_vars /\ Unmixed
      /\ \A o \in Threads \ Relays : OfItsOwn(o)
  BY MoreMonotone DEF DataPathInv, Next, Relay, TrackInv
<1>1. PICK at, kept : Counted(at, kept) /\ AllTracked(at)
  BY <1>0 DEF TrackInv
<1>2. PICK c : c = Out[t]
  OBVIOUS
<1>3. /\ c \in Conns /\ Others(t) = {} /\ excused' = excused /\ got' = got
      /\ work[t] # Idle /\ LastMarked'
      /\ sent' = IF t \in {"app", "timer"} /\ ~work[t].begun
                   THEN Append(sent, work[t].what) ELSE sent
  <2>1. c \in Conns
    BY <1>2, Names
  <2>2. Others(t) = {} /\ excused' = excused
    BY DEF Send, Unmixed
  <2>3. LastMarked'
    BY <1>0, MoreMonotone DEF TrackInv, LastMarked, Send
  <2> QED
    BY <2>1, <2>2, <2>3 DEF Send, Put, Idle
<1>4. PICK pos \in [0 .. Len(stream[c]) -> 1 .. LengthOf(c)],
           dat \in [0 .. Len(stream[c]) -> Datas], num \in Numberings(c) :
        Numbered(c, pos, dat, num, at)
  BY <1>1, <1>3 DEF AllTracked, Tracked
<1>5. /\ SentMore /\ excused \subseteq excused' /\ DOMAIN sent \subseteq Nat \ {0}
      /\ at \in [DOMAIN sent -> Gone .. Returned]
  BY <1>0, <1>1, MoreMonotone, SentIndices DEF Counted
<1>6. ASSUME NEW v \in {0} \cup DOMAIN sent', NEW at2, Counted(at2, kept)',
             work[t].begun => v = num[Len(stream[c])],
             ~work[t].begun =>
               /\ \A data \in Datas : work[t].left = LeftOf(c, data, 1) =>
                    IF v = 0 THEN Unmarked(data) ELSE Marked(data, sent'[v])
               /\ v # 0 => \A k \in DOMAIN sent : at[k] = Stage[c] => k < v
               /\ t \in {"app", "timer"} => v # 0 /\ sent'[v] = work[t].what,
             \A d \in Conns, k \in DOMAIN sent' : at2[k] = Stage[d] <=>
               (k \in DOMAIN sent /\ at[k] = Stage[d]) \/ (d = c /\ k = v),
             \A o \in Relays \ {t}, k \in DOMAIN sent' :
               at2[k] = Stage[o] <=> k \in DOMAIN sent /\ at[k] = Stage[o],
             t \in Relays => NoneAt(t, at2)'
      PROVE  Counted(at2, kept)' /\ AllTracked(at2)'
  <2>1. Begins(t, num, at, v)
    BY <1>2, <1>6 DEF Begins
  <2>2. \A d \in Conns, k \in DOMAIN sent' : at2[k] = Stage[d] <=>
          (k \in DOMAIN sent /\ at[k] = Stage[d]) \/ (d = Out[t] /\ k = v)
    BY <1>2, <1>6
  <2>3. \A o \in Relays \ {t}, k \in DOMAIN sent' :
          at2[k] = Stage[o] <=> k \in DOMAIN sent /\ at[k] = Stage[o]
    BY <1>6
  <2>4. /\ Numbered(Out[t], pos, dat, num, at)
        /\ pos \in [0 .. Len(stream[Out[t]]) -> 1 .. LengthOf(Out[t])]
        /\ dat \in [0 .. Len(stream[Out[t]]) -> Datas]
    BY <1>2, <1>4
  <2>5. AllTracked(at2)'
    BY <1>0, <1>1, <1>3, <1>6, <2>1, <2>2, <2>3, <2>4, SendAll, SMTT(40)
  <2> QED
    BY <1>6, <2>5
<1>7. t \in Relays => Carries(t, at)
  BY <1>1 DEF AllTracked
<1>8. CASE work[t].begun
  <2>1. sent' = sent /\ Counted(at, kept)'
    <3>1. sent' = sent
      BY <1>3, <1>8
    <3> QED
      BY <1>1, <1>3, <1>5, <3>1, CountedKept
  <2>2. PICK n, v : n = Len(stream[c]) /\ v = num[n]
    OBVIOUS
  <2>3. v \in {0} \cup DOMAIN sent /\ (v # 0 => at[v] = Stage[c])
    <3>1. n \in Nat /\ n \in 0 .. n
      BY <1>0, <1>3, <2>2, LenProperties DEF TypeOK
    <3> QED
      BY <1>4, <2>2, <3>1 DEF Numbered, Numbers
  <2>4. NoneAt(t, at)' \/ t \notin Relays
    <3>1. \A data \in Datas : work[t] # FrameFor(t, data)
      BY <1>8, FrameForIs
    <3> QED
      BY <1>7, <2>1, <3>1 DEF Carries, NoneAt
  <2>5. \A d \in Conns, k \in DOMAIN sent' : at[k] = Stage[d] <=>
          (k \in DOMAIN sent /\ at[k] = Stage[d]) \/ (d = c /\ k = v)
    <3>1. \A k \in DOMAIN sent : k = v => at[k] = Stage[c]
      BY <1>5, <2>3
    <3> QED
      BY <2>1, <3>1
  <2>6. AllTracked(at)'
    BY <1>6, <1>8, <2>1, <2>2, <2>3, <2>4, <2>5
  <2> QED
    BY <1>3, <2>1, <2>6
<1>9. CASE ~work[t].begun /\ t \in {"app", "timer"}
  <2>1. t \notin Relays /\ Stage[c] = 1
    BY <1>2, <1>9 DEF Relays, Stage, Out
  <2>2. PICK x \in Segments \ Updates : work[t] = FrameFor(t, Bytes[x])
    BY <1>0, <1>3, <1>9, <2>1 DEF OfItsOwn
  <2>3. /\ Bytes[x] \in Datas /\ Marked(Bytes[x], x) /\ work[t].what = x
        /\ work[t].left = LeftOf(c, Bytes[x], 1)
    <3>1. x \in Items
      BY DEF Items
    <3> QED
      BY <1>2, <2>2, <3>1, BytesAreData, ItemMarks, ItemOfBytes, FrameForIs
  <2>4. PICK n : n = Len(sent)
    OBVIOUS
  <2>5. n \in Nat /\ DOMAIN sent = 1 .. n /\ DOMAIN sent' = 1 .. n + 1
        /\ sent' = Append(sent, x) /\ sent'[n + 1] = x
    <3>1. sent \in Seq(Segments \cup {None}) /\ sent' = Append(sent, x)
      BY <1>0, <1>3, <1>9, <2>3 DEF TypeOK
    <3>2. /\ sent' \in Seq(Segments \cup {None}) /\ Len(sent') = n + 1
          /\ sent'[n + 1] = x
      BY <2>4, <3>1, AppendProperties
    <3> QED
      BY <2>4, <3>1, <3>2, LenProperties
  <2>6. PICK at2 : at2 = [k \in 1 .. n + 1 |-> IF k = n + 1 THEN 1 ELSE at[k]]
    OBVIOUS
  <2>7. Counted(at2, kept)'
    <3>1. \A j \in DOMAIN sent : at[j] # Gone => at[j] >= 1
      BY <1>5 DEF Gone, Returned
    <3>2. x \in Segments \cup {None} /\ 1 \in {Gone, 1, 2} /\ 1 # Gone
      BY DEF Gone
    <3> QED
      BY <1>0, <1>1, <1>3, <1>5, <2>4, <2>5, <2>6, <3>1, <3>2, CountedAnother
  <2>8. n + 1 \in {0} \cup DOMAIN sent' /\ n + 1 # 0
        /\ \A k \in DOMAIN sent : k < n + 1
    BY <2>5
  <2>9. at2[n + 1] = 1 /\ \A k \in DOMAIN sent : at2[k] = at[k]
    BY <2>5, <2>6
  <2>10. \A k \in DOMAIN sent' : k \in DOMAIN sent <=> k # n + 1
    BY <2>5
  <2>11. \A d \in Conns, k \in DOMAIN sent' : at2[k] = Stage[d] <=>
           (k \in DOMAIN sent /\ at[k] = Stage[d]) \/ (d = c /\ k = n + 1)
    BY <1>3, <2>1, <2>9, <2>10, Stages
  <2>12. \A o \in Relays \ {t}, k \in DOMAIN sent' :
           at2[k] = Stage[o] <=> k \in DOMAIN sent /\ at[k] = Stage[o]
    BY <1>3, <2>1, <2>9, <2>10, Stages
  <2>13. \A data \in Datas : work[t].left = LeftOf(c, data, 1) =>
           Marked(data, sent'[n + 1])
    BY <1>3, <2>3, <2>5, LeftIs
  <2>14. AllTracked(at2)'
    BY <1>6, <1>9, <2>1, <2>3, <2>5, <2>7, <2>8, <2>11, <2>12, <2>13
  <2> QED
    BY <1>3, <2>7, <2>14
<1>10. ASSUME ~work[t].begun, t \notin {"app", "timer"}, NEW data \in Datas,
              work[t] = FrameFor(t, data), Unmarked(data),
              t \in Relays => NoneAt(t, at)
       PROVE  Counted(at, kept)' /\ AllTracked(at)'
  <2>1. sent' = sent
    BY <1>3, <1>10
  <2>2. Counted(at, kept)'
    BY <1>1, <1>3, <1>5, <2>1, CountedKept
  <2>3. \A d \in Datas : work[t].left = LeftOf(c, d, 1) => Unmarked(d)
    BY <1>2, <1>3, <1>10, LeftIs, FrameForIs
  <2>4. t \in Relays => NoneAt(t, at)'
    BY <1>10, <2>1 DEF NoneAt
  <2>5. \A d \in Conns, k \in DOMAIN sent' : at[k] = Stage[d] <=>
          (k \in DOMAIN sent /\ at[k] = Stage[d]) \/ (d = c /\ k = 0)
    BY <1>5, <2>1
  <2> QED
    BY <1>6, <1>10, <2>1, <2>2, <2>3, <2>4, <2>5
<1>11. CASE ~work[t].begun /\ t \notin {"app", "timer"} /\ t \notin Relays
  <2>1. PICK x \in Items \ Segments : work[t] = FrameFor(t, Bytes[x])
    BY <1>0, <1>3, <1>11 DEF OfItsOwn
  <2>2. Bytes[x] \in Datas /\ Unmarked(Bytes[x])
    BY BytesAreData, ItemMarks
  <2> QED
    BY <1>3, <1>10, <1>11, <2>1, <2>2
<1>12. CASE ~work[t].begun /\ t \in Relays
  <2>0. t \notin {"app", "timer"}
    BY <1>12 DEF Relays
  <2>1. PICK data \in Datas :
          /\ work[t] = FrameFor(t, data)
          /\ \/ Unmarked(data) /\ NoneAt(t, at)
             \/ \E k \in DOMAIN sent :
                  /\ at[k] = Stage[t] /\ Marked(data, sent[k])
                  /\ \A j \in DOMAIN sent : at[j] = Stage[t] => j = k
    BY <1>3, <1>7, <1>12 DEF Carries
  <2>2. CASE Unmarked(data) /\ NoneAt(t, at)
    BY <1>3, <1>10, <1>12, <2>0, <2>1, <2>2
  <2>3. ASSUME NEW k \in DOMAIN sent, at[k] = Stage[t], Marked(data, sent[k]),
               \A j \in DOMAIN sent : at[j] = Stage[t] => j = k
        PROVE  \E at2 : Counted(at2, kept)' /\ AllTracked(at2)'
    <3>1. sent' = sent /\ Stage[c] = Stage[t] + 1 /\ Stage[t] \in 1 .. 8
      BY <1>2, <1>3, <1>12, <2>0, Stages
    <3>2. PICK at2 : at2 = [at EXCEPT ![k] = at[k] + 1]
      OBVIOUS
    <3>3. Counted(at2, kept)'
      <4>1. \A j \in DOMAIN sent : at[j] = at[k] => j >= k
        BY <1>5, <2>3
      <4> QED
        BY <1>0, <1>1, <1>3, <1>5, <2>3, <3>1, <3>2, <4>1, CountedNext
    <3>4. at2[k] = Stage[c] /\ \A j \in DOMAIN sent \ {k} : at2[j] = at[j]
      BY <1>5, <2>3, <3>1, <3>2
    <3>5. \A j \in DOMAIN sent : at[j] = Stage[c] => j < k
      <4> SUFFICES ASSUME NEW j \in DOMAIN sent, at[j] = Stage[c], ~(j < k)
                   PROVE  FALSE
        OBVIOUS
      <4>1. j # k /\ j \in Nat /\ k \in Nat
        BY <1>5, <2>3, <3>1
      <4>2. k < j /\ at[k] # Gone /\ at[j] # Gone
        BY <2>3, <3>1, <4>1 DEF Gone
      <4>3. at[k] >= at[j]
        BY <1>1, <4>2 DEF Counted
      <4> QED
        BY <2>3, <3>1, <4>3
    <3>6. \A d \in Conns, j \in DOMAIN sent' : at2[j] = Stage[d] <=>
            (j \in DOMAIN sent /\ at[j] = Stage[d]) \/ (d = c /\ j = k)
      BY <1>3, <1>12, <2>3, <3>1, <3>4, Stages
    <3>7. \A o \in Relays \ {t}, j \in DOMAIN sent' :
            at2[j] = Stage[o] <=> j \in DOMAIN sent /\ at[j] = Stage[o]
      BY <1>3, <1>12, <2>3, <3>1, <3>4, Stages
    <3>8. NoneAt(t, at2)'
      BY <1>3, <1>12, <2>3, <3>1, <3>4, Stages DEF NoneAt
    <3>9. \A d \in Datas : work[t].left = LeftOf(c, d, 1) => Marked(d, sent'[k])
      BY <1>2, <1>3, <2>1, <2>3, <3>1, LeftIs, FrameForIs
    <3>10. k \in {0} \cup DOMAIN sent' /\ k # 0
      BY <1>5, <3>1
    <3>11. AllTracked(at2)'
      BY <1>6, <1>12, <2>0, <3>3, <3>5, <3>6, <3>7, <3>8, <3>9, <3>10
    <3> QED
      BY <3>3, <3>11
  <2> QED
    BY <1>3, <2>1, <2>2, <2>3
<1> QED
  BY <1>8, <1>9, <1>11, <1>12

(* Nothing is sent or read, but a thread may be given what is its own. *)
LEMMA StillTracked ==
  ASSUME TypeOK, [Next]_vars, StartsOnly, NEW at, AllTracked(at),
         UNCHANGED <<stream, reader, open, sent>>,
         \A t \in Relays : work'[t] = work[t]
  PROVE  AllTracked(at)'
<1>1. SentMore /\ excused \subseteq excused'
  BY MoreMonotone
<1>2. ASSUME NEW c \in Conns
      PROVE  Tracked(c, at)'
  <2>1. Tracked(c, at) /\ stream'[c] = stream[c] /\ reader'[c] = reader[c]
        /\ open' = open /\ sent' = sent
    BY DEF AllTracked
  <2>2. c # "srt_snp" \/ open' =>
          /\ c # "srt_snp" \/ open
          /\ \A t \in Threads : Out[t] = c =>
               work'[t].begun = work[t].begun
               /\ (work[t].begun => work'[t] = work[t])
    BY StartedOnly
  <2>3. \A k \in DOMAIN sent' :
          at[k] = Stage[c] <=> k \in DOMAIN sent /\ at[k] = Stage[c]
    BY <2>1
  <2> QED
    BY <1>1, <2>1, <2>2, <2>3, KeepTracked
<1>3. ASSUME NEW t \in Relays
      PROVE  Carries(t, at)'
  <2>1. Carries(t, at) /\ work'[t] = work[t]
    BY DEF AllTracked
  <2>2. \A k \in DOMAIN sent' :
          at[k] = Stage[t] <=> k \in DOMAIN sent /\ at[k] = Stage[t]
    OBVIOUS
  <2> QED
    BY <1>1, <2>1, <2>2, CarriesKept
<1> QED
  BY <1>2, <1>3 DEF AllTracked

LEMMA ReceiveTrack ==
  ASSUME TypeOK, NEW c \in Conns, Receive(c), NEW at, NEW kept,
         Counted(at, kept), AllTracked(at)
  PROVE  Counted(at, kept)' /\ AllTracked(at)'
<1>1. /\ [Next]_vars /\ StartsOnly /\ Middle(c) /\ After(c).state # "complete"
      /\ open' = open /\ sent' = sent /\ work' = work /\ got' = got
      /\ excused' = excused
  BY DEF Receive, Middle, Next, Relay, StartsOnly
<1>2. PICK pos \in [0 .. Len(stream[c]) -> 1 .. LengthOf(c)],
           dat \in [0 .. Len(stream[c]) -> Datas], num \in Numberings(c) :
        Numbered(c, pos, dat, num, at)
  BY DEF AllTracked, Tracked
<1>3. Counted(at, kept)' /\ SentMore /\ 0 \notin DOMAIN sent
  BY <1>1, CountedKept, MoreMonotone
<1>4. \A d \in Conns : Tracked(d, at)'
  <2>1. \A d \in Conns : Tracked(d, at)
    BY DEF AllTracked
  <2>2. PICK a : a = 0
    OBVIOUS
  <2>3. a = IF After(c).state = "complete" THEN num[0] ELSE 0
    BY <1>1, <2>2
  <2>4. \A d \in Conns, k \in DOMAIN sent :
          at[k] = Stage[d] <=> at[k] = Stage[d] /\ (d = c => k # a)
    BY <1>3, <2>2
  <2> QED
    BY <1>1, <1>2, <2>1, <2>3, <2>4, TakeAll
<1>5. ASSUME NEW t \in Relays
      PROVE  Carries(t, at)'
  <2>1. Carries(t, at) /\ work'[t] = work[t]
    BY <1>1 DEF AllTracked
  <2>2. \A k \in DOMAIN sent' :
          at[k] = Stage[t] <=> k \in DOMAIN sent /\ at[k] = Stage[t]
    BY <1>1
  <2> QED
    BY <1>3, <2>1, <2>2, CarriesKept
<1> QED
  BY <1>3, <1>4, <1>5 DEF AllTracked

(* What is read goes to the thread that passes it on. *)
LEMMA ReturnTrack ==
  ASSUME DataPathInv, Excuses, NEW at, NEW kept, Counted(at, kept), AllTracked(at),
         getsegToSend \/ getpktToSend \/ recvpkt \/ overlay_recvpkt
  PROVE  /\ \E at2 : Counted(at2, kept)' /\ AllTracked(at2)'
         /\ \/ last' = last \/ Unmarked(last')
            \/ \E x \in Range(sent) : Marked(last', x)
<1>0. /\ TypeOK /\ [Next]_vars
      /\ open' = open /\ sent' = sent /\ got' = got
  BY DEF DataPathInv, Next, Relay, getsegToSend, getpktToSend, recvpkt,
     overlay_recvpkt
<1>1. ASSUME NEW c \in Conns, NEW t \in Relays, Stage[t] = Stage[c] + 1,
             Returns(c), NEW s \in Contents(c, After(c).buf),
             work[t] = Idle,
             \/ Give(t, FrameFor(t, Data(s)))
             \/ work' = work /\ ItemOf(Data(s)) \in Updates
      PROVE  /\ \E at2 : Counted(at2, kept)' /\ AllTracked(at2)'
             /\ Unmarked(Data(s)) \/ \E x \in Range(sent) : Marked(Data(s), x)
  <2>1. Data(s) \in Datas /\ t \in Threads
    BY <1>1, ReadIsData, Stages
  <2>2. /\ \A o \in Threads \ {t} : work'[o] = work[o]
        /\ \/ work'[t] = FrameFor(t, Data(s))
           \/ work'[t] = work[t] /\ ItemOf(Data(s)) \in Updates
    BY <1>0, <1>1, <2>1 DEF Give, TypeOK
  <2>3. StartsOnly
    BY <1>1, <2>1, <2>2, FrameForIs DEF StartsOnly, FrameFor
  <2>4. \A o \in Relays \ {t} : work'[o] = work[o]
    BY <2>2, Stages
  <2> QED
    BY <1>0, <1>1, <2>1, <2>2, <2>3, <2>4, PassTracked
<1>2. /\ Stage["waitTransport"] = Stage["srt_snp"] + 1
      /\ Stage["waitNetwork"] = Stage["snp_on"] + 1
      /\ Stage["listener"] = Stage["on_on"] + 1
      /\ Stage["pkthandler"] = Stage["on_snp"] + 1
      /\ {"waitTransport", "waitNetwork", "listener", "pkthandler"} \subseteq Relays
      /\ {"srt_snp", "snp_on", "on_on", "on_snp"} \subseteq Conns
  BY Names DEF Stage, Relays
<1>3. \A t, calls : Give(t, calls) => work[t] = Idle
  BY DEF Give
<1>4. CASE getsegToSend
  <2>0. Returns("srt_snp")
    BY <1>4 DEF getsegToSend
  <2>1. PICK s \in Contents("srt_snp", After("srt_snp").buf) :
          Give("waitTransport", overlay_sendpkt(Data(s))) /\ last' = Data(s)
    BY <1>4 DEF getsegToSend
  <2>2. Give("waitTransport", FrameFor("waitTransport", Data(s)))
    BY <1>2, <2>0, <2>1, ReadIsData, GivenFrames
  <2> QED
    BY <1>1, <1>2, <1>3, <2>0, <2>1, <2>2
<1>5. CASE getpktToSend
  <2>0. Returns("snp_on") /\ last' = last
    BY <1>5 DEF getpktToSend
  <2>1. PICK s \in Contents("snp_on", After("snp_on").buf) :
          Give("waitNetwork", sendpkt(Data(s)))
    BY <1>5 DEF getpktToSend
  <2>2. Give("waitNetwork", FrameFor("waitNetwork", Data(s)))
    BY <1>2, <2>0, <2>1, ReadIsData, GivenFrames
  <2> QED
    BY <1>1, <1>2, <1>3, <2>0, <2>2
<1>6. CASE recvpkt
  <2>0. Returns("on_on") /\ last' = last
    BY <1>6 DEF recvpkt
  <2>1. PICK s \in Contents("on_on", After("on_on").buf) :
          Give("listener", forwardpktToSNP(Data(s)))
    BY <1>6 DEF recvpkt
  <2>2. Give("listener", FrameFor("listener", Data(s)))
    BY <1>2, <2>0, <2>1, ReadIsData, GivenFrames
  <2> QED
    BY <1>1, <1>2, <1>3, <2>0, <2>2
<1>7. CASE overlay_recvpkt
  <2>0. Returns("on_snp") /\ last' = last
    BY <1>7 DEF overlay_recvpkt
  <2>1. PICK s \in Contents("on_snp", After("on_snp").buf) :
          IF ItemOf(Data(s)) \in Updates
            THEN work["pkthandler"] = Idle /\ UNCHANGED work
            ELSE Give("pkthandler", forwardsegToSRT(Data(s)))
    BY <1>7 DEF overlay_recvpkt
  <2>2. \/ Give("pkthandler", FrameFor("pkthandler", Data(s)))
        \/ work' = work /\ ItemOf(Data(s)) \in Updates
    BY <1>2, <2>0, <2>1, ReadIsData, GivenFrames
  <2>3. work["pkthandler"] = Idle
    BY <1>3, <2>1
  <2> QED
    BY <1>1, <1>2, <2>0, <2>2, <2>3
<1> QED
  BY <1>4, <1>5, <1>6, <1>7

LEMMA EnterTrack ==
  ASSUME DataPathInv, NEW t \in Threads, NEW x \in Items, Enter(t, x),
         NEW at, NEW kept, Counted(at, kept), AllTracked(at)
  PROVE  Counted(at, kept)' /\ AllTracked(at)'
<1>1. /\ TypeOK /\ [Next]_vars /\ sent' = sent /\ got' = got /\ excused' = excused
      /\ UNCHANGED <<stream, reader, open, sent>>
  BY DEF DataPathInv, Next, Enter
<1>2. Give(t, FrameFor(t, Bytes[x])) /\ t \notin Relays
  BY BytesAreData, GivenFrames DEF Enter, Relays
<1>3. work'[t] = FrameFor(t, Bytes[x]) /\ \A o \in Threads \ {t} : work'[o] = work[o]
  BY <1>1, <1>2 DEF Give, TypeOK
<1>4. StartsOnly
  BY <1>2, <1>3 DEF StartsOnly, Give, FrameFor
<1>5. \A o \in Relays : work'[o] = work[o]
  BY <1>2, <1>3, Stages
<1> QED
  BY <1>1, <1>4, <1>5, CountedKept, StillTracked

LEMMA ClosesTrack ==
  ASSUME DataPathInv, SrtCloses, NEW at, NEW kept, Counted(at, kept), AllTracked(at)
  PROVE  Counted(at, kept)' /\ AllTracked(at)'
<1>1. /\ TypeOK /\ [Next]_vars /\ sent' = sent /\ got' = got /\ ~open'
      /\ stream' = stream /\ reader' = reader
      /\ {work["app"].what, work["timer"].what} \subseteq excused'
      /\ \A t \in Threads \ {"app", "timer"} : work'[t] = work[t]
  BY DEF DataPathInv, Next, SrtCloses, TypeOK
<1>2. SentMore /\ excused \subseteq excused'
  BY <1>1, MoreMonotone
<1>3. Counted(at, kept)'
  BY <1>1, <1>2, CountedKept
<1>4. ASSUME NEW c \in Conns
      PROVE  Tracked(c, at)'
  <2>1. Tracked(c, at) /\ stream'[c] = stream[c] /\ reader'[c] = reader[c]
    BY <1>1 DEF AllTracked
  <2>2. c # "srt_snp" \/ open' =>
          /\ c # "srt_snp" \/ open
          /\ \A t \in Threads : Out[t] = c =>
               work'[t].begun = work[t].begun
               /\ (work[t].begun => work'[t] = work[t])
    BY <1>1 DEF Out
  <2>3. \A k \in DOMAIN sent' :
          at[k] = Stage[c] <=> k \in DOMAIN sent /\ at[k] = Stage[c]
    BY <1>1
  <2> QED
    BY <1>1, <1>2, <2>1, <2>2, <2>3, KeepTracked
<1>5. ASSUME NEW t \in Relays
      PROVE  Carries(t, at)'
  <2>1. Carries(t, at) /\ work'[t] = work[t]
    BY <1>1, Stages DEF AllTracked, Relays
  <2>2. \A k \in DOMAIN sent' :
          at[k] = Stage[t] <=> k \in DOMAIN sent /\ at[k] = Stage[t]
    BY <1>1
  <2> QED
    BY <1>2, <2>1, <2>2, CarriesKept
<1> QED
  BY <1>3, <1>4, <1>5 DEF AllTracked

(* waitTransport repeats the last segment: what was cut off is gone, and    *)
(* the repeated one is with waitTransport itself.                           *)
LEMMA WaitTransportTrack ==
  ASSUME DataPathInv, Excuses, waitTransport, Unmixed', LastMarked,
         NEW at, NEW kept, Counted(at, kept), AllTracked(at)
  PROVE  LastMarked' /\ \E at2 : Counted(at2, kept)' /\ AllTracked(at2)'
<1>0. [Next]_vars /\ TypeOK /\ TypeOK' /\ SourceInv
  BY InvStep DEF Next, DataPathInv
<1>1. PICK data \in IF last = <<>> THEN [1 .. SegSize -> Stale] ELSE {last} :
        /\ Give("waitTransport", overlay_sendpkt(data))
        /\ sent' = Append(sent, ItemOf(data))
        /\ last' = data
  BY DEF waitTransport
<1>2. PICK x, n, c : x = ItemOf(data) /\ n = Len(sent) /\ c = "srt_snp"
  OBVIOUS
<1>3. data \in Datas /\ data \in [1 .. SegSize -> SourceChar]
  <2>1. CASE last = <<>>
    BY <1>1, <2>1, Chars DEF Datas
  <2>2. CASE last # <<>>
    BY <1>0, <1>1, <2>2 DEF TypeOK, SourceInv, Datas
  <2> QED
    BY <2>1, <2>2
<1>4. /\ n \in Nat /\ DOMAIN sent = 1 .. n /\ DOMAIN sent' = 1 .. n + 1
      /\ sent'[n + 1] = x /\ x \in Segments \cup {None}
  <2>1. x \in Segments \cup {None}
    BY <1>2, <1>3, SourceIsNoUpdate
  <2>2. sent \in Seq(Segments \cup {None})
    BY <1>0 DEF TypeOK
  <2>3. /\ sent' \in Seq(Segments \cup {None}) /\ Len(sent') = n + 1
        /\ sent'[n + 1] = x
    BY <1>1, <1>2, <2>1, <2>2, AppendProperties
  <2> QED
    BY <1>2, <2>1, <2>2, <2>3, LenProperties
<1>5. x \in Range(sent')
  <2>1. n + 1 \in DOMAIN sent'
    BY <1>4
  <2> QED
    BY <1>4, <2>1 DEF Range
<1>6. IF x = None THEN Unmarked(data) ELSE Marked(data, x)
  <2>1. CASE last = <<>>
    BY <1>1, <1>2, <2>1, StaleIsNothing, MarkTypes DEF Unmarked
  <2>2. CASE last # <<>> /\ Unmarked(last)
    BY <1>1, <1>2, <1>4, <2>2, ItemOfMarked
  <2>3. ASSUME last # <<>>, NEW y \in Range(sent), Marked(last, y)
        PROVE  x = y /\ x # None /\ Marked(data, x)
    <3>1. data = last /\ y \in Range(sent') /\ y # None
      <4>1. y \in Segments /\ None \notin Segments
        BY <2>3, DataPathAssumption DEF Marked, Items
      <4> QED
        BY <1>0, <1>1, <2>3, <4>1, MoreMonotone
    <3>2. x \in {y, None}
      BY <1>2, <2>3, <3>1, ItemOfMarked
    <3>3. x # None
      <4>1. x = None => Clean(y)
        BY <1>5, <3>1 DEF Unmixed
      <4>2. Clean(y) => x = y
        BY <1>2, <2>3, <3>1, ItemOfMarked
      <4> QED
        BY <3>1, <4>1, <4>2
    <3> QED
      BY <2>3, <3>1, <3>2, <3>3
  <2> QED
    BY <2>1, <2>2, <2>3 DEF LastMarked
<1>6a. LastMarked'
  BY <1>1, <1>5, <1>6 DEF LastMarked
<1>6b. PICK p0 : p0 = IF x = None THEN Gone ELSE 2
  OBVIOUS
<1>7. /\ work["waitTransport"] = Idle
      /\ work'["waitTransport"] = FrameFor("waitTransport", data)
      /\ \A t \in Threads \ {"waitTransport"} : work'[t] = work[t]
      /\ "waitTransport" \in Relays /\ Stage["waitTransport"] = 2 /\ StartsOnly
  <2>1. Give("waitTransport", FrameFor("waitTransport", data))
    BY <1>1, <1>3, GivenFrames
  <2>2. "waitTransport" \in Threads
    BY Names
  <2>3. /\ work["waitTransport"] = Idle
        /\ work'["waitTransport"] = FrameFor("waitTransport", data)
        /\ \A t \in Threads \ {"waitTransport"} : work'[t] = work[t]
    BY <1>0, <2>1, <2>2 DEF Give, TypeOK
  <2> QED
    BY <2>3 DEF StartsOnly, FrameFor, Relays, Stage
<1>8. /\ c \in Conns /\ Stage[c] = 1 /\ stream' = stream /\ stream[c] = <<>> /\ ~open
      /\ reader'[c] = Ready /\ \A d \in Conns \ {c} : reader'[d] = reader[d]
      /\ got' = got /\ excused' = excused
  BY <1>0, <1>2, Names DEF waitTransport, TypeOK, Stage
<1>9. PICK pos \in [0 .. 0 -> 1 .. LengthOf(c)], dat \in [0 .. 0 -> Datas],
           num \in Numberings(c) :
        Numbered(c, pos, dat, num, at)
  <2>1. Len(stream[c]) = 0
    BY <1>8
  <2> QED
    BY <1>8, <2>1 DEF AllTracked, Tracked
<1>10. PICK a : a = num[0]
  OBVIOUS
<1>11. /\ a \in {0} \cup DOMAIN sent
       /\ \A k \in DOMAIN sent : at[k] = 1 <=> k = a
       /\ a # 0 => sent[a] \in excused
  <2>1. Len(stream[c]) = 0 /\ 0 \in 0 .. 0 /\ \A i \in 0 .. 0 : i = 0
    BY <1>8
  <2>2. a \in {0} \cup DOMAIN sent /\ \A k \in DOMAIN sent : at[k] = 1 <=> k = a
    BY <1>8, <1>9, <1>10, <2>1 DEF Numbered, Numbers
  <2>3. a # 0 => pos[0] # LengthOf(c)
    BY <1>9, <1>10 DEF Numbered, InOrder
  <2>4. a # 0 => sent[a] \in excused
    BY <1>2, <1>8, <1>9, <1>10, <2>1, <2>3 DEF Numbered, CutOff
  <2> QED
    BY <2>2, <2>4
<1>12. at \in [DOMAIN sent -> Gone .. Returned] /\ 0 \notin DOMAIN sent
  BY <1>4 DEF Counted
<1>13. PICK at1 : /\ Counted(at1, kept)
                  /\ \A k \in DOMAIN sent : at1[k] = IF k = a THEN Gone ELSE at[k]
  <2>1. CASE a = 0
    BY <1>12, <2>1
  <2>2. CASE a # 0
    <3>1. a \in DOMAIN sent /\ at[a] # Returned /\ sent[a] \in excused
      BY <1>11, <2>2 DEF Returned
    <3>2. Counted([at EXCEPT ![a] = Gone], kept)
      BY <3>1, CountedDropped DEF Droppable
    <3>3. \A k \in DOMAIN sent :
            [at EXCEPT ![a] = Gone][k] = IF k = a THEN Gone ELSE at[k]
      BY <1>12
    <3> QED
      BY <3>2, <3>3
  <2> QED
    BY <2>1, <2>2
<1>14. PICK at2 : at2 = [k \in 1 .. n + 1 |-> IF k = n + 1 THEN p0 ELSE at1[k]]
  OBVIOUS
<1>15. Counted(at2, kept)'
  <2>1. \A j \in DOMAIN sent : at1[j] # Gone => at1[j] >= p0
    <3> SUFFICES ASSUME NEW j \in DOMAIN sent, at1[j] # Gone
                 PROVE  at1[j] >= p0
      OBVIOUS
    <3>1. at1[j] = at[j] /\ at[j] # 1 /\ at[j] \in 0 .. 10
      BY <1>11, <1>12, <1>13 DEF Gone, Returned
    <3> QED
      BY <1>6b, <3>1 DEF Gone
  <2>2. x \in Segments \cup {None} /\ sent' = Append(sent, x) /\ n = Len(sent)
        /\ excused \subseteq excused' /\ p0 \in {Gone, 1, 2}
    BY <1>1, <1>2, <1>4, <1>6b, <1>8
  <2>3. p0 = Gone => x \in excused'
    BY <1>6b, <1>8 DEF Gone, Excuses
  <2>4. TypeOK /\ got' = got /\ Counted(at1, kept)
    BY <1>0, <1>8, <1>13
  <2> QED
    BY <1>14, <2>1, <2>2, <2>3, <2>4, CountedAnother
<1>16. /\ at2[n + 1] = p0 /\ p0 \in {Gone, 2}
       /\ \A k \in DOMAIN sent : at2[k] = IF k = a THEN Gone ELSE at[k]
       /\ \A k \in DOMAIN sent' : k \in DOMAIN sent <=> k # n + 1
  <2>1. n + 1 \in 1 .. n + 1 /\ \A k \in 1 .. n : k # n + 1 /\ k \in 1 .. n + 1
    BY <1>4
  <2>2. \A k \in 1 .. n + 1 : k \in 1 .. n <=> k # n + 1
    BY <1>4
  <2> QED
    BY <1>4, <1>6b, <1>13, <1>14, <2>1, <2>2
<1>17. SentMore /\ excused \subseteq excused'
  BY <1>0, MoreMonotone
<1>18. ASSUME NEW p, p \notin {Gone, 1, 2}
       PROVE  \A k \in DOMAIN sent' : at2[k] = p <=> k \in DOMAIN sent /\ at[k] = p
  BY <1>11, <1>16, <1>18
<1>19. ASSUME NEW d \in Conns
       PROVE  Tracked(d, at2)'
  <2>1. CASE d = c
    <3>1. NoneAt(c, at2)'
      <4>1. \A k \in DOMAIN sent' : at2[k] # 1
        BY <1>11, <1>16 DEF Gone
      <4> QED
        BY <1>8, <4>1 DEF NoneAt
    <3>2. \A t \in Threads : Out[t] = c => ~work'[t].begun
      <4>1. \A t \in Threads : Out[t] = c => t \in {"app", "timer"}
        BY <1>2, Names DEF Out
      <4>2. \A t \in {"app", "timer"} : work[t] = Idle /\ t # "waitTransport"
        BY <1>0, <1>8 DEF SourceInv
      <4> QED
        BY <1>7, <4>1, <4>2 DEF Idle
    <3> QED
      BY <1>0, <1>8, <2>1, <3>1, <3>2, UnusedNext DEF Unused
  <2>2. CASE d # c
    <3>1. Tracked(d, at) /\ stream'[d] = stream[d] /\ reader'[d] = reader[d]
      BY <1>8, <2>2 DEF AllTracked
    <3>2. Stage[d] \notin {Gone, 1, 2}
      BY <1>7, <1>8, <2>2, Stages
    <3>3. \A k \in DOMAIN sent' :
            at2[k] = Stage[d] <=> k \in DOMAIN sent /\ at[k] = Stage[d]
      BY <1>18, <3>2
    <3>4. d # "srt_snp" \/ open' =>
            /\ d # "srt_snp" \/ open
            /\ \A t \in Threads : Out[t] = d =>
                 work'[t].begun = work[t].begun
                 /\ (work[t].begun => work'[t] = work[t])
      BY <1>2, <1>7, <2>2, StartedOnly
    <3>5. d = "srt_snp" /\ open /\ ~open' =>
            {work["app"].what, work["timer"].what} \subseteq excused'
      BY <1>8
    <3> QED
      BY <1>0, <1>17, <3>1, <3>3, <3>4, <3>5, KeepTracked
  <2> QED
    BY <2>1, <2>2
<1>20. ASSUME NEW t \in Relays
       PROVE  Carries(t, at2)'
  <2>1. CASE t = "waitTransport"
    <3>1. NoneAt(t, at)
      BY <1>7, <2>1, Stages, FrameForIs DEF AllTracked, Carries
    <3>2. \A k \in DOMAIN sent' : at2[k] = 2 => k = n + 1
      BY <1>7, <1>16, <2>1, <3>1 DEF NoneAt, Gone
    <3>3. CASE x # None
      <4>1. n + 1 \in DOMAIN sent' /\ Marked(data, sent'[n + 1])
            /\ at2[n + 1] = Stage[t]
        BY <1>4, <1>6, <1>6b, <1>7, <1>16, <2>1, <3>3
      <4> QED
        BY <1>3, <1>7, <2>1, <3>2, <4>1 DEF Carries
    <3>4. CASE x = None
      <4>1. NoneAt(t, at2)' /\ Unmarked(data)
        BY <1>6, <1>6b, <1>7, <1>16, <2>1, <3>2, <3>4 DEF NoneAt, Gone
      <4> QED
        BY <1>3, <1>7, <2>1, <4>1 DEF Carries
    <3> QED
      BY <3>3, <3>4
  <2>2. CASE t # "waitTransport"
    <3>1. Carries(t, at) /\ work'[t] = work[t]
      BY <1>7, <2>2, Stages DEF AllTracked
    <3>2. Stage[t] \notin {Gone, 1, 2}
      BY <1>7, <1>8, <2>2, Stages
    <3>3. \A k \in DOMAIN sent' :
            at2[k] = Stage[t] <=> k \in DOMAIN sent /\ at[k] = Stage[t]
      BY <1>18, <3>2
    <3> QED
      BY <1>17, <3>1, <3>3, CarriesKept
  <2> QED
    BY <2>1, <2>2
<1> QED
  BY <1>6a, <1>15, <1>19, <1>20 DEF AllTracked

LEMMA TrackStep ==
  ASSUME DataPathInv, TrackInv, [Next]_vars
  PROVE  TrackInv'
<1>1. TypeOK /\ Excuses' /\ Excuses
  BY MoreMonotone DEF DataPathInv, TrackInv
<1>2. \A t \in Threads \ Relays : OfItsOwn(t)'
  BY <1>1, OwnStep DEF TrackInv
<1>3. ASSUME Unmixed'
      PROVE  LastMarked' /\ \E at2, kept2 : Counted(at2, kept2)' /\ AllTracked(at2)'
  <2>1. Unmixed /\ LastMarked
    BY <1>1, <1>3, MoreMonotone DEF TrackInv
  <2>2. PICK at, kept : Counted(at, kept) /\ AllTracked(at)
    BY <2>1 DEF TrackInv
  <2>3. last' = last => LastMarked'
    BY <1>1, <2>1, MoreMonotone DEF LastMarked
  <2>4. ASSUME NEW t \in Threads, Send(t)
        PROVE  LastMarked' /\ \E at2, kept2 : Counted(at2, kept2)' /\ AllTracked(at2)'
    BY <1>3, <2>4, SendTrack
  <2>5. ASSUME NEW c \in Conns, Receive(c)
        PROVE  LastMarked' /\ \E at2, kept2 : Counted(at2, kept2)' /\ AllTracked(at2)'
    <3>1. last' = last
      BY <2>5 DEF Receive
    <3> QED
      BY <1>1, <2>2, <2>3, <2>5, <3>1, ReceiveTrack
  <2>6. CASE getsegToSend \/ getpktToSend \/ recvpkt \/ overlay_recvpkt
    <3>1. /\ \E at2 : Counted(at2, kept)' /\ AllTracked(at2)'
          /\ \/ last' = last \/ Unmarked(last')
            \/ \E x \in Range(sent) : Marked(last', x)
      BY <1>1, <2>2, <2>6, ReturnTrack
    <3>2. LastMarked'
      BY <1>1, <2>3, <3>1, MoreMonotone DEF LastMarked
    <3> QED
      BY <3>1, <3>2
  <2>7. CASE snp_recvseg
    <3>1. last' = last
      BY <2>7 DEF snp_recvseg
    <3> QED
      BY <1>1, <2>2, <2>3, <2>7, <3>1, DeliverTracked
  <2>8. ASSUME NEW t \in Threads, NEW x \in Items, Enter(t, x)
        PROVE  LastMarked' /\ \E at2, kept2 : Counted(at2, kept2)' /\ AllTracked(at2)'
    <3>1. last' = last
      BY <2>8 DEF Enter
    <3> QED
      BY <2>2, <2>3, <2>8, <3>1, EnterTrack
  <2>9. CASE SrtCloses
    <3>1. last' = last
      BY <2>9 DEF SrtCloses
    <3> QED
      BY <2>2, <2>3, <2>9, <3>1, ClosesTrack
  <2>10. CASE waitTransport
    BY <1>1, <1>3, <2>1, <2>2, <2>10, WaitTransportTrack
  <2>11. CASE UNCHANGED vars
    <3>1. /\ last' = last /\ sent' = sent /\ got' = got /\ excused' = excused
          /\ UNCHANGED <<stream, reader, open, sent>> /\ work' = work
      BY <2>11 DEF vars
    <3>2. StartsOnly
      BY <3>1 DEF StartsOnly
    <3> QED
      BY <1>1, <2>2, <2>3, <3>1, <3>2, CountedKept, StillTracked
  <2> QED
    BY <2>4, <2>5, <2>6, <2>7, <2>8, <2>9, <2>10, <2>11 DEF Next, Relay
<1> QED
  BY <1>1, <1>2, <1>3 DEF TrackInv

(* Segments arrive in the order in which they were sent, none more often    *)
(* than it was sent or repeated, and none is missing before another that is *)
(* not excused: whatever their size and number, however short each send,    *)
(* and wherever frames are cut or spoilt, until frames are mixed.           *)
THEOREM SegmentsIntact == Spec => []Intact
<1>1. Init => DataPathInv /\ TrackInv
  BY InitInv, TrackInit
<1>2. DataPathInv /\ TrackInv /\ [Next]_vars => (DataPathInv /\ TrackInv)'
  BY InvStep, TrackStep
<1>3. TrackInv => Intact
  BY CountedIsIntact DEF TrackInv, Intact
<1> QED
  BY <1>1, <1>2, <1>3, PTL DEF Spec

----------------------------------------------------------------------------
(* The checksum of a segment *)

LEMMA WordSizes == M \in Nat /\ M > 3 /\ M - 1 \in Nat
BY ChecksumAssumption

(* A multiple of a positive number is not less, or not positive. *)
LEMMA Multiple ==
  ASSUME NEW d \in Nat, d > 0, NEW k \in Int
  PROVE  (k >= 1 => d * k >= d) /\ (k <= 0 => d * k <= 0)
OBVIOUS

(* Quotient and remainder by M, and that they are the only ones. *)
LEMMA Divides ==
  ASSUME NEW a \in Nat
  PROVE  a \div M \in Nat /\ a % M \in Word /\ a = M * (a \div M) + (a % M)
BY WordSizes DEF Word

LEMMA OnlyOne ==
  ASSUME NEW a \in Nat, NEW q \in Nat, NEW r \in Word, a = M * q + r
  PROVE  a \div M = q /\ a % M = r
<1> DEFINE p == a \div M  s == a % M
<1>1. p \in Nat /\ s \in Word /\ a = M * p + s
  BY Divides
<1>2. r \in Int /\ s \in Int /\ r - s < M /\ s - r < M
  BY <1>1, WordSizes DEF Word
<1>3. M * (q - p) = s - r /\ M * (p - q) = r - s
  BY <1>1, <1>2, WordSizes
<1>4. ~(q - p >= 1) /\ ~(p - q >= 1)
  BY <1>1, <1>2, <1>3, WordSizes, Multiple
<1>5. q = p
  BY <1>1, <1>4
<1> QED
  BY <1>1, <1>5, <1>2, WordSizes

(* Every segment's sum is one the two folds are enough for. *)
Sums == {a \in Nat : a \div M < M - 2}

LEMMA SumsAreSmall ==
  ASSUME NEW a \in Nat, NEW n \in Nat, a <= n * (M - 1), n < M - 1
  PROVE  a \in Sums
<1> DEFINE q == a \div M
<1>1. q \in Nat /\ a >= M * q
  BY Divides, WordSizes DEF Word
<1>2. a <= (M - 1) * n /\ (M - 1) * n <= (M - 1) * (M - 2)
  BY WordSizes
<1>3. M * q <= (M - 1) * (M - 2)
  BY <1>1, <1>2, WordSizes
<1>4. /\ M * (q - (M - 2)) = M * q - M * (M - 2)
      /\ M * (M - 2) > (M - 1) * (M - 2)
  BY <1>1, WordSizes
<1>5. ~(q - (M - 2) >= 0)
  BY <1>1, <1>3, <1>4, WordSizes
<1> QED
  BY <1>1, <1>5, WordSizes DEF Sums

(* The sum, folded twice and complemented, is zero if quotient and          *)
(* remainder are together all ones.                                         *)
LEMMA TwoFolds ==
  ASSUME NEW a \in Sums
  PROVE  LET q == a \div M
             r == a % M
         IN  Complement(Fold(a)) =
               IF q + r < M THEN M - 1 - (q + r) ELSE 2 * M - 2 - (q + r)
<1> DEFINE q == a \div M  r == a % M
<1>1. q \in Nat /\ r \in Nat /\ r < M /\ q < M - 2
  BY Divides, WordSizes DEF Sums, Word
<1>2. Once(a) = r + q
  BY DEF Once
<1>3. CASE q + r < M
  <2>1. Once(a) \div M = 0 /\ Once(a) % M = q + r
    BY <1>1, <1>2, <1>3, WordSizes, OnlyOne, q + r = M * 0 + (q + r) DEF Word
  <2> QED
    BY <2>1, <1>1, <1>2, <1>3 DEF Fold, Complement
<1>4. CASE q + r >= M
  <2>1. Once(a) \div M = 1
    BY <1>1, <1>2, <1>4, WordSizes, OnlyOne, q + r = M * 1 + (q + r - M) DEF Word
  <2>2. Fold(a) = q + r + 1
    BY <2>1, <1>1, <1>2 DEF Fold
  <2>3. Fold(a) % M = q + r + 1 - M
    BY <2>2, <1>1, <1>4, WordSizes, OnlyOne,
       q + r + 1 = M * 1 + (q + r + 1 - M) DEF Word
  <2> QED
    BY <2>3, <1>1, <1>4, WordSizes DEF Complement
<1> QED
  BY <1>1, <1>3, <1>4, WordSizes

LEMMA ValidIff ==
  ASSUME NEW a \in Sums
  PROVE  Complement(Fold(a)) = 0 <=> (a \div M) + (a % M) = M - 1
<1> DEFINE q == a \div M  r == a % M
<1>1. q \in Nat /\ r \in Nat /\ r < M /\ q < M - 2
  BY Divides, WordSizes DEF Sums, Word
<1>2. Complement(Fold(a)) =
        IF q + r < M THEN M - 1 - (q + r) ELSE 2 * M - 2 - (q + r)
  BY TwoFolds
<1> QED
  BY <1>1, <1>2, WordSizes

(* The complement completes a sum to a valid one. *)
LEMMA Completes ==
  ASSUME NEW a \in Sums, NEW c, c = Complement(Fold(a)), a + c \in Sums
  PROVE  c \in Word /\ Complement(Fold(a + c)) = 0
<1> DEFINE q == a \div M  r == a % M
<1>1. q \in Nat /\ r \in Nat /\ r < M /\ q < M - 2 /\ a = M * q + r
  BY Divides, WordSizes DEF Sums, Word
<1>2. c = IF q + r < M THEN M - 1 - (q + r) ELSE 2 * M - 2 - (q + r)
  BY TwoFolds
<1>3. c \in Word /\ c \in Int
  BY <1>1, <1>2, WordSizes DEF Word
<1>4. CASE q + r < M
  <2> DEFINE mq == M * q
  <2>1. mq \in Nat /\ a = mq + r /\ c = M - 1 - (q + r)
    BY <1>1, <1>2, <1>4, WordSizes
  <2>2. M - 1 - q \in Word
    BY <1>1, WordSizes DEF Word
  <2> HIDE DEF mq, q, r
  <2>3. a + c = mq + (M - 1 - q)
    BY <2>1, <1>1, WordSizes
  <2>4. (a + c) \div M = q /\ (a + c) % M = M - 1 - q
    BY <2>2, <2>3, <1>1, OnlyOne DEF Sums, mq
  <2> QED
    BY <2>4, <1>1, <1>3, ValidIff, WordSizes
<1>5. CASE q + r >= M
  <2> DEFINE mq == M * q  mq1 == M * (q + 1)
  <2>1. /\ mq \in Nat /\ a = mq + r /\ c = 2 * M - 2 - (q + r)
        /\ mq1 = mq + M
    BY <1>1, <1>2, <1>5, WordSizes
  <2>2. M - 2 - q \in Word
    BY <1>1, WordSizes DEF Word
  <2> HIDE DEF mq, mq1, q, r
  <2>3. a + c = mq1 + (M - 2 - q)
    BY <2>1, <1>1, WordSizes
  <2>4. (a + c) \div M = q + 1 /\ (a + c) % M = M - 2 - q
    BY <2>2, <2>3, <1>1, OnlyOne DEF Sums, mq1
  <2> QED
    BY <2>4, <1>1, <1>3, ValidIff, WordSizes
<1> QED
  BY <1>1, <1>4, <1>5, WordSizes

(* Two valid sums do not differ by less than M - 1. *)
LEMMA Apart ==
  ASSUME NEW a \in Sums, NEW b \in Sums, a < b, b < a + (M - 1)
  PROVE  ~(Complement(Fold(a)) = 0 /\ Complement(Fold(b)) = 0)
<1> DEFINE q == a \div M  r == a % M  p == b \div M  s == b % M
<1>1. SUFFICES ASSUME Complement(Fold(a)) = 0, Complement(Fold(b)) = 0
               PROVE  FALSE
  OBVIOUS
<1>2. /\ q \in Nat /\ r \in Nat /\ a = M * q + r
      /\ p \in Nat /\ s \in Nat /\ b = M * p + s
  BY Divides, WordSizes DEF Sums, Word
<1>3. q + r = M - 1 /\ p + s = M - 1
  BY <1>1, ValidIff
<1>4. b - a = (M - 1) * (p - q)
  BY <1>2, <1>3, WordSizes
<1>5. b - a > 0 /\ b - a < M - 1
  BY WordSizes DEF Sums
<1> QED
  BY <1>2, <1>4, <1>5, WordSizes, Multiple

LEMMA CoveredIsSum ==
  ASSUME NEW s \in Segment
  PROVE  Covered(s) \in Sums
<1> DEFINE m == M - 1  n == HeadWords + DataWords + 2
<1>1. /\ s.head \in Nat /\ s.head <= HeadWords * m
      /\ s.type \in Nat /\ s.type <= m
      /\ s.checksum \in Nat /\ s.checksum <= m
      /\ s.data \in Nat /\ s.data <= DataWords * m
  BY WordSizes, ChecksumAssumption DEF Segment, Word
<1>2. n * m = HeadWords * m + DataWords * m + m + m
  BY WordSizes, ChecksumAssumption
<1>3. HeadWords * m \in Nat /\ DataWords * m \in Nat
  BY WordSizes, ChecksumAssumption
<1>4. Covered(s) \in Nat /\ Covered(s) <= n * m
  <2> DEFINE hm == HeadWords * m  dm == DataWords * m
  <2>1. /\ s.head <= hm /\ s.data <= dm /\ n * m = hm + dm + m + m
        /\ hm \in Nat /\ dm \in Nat /\ m \in Nat
    BY <1>1, <1>2, <1>3, WordSizes
  <2> HIDE DEF hm, dm, n, m
  <2> QED
    BY <1>1, <2>1 DEF Covered
<1>5. n \in Nat /\ n < M - 1
  BY ChecksumAssumption
<1> QED
  BY <1>4, <1>5, SumsAreSmall

(* A segment that snp_sendseg has stamped passes checkchecksum. *)
THEOREM StampedIsValid ==
  ASSUME NEW s \in Segment
  PROVE  Stamped(s) \in Segment /\ checkchecksum(Stamped(s))
<1> DEFINE z == [s EXCEPT !.checksum = 0]  c == checksum(s)
<1>1. z \in Segment
  BY WordSizes DEF Segment, Word
<1>2. Covered(z) \in Sums /\ c = Complement(Fold(Covered(z)))
  BY <1>1, CoveredIsSum DEF checksum
<1>3. c \in Word
  <2> DEFINE q == Covered(z) \div M  r == Covered(z) % M
  <2>1. q \in Nat /\ r \in Nat /\ r < M /\ q < M - 2
    BY <1>2, Divides, WordSizes DEF Sums, Word
  <2>2. c = IF q + r < M THEN M - 1 - (q + r) ELSE 2 * M - 2 - (q + r)
    BY <1>2, TwoFolds
  <2> QED
    BY <2>1, <2>2, WordSizes DEF Word
<1>4. Stamped(s) \in Segment
  BY <1>3 DEF Stamped, Segment
<1>5. Covered(Stamped(s)) = Covered(z) + c
  BY <1>3, WordSizes, ChecksumAssumption DEF Stamped, Segment, Word, Covered
<1>6. Covered(z) + c \in Sums
  BY <1>4, <1>5, CoveredIsSum
<1> QED
  BY <1>2, <1>4, <1>5, <1>6, Completes DEF checkchecksum

(* One flipped bit is found: the segment seglost has spoiled fails          *)
(* checkchecksum, unless the flip changed whether the data is covered.      *)
THEOREM FlipIsFound ==
  ASSUME NEW s \in Segment, NEW t \in Segment, checkchecksum(s),
         Spoils(s, t), s.type = DATA <=> t.type = DATA
  PROVE  ~checkchecksum(t)
<1>0. PICK bit \in Bits : \E d \in {bit, -bit} :
        \/ t = [s EXCEPT !.head = @ + d]
        \/ t = [s EXCEPT !.type = Flip(@, bit)]
        \/ t = [s EXCEPT !.checksum = Flip(@, bit)]
        \/ s.type = DATA /\ t = [s EXCEPT !.data = @ + d]
  BY DEF Spoils
<1>1. PICK d \in {bit, -bit} :
        \/ t = [s EXCEPT !.head = @ + d]
        \/ t = [s EXCEPT !.type = Flip(@, bit)]
        \/ t = [s EXCEPT !.checksum = Flip(@, bit)]
        \/ s.type = DATA /\ t = [s EXCEPT !.data = @ + d]
  BY <1>0
<1>2. bit \in Nat /\ 0 < bit /\ bit < M - 1
  BY WordSizes DEF Bits
<1>3. \A w \in Word : Flip(w, bit) \in {w + bit, w - bit}
  BY DEF Flip
<1>4. /\ s.head \in Int /\ s.type \in Word /\ s.checksum \in Word
      /\ s.data \in Int /\ s.type \in Int /\ s.checksum \in Int
  BY WordSizes, ChecksumAssumption DEF Segment, Word
<1>5. Covered(t) = Covered(s) + bit \/ Covered(t) = Covered(s) - bit
  <2>1. CASE t = [s EXCEPT !.head = @ + d]
    BY <2>1, <1>2, <1>4 DEF Covered, Segment
  <2>2. CASE t = [s EXCEPT !.type = Flip(@, bit)]
    <3>1. t.type \in {s.type + bit, s.type - bit} /\ t.type # s.type
      BY <2>2, <1>2, <1>3, <1>4 DEF Segment
    <3>2. s.type # DATA /\ t.type # DATA
      BY <3>1
    <3> QED
      BY <3>1, <3>2, <2>2, <1>2, <1>4 DEF Covered, Segment
  <2>3. CASE t = [s EXCEPT !.checksum = Flip(@, bit)]
    <3>1. t.checksum \in {s.checksum + bit, s.checksum - bit}
      BY <2>3, <1>3, <1>4 DEF Segment
    <3> QED
      BY <3>1, <2>3, <1>2, <1>4 DEF Covered, Segment
  <2>4. CASE s.type = DATA /\ t = [s EXCEPT !.data = @ + d]
    BY <2>4, <1>2, <1>4 DEF Covered, Segment
  <2> QED
    BY <1>1, <2>1, <2>2, <2>3, <2>4
<1>6. Covered(s) \in Sums /\ Covered(t) \in Sums
  BY CoveredIsSum
<1>7. CASE Covered(t) = Covered(s) + bit
  <2>1. Covered(s) < Covered(t) /\ Covered(t) < Covered(s) + (M - 1)
    BY <1>2, <1>6, <1>7, WordSizes DEF Sums
  <2> QED
    BY <2>1, <1>6, Apart DEF checkchecksum
<1>8. CASE Covered(t) = Covered(s) - bit
  <2>1. Covered(t) < Covered(s) /\ Covered(s) < Covered(t) + (M - 1)
    BY <1>2, <1>6, <1>8, WordSizes DEF Sums
  <2> QED
    BY <2>1, <1>6, Apart DEF checkchecksum
<1> QED
  BY <1>5, <1>7, <1>8

(* The exception is real: a data segment of which one bit of the type is    *)
(* flipped passes as a control segment if its data adds up to that bit.     *)
THEOREM TypeFlipPasses ==
  ASSUME NEW s \in Segment, checkchecksum(s), s.type = DATA,
         NEW bit \in Bits, s.data = bit, Flip(DATA, bit) = DATA + bit,
         NEW t, t = [s EXCEPT !.type = Flip(@, bit)]
  PROVE  Spoils(s, t) /\ checkchecksum(t)
<1>1. bit \in Nat /\ 0 < bit
  BY WordSizes DEF Bits
<1>2. DATA \in Int /\ s.head \in Int /\ s.checksum \in Int
  BY WordSizes, ChecksumAssumption DEF Segment, Word
<1>3. t.type = DATA + bit /\ t.type # DATA
  BY <1>1, <1>2 DEF Segment
<1>4. t.head = s.head /\ t.checksum = s.checksum
  BY DEF Segment
<1>5. Covered(t) = Covered(s)
  BY <1>1, <1>2, <1>3, <1>4 DEF Covered
<1> QED
  BY <1>5 DEF checkchecksum, Spoils
=============================================================================
