------------------------ MODULE OrderedStreamProofs ------------------------
(***************************************************************************)
(* The ordered stream delivers in order: what came out is increasing and   *)
(* stops short of the byte wanted next.                                    *)
(***************************************************************************)
EXTENDS OrderedStream, TLAPS, SequenceTheorems

Out == read \o buffer

(* Everything that came out is below the cursor and in order. *)
StreamInv ==
  /\ cursor \in Nat /\ written \in Nat
  /\ read \in Seq(Nat) /\ buffer \in Seq(Nat)
  /\ \A i \in DOMAIN Out : Out[i] <= cursor
  /\ \A i, j \in DOMAIN Out : i < j => Out[i] < Out[j]

(* Concatenations of byte sequences are byte sequences. *)
LEMMA ConcatNat ==
  \A s, t, u \in Seq(Nat) : (s \o t) \o u = s \o (t \o u)
<1>1. ASSUME NEW s \in Seq(Nat), NEW t \in Seq(Nat), NEW u \in Seq(Nat)
      PROVE  (s \o t) \o u = s \o (t \o u)
  BY ConcatAssociative, SMTT(40)
<1> QED
  BY <1>1

(* The elements of a concatenation are those of the two parts. *)
LEMMA ConcatElements ==
  ASSUME NEW s \in Seq(Nat), NEW t \in Seq(Nat)
  PROVE  /\ s \o t \in Seq(Nat) /\ DOMAIN (s \o t) = 1 .. Len(s) + Len(t)
         /\ \A i \in 1 .. Len(s) : (s \o t)[i] = s[i]
         /\ \A i \in 1 .. Len(t) : (s \o t)[Len(s) + i] = t[i]
<1>1. /\ s \o t \in Seq(Nat) /\ Len(s \o t) = Len(s) + Len(t)
      /\ \A i \in 1 .. Len(s) + Len(t) :
           (s \o t)[i] = IF i <= Len(s) THEN s[i] ELSE t[i - Len(s)]
  BY ConcatProperties
<1>2. Len(s) \in Nat /\ Len(t) \in Nat
  OBVIOUS
<1>3. ASSUME NEW i \in 1 .. Len(t)
      PROVE  (s \o t)[Len(s) + i] = t[i]
  <2>1. /\ Len(s) + i \in 1 .. Len(s) + Len(t) /\ ~(Len(s) + i <= Len(s))
        /\ (Len(s) + i) - Len(s) = i
    BY <1>2
  <2> QED
    BY <1>1, <2>1
<1> QED
  BY <1>1, <1>2, <1>3

(* Taking what was written keeps the order. *)
LEMMA TakeStep ==
  ASSUME StreamInv, NEW n \in Nat, Take(n)
  PROVE  StreamInv'
<1> DEFINE new == [i \in 1 .. n |-> cursor + i]
<1>0. /\ cursor \in Nat /\ read \in Seq(Nat) /\ buffer \in Seq(Nat)
      /\ Out \in Seq(Nat) /\ Len(Out) \in Nat /\ DOMAIN Out = 1 .. Len(Out)
      /\ cursor' = cursor + n /\ read' = read /\ written' = written
  BY ConcatProperties DEF StreamInv, Out, Take
<1>1. new \in Seq(Nat) /\ Len(new) = n /\ \A i \in 1 .. n : new[i] = cursor + i
  BY <1>0
<1>2. buffer' = buffer \o new
  BY DEF Take
<1> HIDE DEF new
<1>3. Out' = Out \o new
  BY <1>0, <1>1, <1>2, ConcatNat, Zenon DEF Out
<1>4. buffer' \in Seq(Nat)
  BY <1>0, <1>1, <1>2, ConcatProperties
<1> DEFINE m == Len(Out)
           all == Out \o new
<1>5. /\ DOMAIN all = 1 .. m + n
      /\ \A i \in 1 .. m : all[i] = Out[i]
      /\ \A i \in 1 .. n : all[m + i] = cursor + i
  BY <1>0, <1>1, ConcatElements
<1> HIDE DEF all
<1>6. \A i \in 1 .. m : Out[i] \in Nat /\ Out[i] <= cursor
  <2>1. \A i \in DOMAIN Out : Out[i] <= cursor
    BY DEF StreamInv
  <2>2. \A i \in 1 .. Len(Out) : Out[i] \in Nat
    BY <1>0
  <2> QED
    BY <1>0, <2>1, <2>2
<1>7. ASSUME NEW i \in 1 .. m + n
      PROVE  /\ i \in 1 .. m => all[i] = Out[i]
             /\ i \notin 1 .. m => i - m \in 1 .. n /\ all[i] = cursor + (i - m)
  <2>1. CASE i \in 1 .. m
    BY <1>5, <2>1
  <2>2. CASE i \notin 1 .. m
    <3>1. i - m \in 1 .. n /\ m + (i - m) = i
      BY <1>0, <2>2
    <3> QED
      BY <1>5, <2>2, <3>1
  <2> QED
    BY <2>1, <2>2
<1>8. ASSUME NEW i \in 1 .. m + n
      PROVE  all[i] <= cursor + n
  <2>1. CASE i \in 1 .. m
    BY <1>0, <1>6, <1>7, <2>1
  <2>2. CASE i \notin 1 .. m
    BY <1>0, <1>7, <2>2
  <2> QED
    BY <2>1, <2>2
<1>9. ASSUME NEW i \in 1 .. m + n, NEW j \in 1 .. m + n, i < j
      PROVE  all[i] < all[j]
  <2>1. CASE j \in 1 .. m
    <3>1. i \in 1 .. m
      BY <1>0, <1>9, <2>1
    <3> QED
      BY <1>0, <1>7, <1>9, <2>1, <3>1 DEF StreamInv
  <2>2. CASE j \notin 1 .. m /\ i \in 1 .. m
    BY <1>0, <1>6, <1>7, <2>2
  <2>3. CASE j \notin 1 .. m /\ i \notin 1 .. m
    BY <1>0, <1>7, <1>9, <2>3
  <2> QED
    BY <2>1, <2>2, <2>3
<1>10. Out' = all
  BY <1>3 DEF all
<1> QED
  BY <1>0, <1>4, <1>5, <1>8, <1>9, <1>10 DEF StreamInv

(* Reading keeps the order. *)
LEMMA ReadStep ==
  ASSUME StreamInv, NEW n \in 0 .. Len(buffer), Read(n)
  PROVE  StreamInv'
<1> DEFINE a == SubSeq(buffer, 1, n)
           b == SubSeq(buffer, n + 1, Len(buffer))
<1>0. buffer \in Seq(Nat) /\ read \in Seq(Nat) /\ n \in Nat /\ Len(buffer) \in Nat
  BY DEF StreamInv
<1>1. a \in Seq(Nat) /\ b \in Seq(Nat)
  BY <1>0
<1>2. a \o b = buffer
  <2>1. /\ 1 \in 1 .. Len(buffer) + 1 /\ n \in 1 - 1 .. Len(buffer)
        /\ Len(buffer) \in n .. Len(buffer)
    BY <1>0
  <2>2. a \o b = SubSeq(buffer, 1, Len(buffer))
    BY <1>0, <2>1, ConcatAdjacentSubSeq
  <2>3. SubSeq(buffer, 1, Len(buffer)) = buffer
    BY <1>0, SubSeqFull
  <2> QED
    BY <2>2, <2>3
<1>3. /\ read' = read \o a /\ buffer' = b
      /\ UNCHANGED <<written, cursor>>
  BY DEF Read
<1> HIDE DEF a, b
<1>4. Out' = Out
  <2>1. (read \o a) \o b = read \o (a \o b)
    BY <1>0, <1>1, ConcatNat, Zenon
  <2> QED
    BY <1>2, <1>3, <2>1 DEF Out
<1>5. read' \in Seq(Nat) /\ buffer' \in Seq(Nat)
  BY <1>0, <1>1, <1>3, ConcatProperties
<1> QED
  BY <1>3, <1>4, <1>5 DEF StreamInv

(* Giving up what was taken keeps the order. *)
LEMMA DiscardStep ==
  ASSUME StreamInv, Discard
  PROVE  StreamInv'
<1>0. /\ buffer \in Seq(Nat) /\ read \in Seq(Nat) /\ read' = read
      /\ buffer' = <<>> /\ UNCHANGED <<written, cursor>>
  BY DEF StreamInv, Discard
<1>1. Out' = read
  BY <1>0 DEF Out
<1>2. /\ \A i \in 1 .. Len(read) : i \in DOMAIN Out /\ Out[i] = read[i]
      /\ DOMAIN read = 1 .. Len(read)
  <2>1. Len(read) \in Nat /\ Len(buffer) \in Nat
    BY <1>0
  <2>2. \A i \in 1 .. Len(read) : i \in 1 .. Len(read) + Len(buffer)
    BY <2>1
  <2> QED
    BY <1>0, <2>2, ConcatElements DEF Out
<1> QED
  BY <1>0, <1>1, <1>2 DEF StreamInv

(* Whatever is given up, the reader never sees bytes out of order or twice. *)
THEOREM StreamDelivers ==
  StreamSpec => []StreamInOrder
<1>1. StreamInit => StreamInv
  BY DEF StreamInit, StreamInv, Out
<1>2. StreamInv /\ [StreamNext]_streamVars => StreamInv'
  <2> SUFFICES ASSUME StreamInv, [StreamNext]_streamVars
               PROVE  StreamInv'
    OBVIOUS
  <2>1. CASE Write
    BY <2>1 DEF Write, StreamInv, Out
  <2>2. CASE Resume
    <3>1. /\ cursor' \in cursor .. written /\ cursor \in Nat /\ written \in Nat
          /\ UNCHANGED <<written, buffer, read>>
      BY <2>2 DEF Resume, StreamInv
    <3>2. \A i \in DOMAIN Out : Out[i] \in Nat
      BY ConcatProperties DEF StreamInv, Out
    <3>3. \A i \in DOMAIN Out : Out[i] <= cursor'
      BY <3>1, <3>2 DEF StreamInv
    <3> QED
      BY <3>1, <3>3, SMTT(40) DEF StreamInv, Out
  <2>3. CASE Discard
    BY <2>3, DiscardStep
  <2>4. ASSUME NEW n \in 0 .. written - cursor, Take(n)
        PROVE  StreamInv'
    <3>1. n \in Nat
      BY DEF StreamInv
    <3> QED
      BY <2>4, <3>1, TakeStep
  <2>5. ASSUME NEW n \in 0 .. Len(buffer), Read(n)
        PROVE  StreamInv'
    BY <2>5, ReadStep
  <2>6. CASE UNCHANGED streamVars
    BY <2>6 DEF streamVars, StreamInv, Out
  <2> QED
    BY <2>1, <2>2, <2>3, <2>4, <2>5, <2>6 DEF StreamNext
<1>3. StreamInv => StreamInOrder
  BY DEF StreamInv, StreamInOrder, Out
<1> QED
  BY <1>1, <1>2, <1>3, PTL DEF StreamSpec
=============================================================================
