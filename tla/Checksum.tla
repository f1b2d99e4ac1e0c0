------------------------------ MODULE Checksum ------------------------------
(***************************************************************************)
(* The checksum of a segment (common/seg.c: checksum, checkchecksum) and   *)
(* the bit that seglost flips.  The sum runs over words; all that matters  *)
(* of the header's other words, and of the data, is what they add up to.   *)
(***************************************************************************)
EXTENDS Integers

CONSTANTS
  M,          \* a word has M values: 2^16 in the code
  HeadWords,  \* words of the header without type and checksum: 10
  DataWords,  \* words of data: MAX_SEG_LEN / 2 = 100
  DATA        \* the type of a data segment: 4

Word == 0 .. M - 1

ASSUME ChecksumAssumption ==
  /\ HeadWords \in Nat /\ DataWords \in Nat /\ DATA \in Word
  /\ M \in Nat /\ HeadWords + DataWords + 2 < M - 1

Segment == [head : 0 .. HeadWords * (M - 1), type : Word,
            data : 0 .. DataWords * (M - 1), checksum : Word]

(* A control segment is summed without its data. *)
Covered(s) ==
  s.head + s.type + s.checksum + (IF s.type = DATA THEN s.data ELSE 0)

(* "Fold 32-bit sum to 16 bits", and ~ of an unsigned short. *)
Once(sum) == (sum % M) + (sum \div M)
Fold(sum) == Once(sum) + (Once(sum) \div M)
Complement(sum) == M - 1 - (sum % M)

checksum(s) == Complement(Fold(Covered([s EXCEPT !.checksum = 0])))
checkchecksum(s) == Complement(Fold(Covered(s))) = 0

(* snp_sendseg *)
Stamped(s) == [s EXCEPT !.checksum = checksum(s)]

(* The bits of a word, if M is a power of two; and one that is flipped. *)
Bits == {bit \in 1 .. M \div 2 : M % bit = 0}

Flip(word, bit) ==
  IF (word \div bit) % 2 = 0 THEN word + bit ELSE word - bit

(* What seglost may make of a segment; a control segment has no data. *)
Spoils(s, t) ==
  \E bit \in Bits : \E d \in {bit, -bit} :
    \/ t = [s EXCEPT !.head = @ + d]
    \/ t = [s EXCEPT !.type = Flip(@, bit)]
    \/ t = [s EXCEPT !.checksum = Flip(@, bit)]
    \/ s.type = DATA /\ t = [s EXCEPT !.data = @ + d]
=============================================================================
