----------------------------- MODULE MCDataPath -----------------------------
(***************************************************************************)
(* DataPath for TLC: two segments without and one with a delimiter, and    *)
(* one packet of another thread.  And Checksum on samples.                 *)
(***************************************************************************)
EXTENDS DataPath, Checksum

CONSTANTS a, b, u, r

MCBytes == a :> <<"#", "a", "!">> @@ b :> <<"&", "b", "!">>
             @@ u :> <<"!", "#", "u">> @@ r :> <<"!", "r", "!">>

MCSenders == a :> {"app"} @@ b :> {"timer"} @@ u :> {"timer"}
               @@ r :> {"routeupdate_daemon", "otherListener"}

(* The connections on which a frame is being sent, on its way, or read. *)
Busy ==
  {c \in Conns : \/ stream[c] # <<>> \/ reader[c] # Ready
                 \/ \E t \in Threads : Out[t] = c /\ work[t] # Idle}

(* Bound on the states explored: the frames before the last one (or the     *)
(* closing) take every interleaving; it comes when at most one is left, so  *)
(* that it shows what a cut, a delimiter or an overlap has left behind.     *)
Bounds == Entered = MaxFrames => Cardinality(Busy) <= 1

(* The checksum on words of 4 bits: a fresh one is right, a flipped bit in  *)
(* what is summed makes it wrong.                                           *)
ASSUME FlipsAreFound ==
  \A z \in [head : 0 .. 15, type : {DATA, DATA + 1}, data : 0 .. 30,
            checksum : {0}] :
    LET s == Stamped(z)
    IN  /\ checkchecksum(s)
        /\ \A bit \in Bits :
             /\ ~checkchecksum([s EXCEPT !.head = @ + bit])
             /\ ~checkchecksum([s EXCEPT !.checksum = Flip(@, bit)])
             /\ s.type = DATA => ~checkchecksum([s EXCEPT !.data = @ + bit])
=============================================================================
