------------------------------ MODULE Picking ------------------------------
(***************************************************************************)
(* The elements of a sequence at some of its positions, in their order:    *)
(* what a loop that goes over an array and copies what it is looking for   *)
(* leaves behind (SelectSeq of the standard modules, said without          *)
(* recursion).                                                             *)
(***************************************************************************)
EXTENDS Naturals, FiniteSets, Sequences

(* How many of the positions come before the i-th of the sequence. *)
Rank(I, i) == Cardinality({j \in I : j < i})

Pick(s, I) ==
  [k \in 1 .. Cardinality(I) |-> s[CHOOSE i \in I : Rank(I, i) = k - 1]]
=============================================================================
