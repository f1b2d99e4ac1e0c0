----------------------------- MODULE MCOverlay -----------------------------
(***************************************************************************)
(* Overlay for TLC: three nodes in a line, the one in the middle with a    *)
(* smaller and a larger neighbour.                                         *)
(***************************************************************************)
EXTENDS Overlay

MCNodes == 1 .. 3

MCTable == [n \in MCNodes |-> IF n = 2 THEN <<3, 1>> ELSE <<2>>]

MCMaxPackets == <<1, 2, 0>>
=============================================================================
