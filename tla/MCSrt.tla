------------------------------- MODULE MCSrt -------------------------------
(***************************************************************************)
(* Srt for TLC: the constants are given in the configurations.             *)
(***************************************************************************)
EXTENDS SrtInv, SrtClaims
=============================================================================
