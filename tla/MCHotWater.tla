------------------------------ MODULE MCHotWater ------------------------------
(* Two starts, a cancel and a status poll. *)
EXTENDS HotWater
CONSTANTS s1, s2, c1, p1
=============================================================================
