----------------------------- MODULE MCNvrSync -----------------------------
(* Two channels, two names, three devices; two pages. *)
EXTENDS NvrSync, TLC
CONSTANTS front, back, p1, p2
Symmetry == Permutations(Names) \cup Permutations(Pages)
=============================================================================
