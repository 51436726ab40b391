---------------------------- MODULE MCButtonRules ----------------------------
(* Two Home buttons, two tags and up to two cameras; up to three posts, so that a button   *)
(* whose rules two of them mixed can be saved by the third.  Devices, tags, masks, buttons *)
(* and posts are interchangeable.                                                          *)
EXTENDS ButtonRules, TLC
CONSTANTS gate, yard, front, back, m1, m2, b1, b2, e1, e2, e3
Symmetry ==
  UNION {Permutations(Devices), Permutations(Tags), Permutations(Masks), Permutations(Buttons),
         Permutations(Edits)}
=============================================================================
