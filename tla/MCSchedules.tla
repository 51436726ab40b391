----------------------------- MODULE MCSchedules -----------------------------
(* Two days, one of a place west of Greenwich where the sunset found is that *)
(* of the evening before, and four forms: hours, no mask at all, a window    *)
(* through midnight with a blank offset, one whose two ends come together.   *)
EXTENDS Schedules, TLC
CONSTANTS motion, person, m1, f1, f2
MCForms ==
  {[dynamic |-> FALSE, static |-> 8..17, rise |-> {}, set |-> {}, fill |-> TRUE],
   [dynamic |-> FALSE, static |-> 8..24, rise |-> {}, set |-> {}, fill |-> TRUE],
   [dynamic |-> TRUE, static |-> {}, rise |-> {}, set |-> {10}, fill |-> FALSE],
   [dynamic |-> TRUE, static |-> {}, rise |-> {27}, set |-> {0}, fill |-> TRUE]}
MCSuns == {[rise |-> 13, set |-> 39], [rise |-> 11, set |-> -7]}
Symmetry == Permutations(Types) \cup Permutations(Masks) \cup Permutations(Posts)
==============================================================================
