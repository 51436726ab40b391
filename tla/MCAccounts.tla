----------------------------- MODULE MCAccounts -----------------------------
(* Two people, a browser, two posts at a time. *)
EXTENDS Accounts, TLC
CONSTANTS ann, bob, b1, p1, p2
Symmetry == Permutations(People) \cup Permutations(Posts)
=============================================================================
