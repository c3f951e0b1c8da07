-------------------------- MODULE MCRequestBudget --------------------------
(***************************************************************************)
(* Two sessions and three results for one article: two in one attempt, or  *)
(* one left over from the first attempt beside one of the second.          *)
(***************************************************************************)
EXTENDS RequestBudget, TLC

CONSTANTS s1, s2, h1, h2, h3, x, y, d1, d2, w1, w2

Symmetry == UNION {Permutations(S) : S \in {Sessions, Handles, Articles, Words}}
=============================================================================
