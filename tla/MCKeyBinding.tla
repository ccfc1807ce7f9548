---------------------------- MODULE MCKeyBinding ----------------------------
(***************************************************************************)
(* KeyBinding on small sets, whose elements are interchangeable.           *)
(***************************************************************************)
EXTENDS KeyBinding, TLC

CONSTANTS m1, m2, n1, n2, r1, r2, s1, s2

Symmetry ==
    Permutations({m1, m2}) \cup Permutations({n1, n2}) \cup
    Permutations({r1, r2}) \cup Permutations({s1, s2})
=============================================================================
