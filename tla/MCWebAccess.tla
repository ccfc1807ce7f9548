----------------------------- MODULE MCWebAccess -----------------------------
(* Model checking of WebAccess: accounts and requests are interchangeable.   *)
EXTENDS WebAccess, TLC

Symmetry == Permutations(Users) \cup Permutations(Requests)
=============================================================================
