----------------------------- MODULE MCExstrings -----------------------------
(* A small instance of Exstrings for TLC. *)
EXTENDS Exstrings, TLC

CONSTANTS c1, c2, c3, k1, k2, lock, v1, v2, v3

\* v1 and v2 are the same up to their first zero byte
FirstTwoAlike == v1 :> 1 @@ v2 :> 1 @@ v3 :> 2
Tokens == c1 :> v1 @@ c2 :> v2 @@ c3 :> v3

\* the other keys are interchangeable
Symmetric == Permutations({k1, k2})
==============================================================================
