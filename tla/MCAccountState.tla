--------------------------- MODULE MCAccountState ---------------------------
(* AccountState for TLC: actors are interchangeable.                       *)
EXTENDS AccountState, TLC

Symmetry == Permutations(Actors)
=============================================================================
