--------------------------- MODULE MCLeaderLease ---------------------------
(* LeaderLease for TLC: instances are interchangeable.                     *)
EXTENDS LeaderLease, TLC

Symmetry == Permutations(Instances)
=============================================================================
