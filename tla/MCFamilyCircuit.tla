-------------------------- MODULE MCFamilyCircuit --------------------------
(* FamilyCircuit for TLC: attempts are interchangeable.                    *)
EXTENDS FamilyCircuit, TLC

Symmetry == Permutations(Attempts)
=============================================================================
