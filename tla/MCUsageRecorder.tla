-------------------------- MODULE MCUsageRecorder --------------------------
(* Small instances of UsageRecorder for TLC.                               *)
EXTENDS UsageRecorder, TLC

\* Instances are interchangeable; so are records, but for the late one.
Symmetry == Permutations(Instances)
=============================================================================
