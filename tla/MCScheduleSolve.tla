--------------------------- MODULE MCScheduleSolve ----------------------------
(* Instances of ScheduleSolve for TLC. *)
EXTENDS ScheduleSolve, TLC

\* Workers are interchangeable, and so are sweeps.
Symmetry == Permutations(Workers) \cup Permutations(Sweeps)
=============================================================================
